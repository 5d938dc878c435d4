---------------------------- MODULE SiteyctlArgs ----------------------------
(***************************************************************************)
(* The command line of siteyctl: the table of spec.ts and the parser of    *)
(* args.ts.  A token is a word, an option (--name) or the end of options   *)
(* (--); "equals" tokens (--name=value) are made by the parser.  The parts *)
(* of the table that only print (summaries, descriptions, examples) are    *)
(* left out, and so are short names (-h, -o) and --name=value as typed.    *)
(***************************************************************************)
EXTENDS Naturals, Sequences, FiniteSets, FiniteSetsExt

CONSTANTS ArgWords,    \* words that may be typed
          ArgOptions,  \* options that may be typed, "--" among them if wanted
          ArgStarts,   \* command lines that typing starts from
          ArgLength    \* bound: tokens of a command line

ArgToken(kind, text, value) == [kind |-> kind, text |-> text, value |-> value]
ArgNone == ""  \* no value
ArgWord(text) == ArgToken("word", text, ArgNone)
ArgOption(name) == IF name = "--" THEN ArgToken("end", ArgNone, ArgNone) ELSE ArgToken("option", name, ArgNone)

ArgTyped == {ArgWord(w) : w \in ArgWords} \cup {ArgOption(o) : o \in ArgOptions}

ArgDefault == "Dockerfile"  \* the default of --dockerfile, and the value of a flag:
ArgYes == "yes"

(* What is typed is told from both. *)
ASSUME ArgAssumption ==
  ArgLength \in Nat /\ ArgStarts \subseteq Seq(ArgTyped) /\ ArgWords \cap {ArgDefault, ArgYes} = {}

VARIABLE argv

ArgVars == <<argv>>

-----------------------------------------------------------------------------
(* spec.ts: GLOBAL_OPTIONS and the groups of options *)

ArgBoth(f, g) == [o \in DOMAIN f \cup DOMAIN g |-> IF o \in DOMAIN f THEN f[o] ELSE g[o]]

ArgStrings(names) == [o \in names |-> "string"]
ArgFlags(names) == [o \in names |-> "boolean"]

ArgGlobal == ArgBoth(ArgStrings({"server"}), ArgFlags({"json", "help"}))

ArgWait == ArgBoth(ArgFlags({"wait"}), ArgStrings({"timeout"}))

ArgBuild ==
  ArgBoth(ArgStrings({"branch", "build-image", "build-command", "output-dir", "run-command", "port"}),
          [o \in {"dockerfile"} |-> "optional-string"])

ArgRouting == ArgStrings({"static-routing", "static-caddy-file"})

ArgCommand(name, least, most, options) == [name |-> name, least |-> least, most |-> most, options |-> options]

(* COMMANDS, with the least and the most positional arguments of each *)
ArgServerCommands ==
  {ArgCommand(<<"login">>, 2, 2, <<>>), ArgCommand(<<"servers">>, 0, 0, <<>>),
   ArgCommand(<<"services">>, 0, 0, <<>>), ArgCommand(<<"service", "get">>, 1, 1, <<>>)}

ArgCreateCommand ==
  ArgCommand(<<"service", "create">>, 1, 1,
             ArgBoth(ArgStrings({"repo", "mode", "route", "github-mode"}), ArgBoth(ArgBuild, ArgRouting)))

ArgServiceCommands ==
  {ArgCommand(<<"service", "set">>, 1, 1,
              ArgBoth(ArgBoth(ArgStrings({"mode"}), ArgFlags({"no-dockerfile"})), ArgBoth(ArgBuild, ArgRouting))),
   ArgCommand(<<"service", "rename">>, 2, 2, <<>>), ArgCommand(<<"service", "delete">>, 1, 1, ArgStrings({"confirm"})),
   ArgCommand(<<"service", "activate">>, 1, 1, <<>>), ArgCommand(<<"service", "deactivate">>, 1, 1, <<>>)}

ArgRouteEnvCommands ==
  {ArgCommand(<<"route", "add">>, 2, 2, <<>>), ArgCommand(<<"route", "remove">>, 2, 2, <<>>),
   ArgCommand(<<"env", "list">>, 1, 1, ArgFlags({"values"})), ArgCommand(<<"env", "get">>, 2, 2, <<>>),
   ArgCommand(<<"env", "set">>, 2, 2, <<>>), ArgCommand(<<"env", "unset">>, 2, 2, <<>>)}

ArgDeployCommands ==
  {ArgCommand(<<"deploy">>, 1, 1, ArgWait), ArgCommand(<<"status">>, 0, 1, ArgWait),
   ArgCommand(<<"logs">>, 1, 1, ArgBoth(ArgStrings({"deployment", "tail"}), ArgFlags({"runtime"}))),
   ArgCommand(<<"domains">>, 0, 0, <<>>), ArgCommand(<<"domain", "add">>, 1, 1, ArgStrings({"email"})),
   ArgCommand(<<"export">>, 0, 0, ArgStrings({"output"}))}

ArgTable == ArgServerCommands \cup {ArgCreateCommand} \cup ArgServiceCommands
              \cup ArgRouteEnvCommands \cup ArgDeployCommands

-----------------------------------------------------------------------------
(* args.ts *)

ArgIs(tokens, k, kind) == k \in DOMAIN tokens /\ tokens[k].kind = kind

\* Faulty variant: the value of --server counts as a word.
ArgWordIndexesAll(tokens) ==
  {k \in DOMAIN tokens : ArgIs(tokens, k, "word") /\ \A j \in 1 .. k : tokens[j].kind # "end"}

(* The token after --server is skipped, whatever it is. *)
ArgSkipped(tokens) ==
  LET skipped[k \in 0 .. Len(tokens)] ==
        IF k < 2 THEN FALSE ELSE tokens[k - 1] = ArgOption("server") /\ ~skipped[k - 1]
  IN skipped

(* wordIndexes: the words before "--" that are not the value of --server. *)
ArgWordIndexes(tokens) ==
  LET ends == {k \in DOMAIN tokens : tokens[k].kind = "end" /\ ~ArgSkipped(tokens)[k]}
  IN {k \in DOMAIN tokens : tokens[k].kind = "word" /\ ~ArgSkipped(tokens)[k] /\ \A e \in ends : k < e}

ArgNamed(name) == {c \in ArgTable : c.name = name}

(* findCommand: two words next to each other, else the first word.  Where the
   words are that name a command, <<>> if none does. *)
ArgFind(tokens) ==
  LET words == ArgWordIndexes(tokens)
      first == Min(words)
  IN IF words = {} THEN <<>>
     ELSE IF first + 1 \in words /\ ArgNamed(<<tokens[first].text, tokens[first + 1].text>>) # {}
     THEN <<first, first + 1>>
     ELSE IF ArgNamed(<<tokens[first].text>>) # {} THEN <<first>> ELSE <<>>

ArgCommandAt(tokens, at) == CHOOSE c \in ArgNamed([k \in 1 .. Len(at) |-> tokens[at[k]].text]) : TRUE

(* The tokens at some places, in their order. *)
ArgKept(tokens, places) ==
  LET kept[k \in 0 .. Len(tokens)] ==
        IF k = 0 THEN <<>> ELSE IF k \in places THEN Append(kept[k - 1], tokens[k]) ELSE kept[k - 1]
  IN kept[Len(tokens)]

ArgOptional(token, options) ==
  token.kind = "option" /\ token.text \in DOMAIN options /\ options[token.text] = "optional-string"

ArgTaken(tokens, options, k) == k > 1 /\ tokens[k].kind = "word" /\ ArgOptional(tokens[k - 1], options)

ArgGiveValue(tokens, options, k) ==
  IF ArgOptional(tokens[k], options)
  THEN ArgToken("equals", tokens[k].text, IF ArgIs(tokens, k + 1, "word") THEN tokens[k + 1].text ELSE ArgDefault)
  ELSE tokens[k]

(* expandOptionalValues: an option with an optional value takes the next token
   if that is a word, else its default. *)
ArgExpand(tokens, options) ==
  ArgKept([k \in DOMAIN tokens |-> ArgGiveValue(tokens, options, k)],
          {k \in DOMAIN tokens : ~ArgTaken(tokens, options, k)})

(* parseArgs of node:util, strict: the options known, a word after those that
   take a value, and everything after "--" an argument. *)
ArgEnd(tokens) ==
  LET ends == {k \in DOMAIN tokens : tokens[k].kind = "end"}
  IN IF ends = {} THEN Len(tokens) + 1 ELSE Min(ends)

ArgTakes(token, options) ==
  token.kind = "option" /\ token.text \in DOMAIN options /\ options[token.text] # "boolean"

ArgIsValue(tokens, options, k) ==
  k > 1 /\ k < ArgEnd(tokens) /\ tokens[k].kind = "word" /\ ArgTakes(tokens[k - 1], options)

ArgGiven(tokens) == {k \in DOMAIN tokens : k < ArgEnd(tokens) /\ tokens[k].kind \in {"option", "equals"}}

ArgKnown(tokens, options, k) ==
  tokens[k].text \in DOMAIN options /\ (ArgTakes(tokens[k], options) => ArgIsValue(tokens, options, k + 1))

ArgValue(tokens, options, k) ==
  IF tokens[k].kind = "equals" THEN tokens[k].value
  ELSE IF ArgIsValue(tokens, options, k + 1) THEN tokens[k + 1].text ELSE ArgYes

(* Of an option that is repeated the last value.  So too of --route, which in the
   code collects all of them: what follows says nothing of repeated options. *)
ArgValues(tokens, options) ==
  [o \in {tokens[k].text : k \in ArgGiven(tokens)} |->
     ArgValue(tokens, options, Max({k \in ArgGiven(tokens) : tokens[k].text = o}))]

ArgPositionals(tokens, options) ==
  ArgKept(tokens, {k \in DOMAIN tokens : \/ k > ArgEnd(tokens)
                                         \/ /\ k < ArgEnd(tokens) /\ tokens[k].kind = "word"
                                            /\ ~ArgIsValue(tokens, options, k)})

ArgCountOk(command, n) == command.least <= n /\ n <= command.most

ArgResult(kind) == [kind |-> kind, command |-> <<>>, args |-> <<>>, options |-> <<>>]

(* Parsed with the options of the command that was found, without its name. *)
ArgRun(command, rest) ==
  LET options == ArgBoth(ArgGlobal, command.options)
      tokens == ArgExpand(rest, options)
      values == ArgValues(tokens, options)
      args == ArgPositionals(tokens, options)
  IN IF \E k \in ArgGiven(tokens) : ~ArgKnown(tokens, options, k) THEN ArgResult("usage")
     ELSE IF "help" \in DOMAIN values THEN ArgResult("help")
     ELSE IF ~ArgCountOk(command, Len(args)) THEN ArgResult("usage")
     ELSE [kind |-> "run", command |-> command.name, args |-> args, options |-> values]

ArgPlaces(at) == {at[k] : k \in 1 .. Len(at)}

(* parseInvocation *)
ArgInvocation(tokens) ==
  LET at == ArgFind(tokens)
      asks == ArgWordIndexes(tokens) = {} /\ \E k \in DOMAIN tokens : tokens[k] = ArgOption("help")
  IN IF tokens = <<>> THEN ArgResult("help")
     ELSE IF tokens[1] = ArgWord("help")
     THEN ArgResult(IF Len(tokens) = 1 \/ ArgFind(Tail(tokens)) # <<>> THEN "help" ELSE "usage")
     ELSE IF at = <<>> THEN ArgResult(IF asks THEN "help" ELSE "usage")
     ELSE ArgRun(ArgCommandAt(tokens, at), ArgKept(tokens, DOMAIN tokens \ ArgPlaces(at)))

-----------------------------------------------------------------------------
ArgInit == argv \in ArgStarts

ArgType == Len(argv) < ArgLength /\ \E t \in ArgTyped : argv' = Append(argv, t)

ArgSpec == ArgInit /\ [][ArgType]_ArgVars

-----------------------------------------------------------------------------
ArgWordsOf(tokens) == {k \in DOMAIN tokens : tokens[k].kind = "word"}

ArgPlain == \A k \in DOMAIN argv : argv[k] # ArgOption("--")
ArgRepeats == \E j, k \in DOMAIN argv : j # k /\ argv[j].kind = "option" /\ argv[k] = argv[j]

(* Types: what is run is a command of the table with as many arguments as it
   takes and options that it or every command has. *)
ArgTypeOK ==
  LET i == ArgInvocation(argv) IN
  i.kind = "run" => \E c \in ArgNamed(i.command) :
    /\ c.least <= Len(i.args) /\ Len(i.args) <= c.most
    /\ DOMAIN i.options \subseteq DOMAIN c.options \cup {"server", "json"}

(* Every word of a command that is run is used, and used once: in the name of
   the command, as an argument or as the value of an option.  An option that is
   repeated keeps its last value only, unless it is --route (args.ts:37-186). *)
WordsAreUsed ==
  LET i == ArgInvocation(argv)
      valued == {o \in DOMAIN i.options : i.options[o] \in ArgWords}
  IN i.kind = "run" /\ ArgPlain /\ ~ArgRepeats =>
       Cardinality(ArgWordsOf(argv)) = Len(i.command) + Len(i.args) + Cardinality(valued)

(* --server may be given before everything else, and is overridden by one that
   follows: the same command runs with the same arguments (args.ts:37-50). *)
ServerMayComeFirst ==
  LET i == ArgInvocation(argv)
      j == ArgInvocation(<<ArgOption("server"), ArgWord("x")>> \o argv)
  IN i.kind = "run" => j = [i EXCEPT !.options = ArgBoth(i.options, [o \in {"server"} |-> "x"])]

(* Together: a command line that is run is understood as it was typed. *)
LineIsUnderstood == ArgTypeOK /\ WordsAreUsed /\ ServerMayComeFirst

=============================================================================
