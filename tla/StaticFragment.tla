--------------------------- MODULE StaticFragment ---------------------------
(***************************************************************************)
(* The Caddy directives a static service supplies (staticRouting.ts): they *)
(* are tokenized and checked, indented and placed into the service's       *)
(* handle block, or into a file that Caddy adapts to validate them         *)
(* (caddy.ts).  A text is a sequence of lines, a line one of symbols: "sp" *)
(* (a space or tab), "cr" (a carriage return), "wide" (other white space,  *)
(* as a no-break space), the quotes "dq" and "bt", "bs" (a backslash),     *)
(* "hash", "<<", "{", "}" and words; "nl" is a line end within quotes.     *)
(***************************************************************************)
EXTENDS Naturals, Sequences, FiniteSets, FiniteSetsExt

CONSTANTS FragSymbols,  \* the symbols of a line
          FragTyped,    \* those that are typed, besides line ends
          FragStarts,   \* texts to begin with
          FragLength    \* bound: symbols typed

ASSUME FragAssumption ==
  /\ FragLength \in Nat /\ FragTyped \subseteq FragSymbols /\ "nl" \notin FragSymbols
  /\ FragStarts \subseteq Seq(Seq(FragSymbols)) \ {<<>>}

VARIABLES fragText, fragTyped

FragVars == <<fragText, fragTyped>>

(* White space that separates tokens, and all of it as JavaScript knows it. *)
FragLexBlanks == {"nl", "sp", "cr"}
FragBlanks == FragLexBlanks \cup {"wide"}
FragQuotes == {"dq", "bt"}
FragNoQuote == "none"

(* Some of ALLOWED_DIRECTIVES, CONTAINER_DIRECTIVES, FORBIDDEN_SUBDIRECTIVES
   and of what FORBIDDEN_PLACEHOLDERS match. *)
FragAllowed == {<<"file_server">>, <<"handle">>, <<"header">>, <<"respond">>, <<"route">>, <<"try_files">>}
FragContainers == {<<"handle">>, <<"route">>}
FragForbidden == {<<"root">>, <<"fs">>, <<"import">>}
FragPlaceholders == <<"{$X}", "{env.X}", "{file.X}">>
FragMatchers == {"@m"}

-----------------------------------------------------------------------------
(* lex *)

FragLexStart ==
  [tokens |-> <<>>, text |-> <<>>, in |-> FALSE, quote |-> FragNoQuote, quoteLine |-> 0, tokenLine |-> 1,
   line |-> 1, continuation |-> {}, escaped |-> FALSE, comment |-> FALSE, err |-> 0]

FragToken(s, quoted) == [text |-> s.text, quoted |-> quoted, line |-> s.tokenLine, endLine |-> s.line]

FragEnd(s, quoted) ==
  [s EXCEPT !.text = <<>>, !.in = FALSE,
            !.tokens = IF s.in THEN Append(s.tokens, FragToken(s, quoted)) ELSE s.tokens]

FragFail(s, line) == [s EXCEPT !.err = line]

(* Within quotes. *)
FragQuoted(s, ch, next) ==
  IF s.quote = "dq" /\ ch = "bs" /\ next = "dq" THEN [s EXCEPT !.text = Append(s.text, "dq"), !.escaped = TRUE]
  ELSE IF ch # s.quote THEN [s EXCEPT !.text = Append(s.text, ch)]
  ELSE IF next \notin FragBlanks THEN FragFail(s, s.line)
  ELSE [FragEnd(s, TRUE) EXCEPT !.quote = FragNoQuote]

FragUnquoted(s, ch) ==
  IF ch \in FragLexBlanks THEN FragEnd(s, FALSE)
  ELSE IF ~s.in /\ ch = "hash" THEN [s EXCEPT !.comment = TRUE]
  ELSE IF ~s.in /\ ch \in FragQuotes
       THEN [s EXCEPT !.quote = ch, !.quoteLine = s.line, !.in = TRUE, !.tokenLine = s.line]
  ELSE IF ch \in FragQuotes \cup {"bs"} \/ (~s.in /\ ch = "<<") THEN FragFail(s, s.line)
  ELSE [s EXCEPT !.text = Append(s.text, ch), !.in = TRUE, !.tokenLine = IF s.in THEN s.tokenLine ELSE s.line]

FragStep(s, ch, next) ==
  IF s.err # 0 \/ s.comment THEN s
  ELSE IF s.escaped THEN [s EXCEPT !.escaped = FALSE]
  ELSE IF s.quote # FragNoQuote THEN FragQuoted(s, ch, next)
  ELSE FragUnquoted(s, ch)

(* At a line end, which is part of a token within quotes. *)
FragNewLine(s) ==
  IF s.err # 0 THEN s
  ELSE IF s.quote # FragNoQuote
  THEN [s EXCEPT !.line = s.line + 1, !.continuation = s.continuation \cup {s.line + 1}, !.text = Append(s.text, "nl")]
  ELSE [FragEnd(s, FALSE) EXCEPT !.line = s.line + 1, !.comment = FALSE]

(* From s, after each symbol of a line; a line end or the end comes next. *)
FragAlong(s, line) ==
  LET along[i \in 0 .. Len(line)] ==
        IF i = 0 THEN s ELSE FragStep(along[i - 1], line[i], IF i < Len(line) THEN line[i + 1] ELSE "nl")
  IN along

(* After each line of a text. *)
FragLexed(text) ==
  LET lexed[k \in 0 .. Len(text)] ==
        IF k = 0 THEN FragLexStart
        ELSE FragAlong(IF k = 1 THEN lexed[0] ELSE FragNewLine(lexed[k - 1]), text[k])[Len(text[k])]
  IN lexed

FragLex(text) ==
  LET s == FragLexed(text)[Len(text)]
  IN IF s.err # 0 THEN s ELSE IF s.quote # FragNoQuote THEN FragFail(s, s.quoteLine) ELSE FragEnd(s, FALSE)

-----------------------------------------------------------------------------
(* checkCaddyFragment *)

(* A token that starts where the last one ended is on the same line. *)
FragEndsLine(tokens, k) == k = Len(tokens) \/ tokens[k].endLine # tokens[k + 1].line

(* The line that a token ends. *)
FragLineOf(tokens, k) ==
  LET earlier == {j \in 1 .. k - 1 : FragEndsLine(tokens, j)}
  IN SubSeq(tokens, IF earlier = {} THEN 1 ELSE Max(earlier) + 1, k)

FragBrace(t, ch) == ~t.quoted /\ t.text = <<ch>>

(* A brace in quotes is one for Caddy's parser. *)
FragQuotedBraces(line) == {k \in DOMAIN line : line[k].quoted /\ line[k].text \in {<<"{">>, <<"}">>}}

FragInDirectives(stack) == stack = <<>> \/ stack[Len(stack)].container

FragBraceMisplaced(line) ==
  LET opens == {k \in DOMAIN line : FragBrace(line[k], "{")}
      closes == {k \in DOMAIN line : FragBrace(line[k], "}")}
  IN \/ closes # {} /\ Len(line) > 1
     \/ opens # {} /\ (opens # {Len(line)} \/ Len(line) = 1)

FragNameRefused(stack, first) ==
  IF ~FragInDirectives(stack) THEN ~first.quoted /\ first.text \in FragForbidden
  ELSE \/ first.quoted
       \/ IF first.text[1] \in FragMatchers THEN Len(first.text) > 1 ELSE first.text \notin FragAllowed

(* browse takes no template, on file_server's line or in its block. *)
FragBrowses(stack, line) ==
  LET browse == {k \in DOMAIN line : line[k].text = <<"browse">>}
      after == IF FragInDirectives(stack) THEN line[1].text = <<"file_server">> /\ browse # {}
               ELSE stack[Len(stack)].directive = <<"file_server">> /\ 1 \in browse
  IN after /\ \E k \in Min(browse) + 1 .. Len(line) : ~FragBrace(line[k], "{") /\ ~FragBrace(line[k], "}")

(* One line, with the blocks that are open; err is the line that is refused. *)
FragCheckLine(s, line) ==
  LET first == line[1]
      closing == FragBrace(first, "}")
  IN IF s.err # 0 THEN s
     ELSE IF FragQuotedBraces(line) # {} THEN FragFail(s, line[Min(FragQuotedBraces(line))].line)
     ELSE IF FragBraceMisplaced(line) \/ (closing /\ s.stack = <<>>) THEN FragFail(s, first.line)
     ELSE IF closing THEN [s EXCEPT !.stack = SubSeq(s.stack, 1, Len(s.stack) - 1)]
     ELSE IF FragNameRefused(s.stack, first) \/ FragBrowses(s.stack, line) THEN FragFail(s, first.line)
     ELSE IF ~FragBrace(line[Len(line)], "{") THEN s
     ELSE [s EXCEPT !.stack = Append(s.stack, [directive |-> first.text, line |-> first.line,
                       container |-> FragInDirectives(s.stack) /\ first.text \in FragContainers])]

FragCheckStart == [stack |-> <<>>, err |-> 0]

(* After each token: a line is checked with the token that ends it. *)
FragChecked(tokens) ==
  LET checked[k \in 0 .. Len(tokens)] ==
        IF k = 0 THEN FragCheckStart
        ELSE IF FragEndsLine(tokens, k) THEN FragCheckLine(checked[k - 1], FragLineOf(tokens, k)) ELSE checked[k - 1]
  IN checked

FragBlank(line) == \A i \in DOMAIN line : line[i] \in FragBlanks

(* The lines with a placeholder, and the first with the first kind there is. *)
FragWith(text, symbol) == {k \in DOMAIN text : \E i \in DOMAIN text[k] : text[k][i] = symbol}
FragPlaced(text) == {p \in DOMAIN FragPlaceholders : FragWith(text, FragPlaceholders[p]) # {}}
FragPlaceLine(text) == Min(FragWith(text, FragPlaceholders[Min(FragPlaced(text))]))

(* The line that is refused, 0 if none is; empty texts are refused as a whole. *)
FragError(text) ==
  LET lexed == FragLex(text)
      checked == FragChecked(lexed.tokens)[Len(lexed.tokens)]
  IN IF \A k \in DOMAIN text : FragBlank(text[k]) THEN 1
     ELSE IF FragPlaced(text) # {} THEN FragPlaceLine(text)
     ELSE IF lexed.err # 0 THEN lexed.err
     ELSE IF checked.err # 0 THEN checked.err
     ELSE IF checked.stack # <<>> THEN checked.stack[Len(checked.stack)].line ELSE 0

FragAccepted(text) == FragError(text) = 0

-----------------------------------------------------------------------------
(* What is placed into Caddy's configuration *)

(* A line end of two symbols becomes one, within quotes too. *)
FragLineEnds(text) ==
  [k \in DOMAIN text |-> IF k < Len(text) /\ text[k] # <<>> /\ text[k][Len(text[k])] = "cr"
                         THEN SubSeq(text[k], 1, Len(text[k]) - 1) ELSE text[k]]

FragFull(line) == {i \in DOMAIN line : line[i] \notin FragBlanks}

FragTrimmed(line) == SubSeq(line, 1, IF FragBlank(line) THEN 0 ELSE Max(FragFull(line)))
FragTrimStart(line) == SubSeq(line, Min(FragFull(line)), Len(line))

(* The white space at the end goes, line ends included. *)
FragTrimEnd(text) ==
  LET full == {k \in DOMAIN text : ~FragBlank(text[k])}
      last == IF full = {} THEN 1 ELSE Max(full)
  IN [k \in 1 .. last |-> IF k = last THEN FragTrimmed(text[k]) ELSE text[k]]

\* Faulty variant: lines within quotes are indented too.
FragContinuesNever(text, k) == FALSE

FragContinues(text, k) == k \in FragLex(text).continuation

FragPushed(line) == <<"sp", "sp">> \o line

(* indentFragment *)
FragIndented(text) ==
  LET lines == FragTrimEnd(FragLineEnds(text))
  IN [k \in DOMAIN lines |-> IF FragContinues(text, k) \/ FragBlank(lines[k]) THEN lines[k]
                             ELSE FragPushed(FragTrimStart(lines[k]))]

(* staticServingLines: a stored text that no longer passes is not served. *)
FragServing(text) == IF FragAccepted(text) THEN FragIndented(text) ELSE << <<"respond">> >>

(* appendRouteHandler: a route without a prefix gets a handle block around it,
   and every line another indentation, those within quotes too. *)
FragRendered(lines, root) == [k \in DOMAIN lines |-> IF root THEN FragPushed(lines[k]) ELSE lines[k]]

(* The file that Caddy adapts for validation, and where it starts the text. *)
FragSynthetic(text) ==
  << <<"site", "{">>, <<"handle", "{">> >> \o FragRendered(<< <<"tag">>, <<"tag">>, <<"root">> >> \o FragIndented(text), TRUE)

FragOffset == 5  \* FRAGMENT_LINE_OFFSET

-----------------------------------------------------------------------------

FragInit == fragText \in FragStarts /\ fragTyped = 0

FragType ==
  /\ fragTyped < FragLength /\ fragTyped' = fragTyped + 1
  /\ \/ fragText' = Append(fragText, <<>>)
     \/ \E ch \in FragTyped : fragText' = [fragText EXCEPT ![Len(fragText)] = Append(@, ch)]

FragSpec == FragInit /\ [][FragType]_FragVars
-----------------------------------------------------------------------------
(* Types.  A refusal names a line of the text (staticRouting.ts:77, "Line n"). *)
FragTypeOK == fragTyped \in 0 .. FragLength /\ FragError(fragText) \in 0 .. Len(fragText)

(* What indentation trims is white space for the lexer too: no such symbol as
   "wide" ends the text or begins a line that is indented. *)
FragTrimsBlanks(text) ==
  LET lines == FragLineEnds(text)
  IN \A k \in DOMAIN lines : \A i \in DOMAIN lines[k] : lines[k][i] = "wide" =>
       /\ \E m \in DOMAIN lines : \E j \in FragFull(lines[m]) : m > k \/ (m = k /\ j > i)
       /\ FragContinues(text, k) \/ FragBlank(lines[k]) \/ \E j \in FragFull(lines[k]) : j < i

(* Whatever text is stored, the directives that are placed into the service's
   block close every block they open and no other: their braces, quoted or not,
   balance at every point (staticRouting.ts:10-13, "must not be able to close
   that block"; 315-327).  Not so in general for a text whose tokens trimming
   changes: the lexer splits at fewer symbols than trimStart and the pattern
   "\s" take for white space (staticRouting.ts:119, 273-278). *)
StaysInBlock ==
  (FragAccepted(fragText) => FragTrimsBlanks(fragText)) =>
    \A root \in BOOLEAN :
      LET tokens == FragLex(FragRendered(FragServing(fragText), root)).tokens
          count(k, ch) == Cardinality({j \in 1 .. k : tokens[j].text = <<ch>>})
      IN /\ \A k \in DOMAIN tokens : count(k, "}") <= count(k, "{")
         /\ count(Len(tokens), "}") = count(Len(tokens), "{")

(* The same tokens; the text of those in quotes that span lines may differ. *)
FragSameTokens(p, q, may) ==
  /\ DOMAIN q = DOMAIN p
  /\ \A k \in DOMAIN p :
       /\ q[k].quoted = p[k].quoted /\ q[k].line = p[k].line
       /\ q[k].text = p[k].text \/ (may /\ p[k].quoted /\ p[k].line # p[k].endLine)

(* Placing an accepted text keeps every token where it is, with the exception
   that StaysInBlock has.  Line ends of two symbols become one, which changes
   those in quotes that span lines; then none changes under a route with a
   prefix, and under a root route again only those (staticRouting.ts:268-280;
   caddy.ts:341-352). *)
IndentKeepsTokens ==
  FragAccepted(fragText) /\ FragTrimsBlanks(fragText) =>
    LET own == FragLex(FragLineEnds(fragText)).tokens
    IN /\ FragSameTokens(FragLex(fragText).tokens, own, TRUE)
       /\ \A root \in BOOLEAN :
            FragSameTokens(own, FragLex(FragRendered(FragIndented(fragText), root)).tokens, root)

(* The line Caddy complains of is reported as the line of the text it came
   from (caddy.ts:1007-1024). *)
ReportsOwnLine ==
  LET file == FragSynthetic(fragText)
      own == FragIndented(fragText)
  IN \A k \in DOMAIN own : k + FragOffset \in DOMAIN file /\ file[k + FragOffset] = FragRendered(own, TRUE)[k]

(* Together: an accepted text means the same where it is placed. *)
FragmentIsSound == FragTypeOK /\ StaysInBlock /\ IndentKeepsTokens /\ ReportsOwnLine

=============================================================================
