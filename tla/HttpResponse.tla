---------------------------- MODULE HttpResponse ----------------------------
(***************************************************************************)
(* What inet_http_response_parse makes of a piece of a response.           *)
(*                                                                         *)
(* A text is a sequence of tokens: "st" the status line, "len", "loc",     *)
(* "chunk" and "oth" a header line (Content-Length, Location,              *)
(* Transfer-Encoding, any other), each with its CRLF, "end" an empty line, *)
(* "b" a unit of the body.  A header line is never cut: a cut one is a     *)
(* line that has not come yet, for the parser as for the model.            *)
(***************************************************************************)
EXTENDS Naturals, Sequences

CONSTANT Length  \* what Content-Length says, in units of the body

ASSUME LengthAssumption == Length \in Nat

Lines  == {"st", "len", "loc", "chunk", "oth"}
Tokens == Lines \cup {"end", "b"}

\* Where CRLF CRLF is: an empty line behind a line.
Breaks(text) == {i \in 2 .. Len(text) : text[i] = "end" /\ text[i - 1] # "b"}
Break(text)  == CHOOSE i \in Breaks(text) : \A j \in Breaks(text) : i <= j
Body(text)   == SubSeq(text, Break(text) + 1, Len(text))

\* strstr finds the version anywhere in the head.
HasVersion(text) == \E i \in 1 .. Break(text) - 1 : text[i] = "st"

\* The last line of the head has lost its CRLF to the break and is not read;
\* a line without a colon ends the reading.
Fields(text) ==
  {text[i] : i \in {j \in 1 .. Break(text) - 2 : \A k \in 1 .. j : text[k] # "end"}}

\* What the head leaves in page->option; neither bit is ever cleared.
Options(page, text) ==
  [loc     |-> page.loc \/ "loc" \in Fields(text),
   chunked |-> page.chunked \/ "chunk" \in Fields(text)]

\* inet_http::finish: the status code has no part in it.
FinishAnyBody(page, text) ==
  Len(Body(text)) > 0 \/ "len" \notin Fields(text) \/ Length = 0
Finish(page, text) ==
  LET len == IF "len" \in Fields(text) THEN Length ELSE 0
  IN  IF Len(Body(text)) = 0 THEN len = 0
      ELSE page.chunked \/ len <= Len(Body(text))

\* What a text with a head is taken for.
Understood(page, text) ==
  LET now == Options(page, text)
  IN  [ret  |-> IF now.loc THEN "direct" ELSE IF Finish(now, text) THEN "done" ELSE "again",
       page |-> now]

\* inet_http_response_parse: what it returns and what it leaves in the page.
\* option.head stays 0, so every piece is parsed as if it were the first.
ParseNothing(page, text) ==
  IF text = <<>> THEN [ret |-> "done", page |-> page]
  ELSE IF Breaks(text) = {} \/ ~HasVersion(text) THEN [ret |-> "error", page |-> page]
  ELSE Understood(page, text)
Parse(page, text) ==
  IF Breaks(text) = {} \/ ~HasVersion(text) THEN [ret |-> "error", page |-> page]
  ELSE Understood(page, text)
=============================================================================
