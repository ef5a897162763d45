--------------------------- MODULE WrittenActions ---------------------------
(***************************************************************************)
(* actionsAsWritten (src/internal/controller/release_parameters.go): the   *)
(* JSON text of the parameters of a Release, with the template actions in  *)
(* its strings as their author wrote them.  The scanner reads the units of *)
(* the strings, any sequence of them, and the lexer of text/template reads *)
(* what the scanner writes, character by character: the two must find the  *)
(* same actions.                                                           *)
(*                                                                         *)
(* A unit is a character and how it is stored: as itself, or as an escape, *)
(* which begins with a backslash.  "a" stands for any printable character  *)
(* that means nothing to either, "control" for one that is not printable,  *)
(* "invalid" for the escape of a lone surrogate.                           *)
(***************************************************************************)
EXTENDS Naturals, Sequences

CONSTANT None   \* the end of a string, in place of a unit

VARIABLES
  window,    \* the next two units
  part,      \* the part the scanner is in
  written,   \* what it has written in this step
  lexed      \* the part the lexer is in

vars == <<window, part, written, lexed>>

Plain == {"{", "}", "apostrophe", "backquote", "-", "/", "*", " ", "a"}

\* A JSON string stores the quote, the backslash and the characters that are not printable as
\* escapes, and can store any other as one.
Units == [char : Plain, escaped : BOOLEAN]
           \cup [char : {"quote", "backslash", "newline", "control", "invalid"}, escaped : {TRUE}]

Windows == ((Units \cup {None}) \X {None}) \cup (Units \X Units)

\* The bytes that store a unit; what follows the backslash of an escape is never a brace.
Raw(u) == IF u.escaped
          THEN <<"backslash", IF u.char \in {"quote", "backslash", "/"} THEN u.char ELSE "a">>
          ELSE <<u.char>>

Char(i) == IF window[i] = None THEN "" ELSE window[i].char

Init == window \in Windows /\ part = "text" /\ written = <<>> /\ lexed = "text"

----------------------------------------------------------------------------
(* The lexer of text/template, on one character                            *)

Blank(c) == c \in {" ", "newline"}

Opens(c) == CASE c = "quote" -> "quoted" [] c = "apostrophe" -> "char" [] c = "backquote" -> "raw"
              [] c = "}" -> "rbrace" [] Blank(c) -> "space"
              [] c \in {"backslash", "control", "invalid", "{"} -> "error"
              [] OTHER -> "code"

Lex(p, c) ==
  CASE p = "text" -> IF c = "{" THEN "lbrace" ELSE "text"
    [] p = "lbrace" -> IF c = "{" THEN "left" ELSE "text"
    [] p = "left" -> CASE c = "-" -> "dash" [] c = "/" -> "slash" [] OTHER -> Opens(c)
    [] p = "dash" -> IF Blank(c) THEN "trim" ELSE Opens(c)
    [] p = "trim" -> CASE c = "/" -> "slash" [] c = "-" -> "minus" [] OTHER -> Opens(c)
    [] p = "slash" -> IF c = "*" THEN "comment" ELSE "error"
    [] p = "comment" -> IF c = "*" THEN "star" ELSE "comment"
    [] p = "star" -> CASE c = "/" -> "commented" [] c = "*" -> "star" [] OTHER -> "comment"
    [] p = "commented" -> CASE c = "}" -> "rbrace" [] Blank(c) -> "ending" [] OTHER -> "error"
    [] p = "ending" -> IF c = "-" THEN "minus" ELSE "error"
    [] p \in {"code", "space"} -> CASE c = "-" /\ p = "space" -> "minus" [] OTHER -> Opens(c)
    [] p = "minus" -> Opens(c)
    [] p = "rbrace" -> IF c = "}" THEN "text" ELSE "error"
    [] p = "quoted" -> CASE c = "quote" -> "code" [] c = "backslash" -> "escape"
                         [] c = "newline" -> "error" [] OTHER -> p
    [] p = "char" -> CASE c = "apostrophe" -> "code" [] c = "backslash" -> "escape"
                       [] c = "newline" -> "error" [] OTHER -> p
    [] p = "raw" -> IF c = "backquote" THEN "code" ELSE "raw"
    [] OTHER -> p

----------------------------------------------------------------------------
(* The scanner                                                             *)

\* Mutant: a backslash is decoded.
decodableBackslash(u, p) == u.char \notin {"control", "invalid"} /\ (u.char = "newline" => p = "code")

decodable(u, p) ==
  /\ u.char \notin {"backslash", "control", "invalid"}
  /\ u.char = "newline" => p = "code"

codeState(c) == CASE c = "quote" -> "quoted" [] c = "apostrophe" -> "char"
                  [] c = "backquote" -> "raw" [] OTHER -> "code"

Closes(c) == <<c, part>> \in {<<"quote", "quoted">>, <<"apostrophe", "char">>, <<"backquote", "raw">>}

\* The scanner goes to part p, having read n units and written out, which the lexer reads.
Go(p, out, n) ==
  /\ part' = p /\ written' = out
  /\ window' \in {w \in Windows : n = 1 => w[1] = window[2]}
  /\ lexed' = LET L[i \in 0 .. Len(out)] == IF i = 0 THEN lexed ELSE Lex(L[i - 1], out[i]) IN L[Len(out)]

\* The text is returned as it is stored.
Refuse ==
  /\ part' = "refused" /\ written' = <<>> /\ UNCHANGED <<window, lexed>>

\* writtenActions, outside an action.
ReadText ==
  /\ part = "text" /\ window[1] # None
  /\ IF Raw(window[1]) = <<"{">> /\ window[2] # None /\ Raw(window[2]) = <<"{">>
     THEN Go("opened", <<"{", "{">>, 2)
     ELSE Go("text", Raw(window[1]), 1)

\* Right after the delimiter: a trim marker.
ReadTrim ==
  /\ part = "opened"
  /\ IF Char(1) = "-" /\ Blank(Char(2))
     THEN IF decodable(window[2], "code") THEN Go("trimmed", <<Char(1), Char(2)>>, 2) ELSE Refuse
     ELSE part' = "trimmed" /\ written' = <<>> /\ UNCHANGED <<window, lexed>>

\* Mutant: what begins like a comment is one anywhere in the code.
CommentAnywhere == Char(1) = "/" /\ Char(2) = "*" /\ part \in {"trimmed", "code"}

\* A comment is one only right after the delimiter and its trim marker.
CommentOpens == Char(1) = "/" /\ Char(2) = "*" /\ part = "trimmed"

ReadComment ==
  /\ part = "comment" /\ window[1] # None
  /\ IF Char(1) = "*" /\ Char(2) = "/" THEN Go("code", <<"*", "/">>, 2)
     ELSE Go("comment", Raw(window[1]), 1)

\* One character of the code of an action, or of a string in it.
ReadCode ==
  /\ part \in {"trimmed", "code", "quoted", "char", "raw"} /\ window[1] # None
  /\ IF CommentOpens THEN Go("comment", <<"/", "*">>, 2)
     ELSE LET p == IF part = "trimmed" THEN "code" ELSE part IN
          IF ~decodable(window[1], p) THEN Refuse
          ELSE IF p # "code" THEN Go(IF Closes(Char(1)) THEN "code" ELSE p, <<Char(1)>>, 1)
          ELSE IF Char(1) = "}" /\ Char(2) = "}" THEN Go("text", <<"}", "}">>, 2)
          ELSE Go(codeState(Char(1)), <<Char(1)>>, 1)

\* The string ends: in its text, and the next one begins, or in an action.
EndString ==
  /\ window[1] = None
  /\ IF part = "text" THEN Go("text", <<"quote">>, 0)
     ELSE part \notin {"refused", "opened"} /\ Refuse

Next == ReadText \/ ReadTrim \/ ReadComment \/ ReadCode \/ EndString

Spec == Init /\ [][Next]_vars

----------------------------------------------------------------------------
(* Properties                                                              *)

Parts == {"text", "opened", "trimmed", "code", "quoted", "char", "raw", "comment", "refused"}

\* The scanner is in a part of the text, and a step writes at most two characters.
TypeOK == window \in Windows /\ part \in Parts /\ Len(written) <= 2

\* Where the lexer can be when the scanner is in a part.
LexedIn(p) ==
  CASE p = "text" -> {"text", "lbrace"}
    [] p = "opened" -> {"left"}
    [] p = "trimmed" -> {"left", "trim"}
    [] p = "comment" -> {"comment", "star"}
    [] p = "code" -> {"dash", "minus", "slash", "space", "code", "commented", "ending", "rbrace"}
    [] OTHER -> {p}

\* The scanner finds the end of an action where text/template does: on all that it writes,
\* the lexer is in the same part, unless it has found an error of syntax in the action, which
\* the parse reports.
InSync == part # "refused" /\ lexed \notin {"error", "escape"} => lexed \in LexedIn(part)

\* A string of an action never holds a backslash, which would make its value differ from what
\* renders back through the JSON string.
NoEscapeInStrings == part # "refused" => lexed # "escape"
=============================================================================
