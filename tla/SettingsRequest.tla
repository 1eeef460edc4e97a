--------------------------- MODULE SettingsRequest ---------------------------
(***************************************************************************)
(* How the settings handler reads a request (web_server.c): the body comes *)
(* in pieces from the server's socket, which may fail between them, and is *)
(* then read by a small parser for one JSON object with one string.  What  *)
(* the name in it becomes is in Hostname and AppConfig.                    *)
(*                                                                         *)
(* A body is a sequence of characters, where "hostname" is one and all     *)
(* others but those that the parser tells apart are "x".                   *)
(***************************************************************************)
EXTENDS Integers, Sequences, FiniteSets, FiniteSetsExt, SequencesExt

CONSTANTS
  KeyRoom,   \* sizeof(key) - 1, at least the key's length
  NameRoom,  \* SETTINGS_HOSTNAME_INPUT_SIZE - 1
  BodyMax,   \* SETTINGS_REQUEST_BODY_MAX
  Edits      \* bound: how far a body is from a good one

ASSUME RoomAssumption == {KeyRoom, NameRoom, BodyMax} \subseteq Nat \ {0} /\ Edits \in Nat

VARIABLES
  body,      \* what the client sends
  edits,     \* how often the body was changed
  received,  \* received, while the handler reads the body
  answer     \* "none", a status, or the name that is validated next

requestVars == <<body, edits, received, answer>>

\* "tab" is white space but no part of a string, as the end of a line is; "escape"
\* is a backslash or another control character; "NUL" ends a C string.
BodyCharacters ==
  {"{", "}", ":", "quote", "hostname", "x", "space", "tab", "escape", "NUL"}
White == {"space", "tab"}
Refused == {"tab", "escape"}
Ends == {"quote"} \cup Refused

RequestInit ==
  /\ body = <<"{", "quote", "hostname", "quote", ":", "quote", "x", "quote", "}">>
  /\ edits = 0 /\ received = 0 /\ answer = [status |-> "none", name |-> <<>>]

\* Before the request: the client writes something else.
Edit ==
  /\ received = 0 /\ answer.status = "none" /\ edits < Edits
  /\ edits' = edits + 1
  /\ \/ \E i \in DOMAIN body : body' = RemoveAt(body, i)
     \/ \E i \in 1 .. Len(body) + 1, c \in BodyCharacters : body' = InsertAt(body, i, c)
  /\ UNCHANGED <<received, answer>>

-----------------------------------------------------------------------------
(***************************************************************************)
(* The parser.  A cursor is a place in the text, or 0 once it has failed.  *)
(***************************************************************************)
SkipSpace(t, i) ==
  Min({j \in i .. Len(t) + 1 : j = Len(t) + 1 \/ t[j] \notin White})

\* Behind the next character that is not white space, if it is c.
Expect(t, i, c) ==
  LET j == SkipSpace(t, i)
  IN  IF i > 0 /\ j <= Len(t) /\ t[j] = c THEN j + 1 ELSE 0

After(end) == IF end = 0 THEN 0 ELSE end + 1

\* Mutant: a quote is looked for, whatever stands before it.
StringEndEscaped(t, i, room) ==
  LET end == Min({j \in i .. Len(t) + 1 : j = Len(t) + 1 \/ t[j] = "quote"})
  IN  IF i > 0 /\ end <= Len(t) /\ end - i <= room THEN end ELSE 0

\* parse_bounded_json_string, behind the opening quote: the closing one.
StringEnd(t, i, room) ==
  LET end == Min({j \in i .. Len(t) + 1 : j = Len(t) + 1 \/ t[j] \in Ends})
  IN  IF i > 0 /\ end <= Len(t) /\ t[end] = "quote" /\ end - i <= room THEN end ELSE 0

\* parse_hostname_request: the set of the name, empty if the body is refused.
HostnameRequest(t) ==
  LET key     == Expect(t, Expect(t, 1, "{"), "quote")
      keyEnd  == StringEnd(t, key, KeyRoom)
      name    == Expect(t, Expect(t, After(keyEnd), ":"), "quote")
      nameEnd == StringEnd(t, name, NameRoom)
      object  == Expect(t, After(nameEnd), "}")
  IN  IF /\ object > 0 /\ SkipSpace(t, object) = Len(t) + 1
         /\ SubSeq(t, key, keyEnd - 1) = <<"hostname">>
      THEN {SubSeq(t, name, nameEnd - 1)} ELSE {}

-----------------------------------------------------------------------------
(***************************************************************************)
(* settings_hostname_handler, up to the validation.                        *)
(***************************************************************************)
Answered(status, name) == answer' = [status |-> status, name |-> name]

\* The length is checked before anything is read.
CheckLength ==
  /\ received = 0 /\ answer.status = "none"
  /\ IF Len(body) = 0 THEN Answered("required", <<>>)
     ELSE IF Len(body) > BodyMax THEN Answered("too large", <<>>)
     ELSE Answered("reading", <<>>)
  /\ UNCHANGED <<body, edits, received>>

\* httpd_req_recv gives what is there, at most what is missing, or fails.
ReceivePiece ==
  /\ answer.status = "reading" /\ received < Len(body)
  /\ \/ received' \in received + 1 .. Len(body) /\ UNCHANGED answer
     \/ Answered("unreadable", <<>>) /\ UNCHANGED received
  /\ UNCHANGED <<body, edits>>

\* What arrived is a C string: it ends at its first NUL.
CString(t) == SubSeq(t, 1, Min({i \in DOMAIN t : t[i] = "NUL"} \cup {Len(t) + 1}) - 1)

ParseBody ==
  /\ answer.status = "reading" /\ received = Len(body)
  /\ LET names == HostnameRequest(CString(SubSeq(body, 1, received)))
     IN  IF names = {} THEN Answered("malformed", <<>>)
         ELSE \E name \in names : Answered("validate", name)
  /\ UNCHANGED <<body, edits, received>>

RequestNext == Edit \/ CheckLength \/ ReceivePiece \/ ParseBody

RequestSpec == RequestInit /\ [][RequestNext]_requestVars

-----------------------------------------------------------------------------
(***************************************************************************)
(* Properties.                                                             *)
(***************************************************************************)

Quotes(t) == {i \in DOMAIN t : t[i] = "quote"}

\* From i to j there is c and white space.
Alone(t, i, j, c) == \E k \in i .. j : t[k] = c /\ \A m \in i .. j : m = k \/ t[m] \in White

\* t is the text of {"hostname":"name"}, white space between its parts; the quotes
\* around the name are at r and s.
Says(t, p, q, r, s) ==
  /\ p < q /\ q < r /\ r < s /\ Quotes(t) = {p, q, r, s}
  /\ Alone(t, 1, p - 1, "{")
  /\ SubSeq(t, p + 1, q - 1) = <<"hostname">>
  /\ Alone(t, q + 1, r - 1, ":")
  /\ Alone(t, s + 1, Len(t), "}")
NameOf(t, r, s) == SubSeq(t, r + 1, s - 1)

Taken(name) == Len(name) <= NameRoom /\ Range(name) \cap Refused = {}

\* The name that goes on to the validation is the one the client wrote, all of it,
\* however the body was cut into pieces; nothing but an object with that one string
\* is taken for a request, up to a NUL character, behind which nothing is looked at;
\* and every such object is, unless the name has an escape or a control character or
\* does not fit.
RequestRead ==
  LET text == CString(body)
  IN  /\ answer.status = "validate" =>
           \E p, q, r, s \in Quotes(text) :
             Says(text, p, q, r, s) /\ answer.name = NameOf(text, r, s) /\ Taken(answer.name)
      /\ answer.status = "malformed" =>
           \A p, q, r, s \in Quotes(text) :
             Says(text, p, q, r, s) => ~Taken(NameOf(text, r, s))
=============================================================================
