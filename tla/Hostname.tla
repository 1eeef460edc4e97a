------------------------------ MODULE Hostname ------------------------------
(***************************************************************************)
(* app_hostname_normalize (hostname_validation.c): which hostnames the     *)
(* settings page accepts, and what it makes of them.  A character matters  *)
(* only by its class; "upper" becomes "lower".                             *)
(***************************************************************************)
EXTENDS Integers, Sequences

CONSTANTS
  MaxLength,  \* APP_HOSTNAME_MAX_LENGTH
  MaxInput    \* bound: longest request

ASSUME LengthAssumption == MaxLength \in Nat \ {0} /\ MaxInput \in Nat

VARIABLE input  \* what is typed into the form

CharacterClasses == {"lower", "upper", "digit", "hyphen", "other"}
LettersAndDigits == {"lower", "upper", "digit"}

HostnameInit == input = <<>>

TypeCharacter ==
  /\ Len(input) < MaxInput
  /\ \E character \in CharacterClasses : input' = Append(input, character)

HostnameSpec == HostnameInit /\ [][TypeCharacter]_input

-----------------------------------------------------------------------------
\* Mutant: only the first character is looked at.
EdgesFirst(s) == s[1] \in LettersAndDigits

Edges(s) == s[1] \in LettersAndDigits /\ s[Len(s)] \in LettersAndDigits

\* strnlen stops at the buffer's end: any longer name is too long.
TooLong(s) == Len(s) > MaxLength

Characters(s) == \A i \in DOMAIN s : s[i] \in LettersAndDigits \cup {"hyphen"}

\* The checks in the order of the code.
Validation(s) ==
  CASE s = <<>> -> "EMPTY"
    [] s # <<>> /\ TooLong(s) -> "TOO_LONG"
    [] s # <<>> /\ ~TooLong(s) /\ ~Edges(s) -> "INVALID_EDGE"
    [] s # <<>> /\ ~TooLong(s) /\ Edges(s) /\ ~Characters(s) -> "INVALID_CHARACTER"
    [] OTHER -> "VALID"

Normalized(s) == [i \in DOMAIN s |-> IF s[i] = "upper" THEN "lower" ELSE s[i]]

-----------------------------------------------------------------------------
\* README.md: "a 1-63 character hostname containing letters, digits, and
\* internal hyphens": nothing else is accepted and nothing of this is refused.
AcceptsDocumented ==
  Validation(input) = "VALID" <=>
    /\ Len(input) \in 1 .. MaxLength
    /\ \A i \in DOMAIN input :
         \/ input[i] \in LettersAndDigits
         \/ input[i] = "hyphen" /\ i \notin {1, Len(input)}

\* A saved name is in lower case and passes the same checks when it is loaded at
\* the next boot: load_hostname never falls back to the default for a name that
\* app_config_save_hostname stored.
SavedNameLoads ==
  Validation(input) = "VALID" =>
    /\ Validation(Normalized(input)) = "VALID"
    /\ Normalized(Normalized(input)) = Normalized(input)
    /\ "upper" \notin {Normalized(input)[i] : i \in DOMAIN input}

\* What the web page accepts is what is documented, and what the next boot loads.
NamesKept == AcceptsDocumented /\ SavedNameLoads

=============================================================================
