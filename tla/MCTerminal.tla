----------------------------- MODULE MCTerminal ------------------------------
(***************************************************************************)
(* A terminal of 2 rows of 3, with the keys of "r 1a" and a greeting.      *)
(***************************************************************************)
EXTENDS Terminal, TLC

CONSTANTS r, space, one, a, dollar, reply

MCLetters == {r, space, one, a}
MCReplies == {dollar, reply, space}
MCPrompt == <<dollar, space>>
MCGreetings == <<a>> :> <<reply, NewLine>>
MCUnknown == <<reply, reply, NewLine>>
MCHexValue == (one :> 1) @@ (a :> 10)
=============================================================================
