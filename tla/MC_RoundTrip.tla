---------------------------- MODULE MC_RoundTrip ----------------------------
(***************************************************************************)
(* Small instances of RoundTrip.                                           *)
(***************************************************************************)
EXTENDS RoundTrip, TLC

CONSTANTS alice, bob, ivan, hello

MCWord == {alice, bob, ivan, hello}
MCSure == {alice, bob}
MCGuess == {ivan}
MCKind == {"EMAIL", "PERSON", "PASSWORD"}
MCKindOf == (alice :> "EMAIL") @@ (bob :> "EMAIL") @@ (ivan :> "PERSON")
MCPassword == "PASSWORD"

Text(s) == [where |-> "string", text |-> s]
SecretMember(w) == [where |-> "secret", text |-> <<w>>]
Scalar(w) == [where |-> "number", text |-> <<w>>]
Tok(kind, n) == [kind |-> kind, n |-> n]

\* Values of the same kind, so that two requests use one token for two values.
PairBodies == { <<Text(<<alice>>)>>, <<Text(<<bob, ivan>>)>> }

\* A value that comes back in another leaf, and once as a secret; a number that
\* looks like a value; tokens the client wrote itself; no body.
MixedBodies ==
  { << >>,
    <<Text(<<Tok("EMAIL", 1), alice, Tok("EMAIL", 2)>>)>>,
    <<Scalar(bob), Text(<<bob, hello, ivan>>), SecretMember(hello), Text(<<ivan, bob>>)>>,
    <<SecretMember(alice), Text(<<hello, alice, bob>>)>> }

\* Upstream talks, and makes up a token nobody may have sent.
MCOther == {hello, Tok("EMAIL", 2)}
=============================================================================
