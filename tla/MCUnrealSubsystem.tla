-------------------------- MODULE MCUnrealSubsystem --------------------------
(***************************************************************************)
(* Small instances of UnrealSubsystem, and the request policy over bounded *)
(* inputs: header values of up to three characters, and every wire.        *)
(***************************************************************************)
EXTENDS UnrealSubsystem

Chars     == {" ", "0", "4", "9", "x"}
MCHeaders == UNION {[1 .. n -> Chars] : n \in 0 .. 3}

Afters    == {NoValue, <<"4">>, <<"4", "9">>, <<"x">>}
MCAnswers == {Answer(s, h) : s \in {200, 422, 429, 503}, h \in Afters}

MCHosts == UNION {[1 .. n -> {"h", "."}] : n \in 1 .. 2}
MCPorts == UNION {[1 .. n -> {"0", "4", "9"}] : n \in 1 .. 2}

\* What digits denote, each at its place: Number says the same.
Positional(s) ==
  FoldSet(LAMBDA i, sum : sum + DigitOf(s[i]) * 10 ^ (Len(s) - i), 0, DOMAIN s)

ASSUME NumberIsPositional == \A p \in MCPorts : Number(p) = Positional(p)
=============================================================================
