------------------------------- MODULE MCStore -------------------------------
\* Two threads, of one Client or of two; the other keys are another machine's
\* and the FileStore's.
EXTENDS Store, TLC

Symmetry == Permutations(Blobs) \cup Permutations(Clients)

\* Some stream of each key, nonce and counter.
Mixed(k, nonce, counter) ==
  [i \in 1 .. 12 |-> (((k * 7 + nonce[1] * 11 + counter * 13 + 5) * (i * i * i + 17)
                        + k * i * i) \div 5) % 8]

\* The seal over blocks of six bytes of three bits.
Cipher == INSTANCE Aead WITH
  Radix <- 16, Word <- 1024, Clamp <- <<15, 13, 15, 11, 3>>,
  Byte <- 8, MacBlock <- 6, StreamBlock <- 12, NonceLen <- 1, Stream <- Mixed

MacKeys == {[i \in 1 .. 12 |-> 7]} \cup {[i \in 1 .. 12 |-> (i * k) % 8] : k \in {1, 3}}
Text(n) == [i \in 1 .. n |-> (i * i + 3) % 8]
Full(n) == [i \in 1 .. n |-> 7]

\* Texts whose sum lies between the prime and its next power of two.
Edges == {<<3, 2, 4, 7, 0, 1>>, <<2, 4, 1, 3, 6, 1>>, <<4, 2, 2, 4, 3, 4, 4, 2, 3, 4, 6, 1>>}

\* They are functions: they are evaluated once, on a first step of one behaviour.
AtFirst == /\ Init /\ path = Absent /\ legacy = Absent /\ Alone
           /\ key = [c \in Clients |-> Plain]
           /\ faults = CHOOSE f \in FaultSets : "close" \in f
           /\ LoadCall(CHOOSE t \in Threads : TRUE)

\* A sealed blob opens to its text with its key; cut short, changed in any byte, or
\* with another machine's key it opens to nothing; its tag is the polynomial's value
\* wherever the text is cut into pieces.
SealsOpen ==
  [][AtFirst =>
       /\ Cipher!TagsAgree(MacKeys, Edges \cup UNION {{Text(n), Full(n)} : n \in 0 .. 20})
       /\ Cipher!SealsOpen({1, 2, 3}, {<<0>>, <<1>>, <<5>>},
                           {Text(n) : n \in {0, 1, 5, 6, 7, 12, 13, 25}})]_vars
=============================================================================
