----------------------------- MODULE CodecSamples -----------------------------
(***************************************************************************)
(* The codecs and the signature check of the client, as functions, over    *)
(* samples chosen at their boundaries: the limits of a number, the lengths *)
(* at which a block fills up, every point of a small curve.                *)
(***************************************************************************)
EXTENDS Integers, Sequences, SequencesExt, FiniteSetsExt, TLC

CONSTANT None

----------------------------------------------------------------------------
\* Texts: numbers of eight bits, and the few characters whose code counts.
SampleAscii == 34 :> "\"" @@ 65 :> "A" @@ 97 :> "a" @@ 98 :> "b" @@ 112 :> "p" @@ 127 :> "DEL"

Text == INSTANCE Wire WITH IntMax <- 127, Ascii <- SampleAscii, Skew <- 1

Letters == {"a", "\"", "\\", "\n", "t", "{", ","}
Words   == UNION {[1 .. n -> Letters] : n \in 0 .. 2}

Pair(k, v) == [key |-> k, val |-> v]

Objects ==
  {Text!Obj(<<Pair(<<"a">>, v)>>) :
     v \in {Text!Str(w) : w \in Words} \cup {Text!Num(n) : n \in {-127, -1, 0, 9, 10, 127}}
             \cup {Text!Bool(TRUE), Text!Bool(FALSE)}}
  \cup {Text!Obj(<<Pair(<<"a">>, Text!Str(w)), Pair(<<"\"">>, Text!Obj(<<Pair(w, Text!Num(7))>>))>>) :
          w \in {<<>>, <<"\\">>, <<"}">>}}
  \cup {Text!Obj(<<Pair(<<"a">>, Text!Arr(vs))>>) :
          vs \in {<<>>, <<Text!Num(1)>>, <<Text!Str(<<",">>), Text!Str(<<"]">>)>>}}

\* All four lengths of UTF-8, at both ends.
Points == {34, 65, 127, 128, 2047, 2048, 57344, 65535, 65536, 1114111}

HexDigit(n) == CHOOSE c \in DOMAIN Text!HexValue : Text!HexValue[c] = n
Hex(n)      == [i \in 1 .. 4 |-> HexDigit((n \div 16^(4 - i)) % 16)]

ByteStrings == UNION {[1 .. n -> {0, 1, 127, 251, 255}] : n \in 0 .. 3} \cup [1 .. 4 -> {255, 3}]

SampleLease ==
  [kid |-> <<"p">>, licenseKeyHash |-> <<"h">>, instanceId |-> <<"i">>, issuedAt |-> 1,
   expiresAt |-> 5, status |-> Text!Chars("active"), signature |-> <<"S", "|">>,
   entitlements |-> <<<<"\"">>, <<"b">>>>]

\* Caches with every field, with none, and with one missing or alone.
NothingCached == [f \in Range(Text!BlobOrder) |-> None]
AllCached ==
  [f \in Range(Text!BlobOrder) |->
     CASE f = "lease"             -> SampleLease
       [] f \in Text!TextFields   -> <<"a", "\"">>
       [] f \in Text!TimeFields   -> 7
       [] f = "serverTrialDays"   -> 0
       [] f = "serverFreeTier"    -> FALSE]
Caches == {AllCached, NothingCached, [AllCached EXCEPT !.serverTrialDays = 30, !.serverFreeTier = TRUE]}
          \cup {[AllCached EXCEPT ![f] = None] : f \in Range(Text!BlobOrder)}
          \cup {[NothingCached EXCEPT ![f] = AllCached[f]] : f \in Range(Text!BlobOrder)}

\* The blob of a relaunch.
BlobsRead == Text!RelaunchReads(Caches)

\* What is written is read: JSON's strings, numbers and escapes, base64, and the
\* server's reason for a refusal.
TextsRead ==
  /\ Text!WrittenIsRead(Objects)
  /\ Text!NumbersSaturate({0, 7, 12, 99, 126, 127, 128, 129, 130, 1000, 1270, 1280},
                          {<<>>, <<"5">>, <<"0", "9">>}, -2 .. 2)
  /\ Text!EscapesDecode(Points, Hex)
  /\ Text!Base64Returns(ByteStrings)
  /\ Text!ReasonsAreShown({<<"a">>, <<"\"", "}">>})

----------------------------------------------------------------------------
\* Leases of two keys, live and elapsed, their entitlements in every order.
Leases ==
  {[SampleLease EXCEPT !.kid = k, !.expiresAt = e, !.status = s, !.entitlements = es,
                       !.signature = <<>>] :
     k \in {<<"p">>, <<"a">>}, e \in {5, 15}, s \in {Text!Chars("active"), Text!Chars("expired")},
     es \in {<<>>, <<<<"a">>>>, <<<<"a">>, <<"b">>>>, <<<<"b">>, <<"a">>>>,
             <<<<"a", "b">>, <<"a">>, <<"b">>>>, <<<<"b">>, <<"a", "b">>, <<"a">>>>}}

\* Published keys: one twice, one without a kid.
Entry(kid, key) == Text!Obj(<<Pair(Text!Chars("kid"), Text!Str(kid)),
                              Pair(Text!Chars("public_key"), Text!Str(key))>>)
Published ==
  Text!Obj(<<Pair(Text!Chars("keys"),
                  Text!Arr(<<Entry(<<"p">>, <<"old">>), Entry(<<>>, <<"x">>),
                             Entry(<<"a">>, <<"K">>), Entry(<<"p">>, <<"P">>)>>))>>)

\* A client that demands signed settings or not, and bodies signed for it or not.
Configs == [require : BOOLEAN, tenant : {<<"t">>}, product : {<<"a">>},
            keys : {<<"p">> :> <<"P">>}]
Bodies  == [kid : {<<"p">>}, key : {<<"P">>, <<"X">>}, tenant : {<<"t">>},
            product : {<<"a">>, <<"b">>}, issued : {10}, expires : {20},
            days : {0, 14}, signedDays : {14}, free : BOOLEAN]

LeasesVerify == /\ Text!LeasesVerify(Leases, Published)
                /\ Text!ConfigsVerify(Configs, Bodies, {8, 9, 10, 20, 21, 22})

----------------------------------------------------------------------------
\* A curve of forty points over the field of 29 elements, its base point of order
\* five; blocks of eight bytes.
Stir(h, block) == FoldLeft(LAMBDA acc, b : (acc * 31 + b + 7) % 9973, h, block)

Curve == INSTANCE Ed25519 WITH
  Block <- 8, Room <- 6, Byte <- 256, Chaining0 <- 17, Compress <- Stir,
  P <- 29, D <- 27, RootOfMinusOne <- 12, BaseX <- 2, BaseY <- 23, L <- 5,
  YBits <- 5, ScalarBits <- 4, SBits <- 3

\* The field of 2^14 - 3 in three limbs; an order of five digits.
Field == INSTANCE Limbs WITH
  N <- 3, Radix <- 32, C <- 3, InvSkip <- {2}, PowSkip <- {},
  Digits <- 5, Base <- 16, Shift <- 2, Delta <- <<11, 5>>, Spare <- 1

FieldSamples == {0, 1, 2, 3, 31, 32, 33, 1023, 1024, 1025, 12345} \cup 16379 .. 16383

HashSamples == {[i \in 1 .. 10 |-> IF i \in S THEN a ELSE b] :
                  S \in SUBSET (1 .. 10), a \in {15, 8}, b \in {0, 1, 7, 15}}

Message(n) == [i \in 1 .. n |-> (i * i + 3) % 256]

SignaturesVerify ==
  /\ Curve!HashesAgree({Message(n) : n \in 0 .. 20})
  /\ Curve!PointsAdd({1, 2, 28})
  /\ Curve!SignaturesVerify({Message(n) : n \in {0, 1, 2, 6, 7}})
  /\ Field!FieldIsModular(FieldSamples)
  /\ Field!OrderReduces(HashSamples)

----------------------------------------------------------------------------
\* A gibibyte of two units; versions of four characters, names of three bytes.
Machine == INSTANCE Device WITH
  Gib <- 2, VersionMax <- 4, NameMax <- 3, Control <- {"\t", "DEL"},
  Continuation <- {"~"}, Whitespace <- {" ", "\t"}, Upper <- "a" :> "A"

UpTo(n, S) == UNION {[1 .. k -> S] : k \in 0 .. n}

Readings == [live : {None, <<>>, <<"h">>, <<"g">>}, saved : BOOLEAN, relaunch : BOOLEAN]

Setups  == [tenant : {"t"}, product : {"p"}, sdkVersion : {"1"}, trialDays : {0, 14},
            appVersion : {<<>>, <<"2">>}]
Devices == [platform : {"linux"}, cores : {0, 8}, memory : {0, 40}, arch : {<<>>, <<"arm64">>},
            release : {<<>>, <<"6", ".", "8", "-">>}, host : {None, <<" ">>, <<"m">>}]
Kept    == [freeTierInstanceId : {None, <<"f">>}, licenseKey : {<<"K">>}, instanceId : {<<"i">>}]

Draws == {[i \in 1 .. 16 |-> IF i = k THEN v ELSE 0] : k \in {1, 7, 9, 16}, v \in {0, 15, 16, 64, 255}}

\* What the server learns of a device is the same device every time.
DevicesAreKnown ==
  /\ Machine!IdsAreStable(UpTo(2, Readings)
       \cup [1 .. 4 -> [live : {None, <<"h">>, <<"g">>}, saved : {TRUE}, relaunch : BOOLEAN]])
  /\ Machine!ConversionIsOneDevice(Setups, Devices, Kept, {None, <<"h">>})
  /\ Machine!NamesAreText(UpTo(5, {"a", "~", " ", "\t"}))
  /\ Machine!VersionsAreDotted(UpTo(6, {"1", ".", "-"}))
  /\ Machine!KeysAreOne(UpTo(4, {"a", "A", "-", " "}), {<<>>, <<"a">>, <<"A", "-", "a">>})
  /\ Machine!ProductsAreApart(UpTo(2, {"h", "/"}), UpTo(2, {"a", "-"}))
  /\ Machine!BucketsTile(0 .. 40, Machine!CoresBucket)
  /\ Machine!BucketsTile(0 .. 140, Machine!MemoryBucket)
  /\ Machine!UuidsDiffer(Draws)
  /\ Machine!FirstFileCounts(UpTo(3, {"a", " "}) \cup {None})

----------------------------------------------------------------------------
Customer == INSTANCE Lifecycle

\* What a customer is told of a licence adds up to what the licence is.
CustomersAreTold ==
  /\ Customer!ExpiryIsTold([1 .. 3 -> Customer!Resolutions({None, 1, 2})])
  /\ Customer!RenewalsAreCounted([1 .. 4 -> [state : {"Licensed"}, expiry : {None, 1, 2, 3}]])
  /\ Customer!EventsAreSorted
  /\ Customer!PaidIsNotBeaconed
=============================================================================
