-------------------------- MODULE ClientRacesProofs --------------------------
(***************************************************************************)
(* What holds of ClientRaces for any number of threads, calls, ids and     *)
(* words of the server.                                                    *)
(***************************************************************************)
EXTENDS ClientRaces, FiniteSetTheorems, TLAPS

Elems(q) == {q[i] : i \in 1 .. Len(q)}

\* What is done next goes before what is left.
LEMMA Pushed ==
  ASSUME NEW q \in Seq(Labels), q # <<>>, NEW s \in Seq(Labels)
  PROVE  /\ s \o Tail(q) \in Seq(Labels)
         /\ Elems(s \o Tail(q)) = Elems(s) \cup Elems(Tail(q))
         /\ Elems(Tail(q)) \subseteq Elems(q)
         /\ Head(q) \in Elems(q)
<1>1. Tail(q) \in Seq(Labels) /\ Len(Tail(q)) = Len(q) - 1 /\ Len(q) \in Nat \ {0}
  OBVIOUS
<1>2. \A i \in 1 .. Len(Tail(q)) : Tail(q)[i] = q[i + 1]
  OBVIOUS
<1>3. Len(s \o Tail(q)) = Len(s) + Len(Tail(q)) /\ s \o Tail(q) \in Seq(Labels)
  BY <1>1
<1>4. \A i \in 1 .. Len(s) : (s \o Tail(q))[i] = s[i]
  BY <1>1
<1>5. \A i \in 1 .. Len(Tail(q)) : (s \o Tail(q))[Len(s) + i] = Tail(q)[i]
  BY <1>1
<1>6. Elems(s \o Tail(q)) \subseteq Elems(s) \cup Elems(Tail(q))
  <2> SUFFICES ASSUME NEW i \in 1 .. Len(s \o Tail(q))
               PROVE  (s \o Tail(q))[i] \in Elems(s) \cup Elems(Tail(q))
    BY DEF Elems
  <2>1. CASE i <= Len(s)
    BY <2>1, <1>4 DEF Elems
  <2>2. CASE i > Len(s)
    <3>1. i - Len(s) \in 1 .. Len(Tail(q)) /\ i = Len(s) + (i - Len(s))
      BY <2>2, <1>3, <1>1
    <3> QED BY <3>1, <1>5 DEF Elems
  <2> QED BY <2>1, <2>2
<1>7. Elems(s) \subseteq Elems(s \o Tail(q))
  <2> SUFFICES ASSUME NEW i \in 1 .. Len(s) PROVE s[i] \in Elems(s \o Tail(q))
    BY DEF Elems
  <2>1. i \in 1 .. Len(s \o Tail(q))
    BY <1>3, <1>1
  <2> QED BY <2>1, <1>4 DEF Elems
<1>8. Elems(Tail(q)) \subseteq Elems(s \o Tail(q))
  <2> SUFFICES ASSUME NEW i \in 1 .. Len(Tail(q)) PROVE Tail(q)[i] \in Elems(s \o Tail(q))
    BY DEF Elems
  <2>1. Len(s) + i \in 1 .. Len(s \o Tail(q))
    BY <1>3, <1>1
  <2> QED BY <2>1, <1>5 DEF Elems
<1>9. Elems(Tail(q)) \subseteq Elems(q)
  <2> SUFFICES ASSUME NEW i \in 1 .. Len(Tail(q)) PROVE Tail(q)[i] \in Elems(q)
    BY DEF Elems
  <2>1. i + 1 \in 1 .. Len(q)
    BY <1>1
  <2> QED BY <2>1, <1>2 DEF Elems
<1>10. Head(q) \in Elems(q)
  BY <1>1 DEF Elems
<1> QED BY <1>3, <1>6, <1>7, <1>8, <1>9, <1>10

\* The labels of short lists.
LEMMA Listed ==
  /\ Elems(<<>>) = {}
  /\ \A a : Elems(<<a>>) = {a}
  /\ \A a, b : Elems(<<a, b>>) = {a, b}
  /\ \A a, b, c : Elems(<<a, b, c>>) = {a, b, c}
  /\ \A a, b, c, d : Elems(<<a, b, c, d>>) = {a, b, c, d}
  /\ \A a, b, c, d, e : Elems(<<a, b, c, d, e>>) = {a, b, c, d, e}
  /\ \A a, b, c, d, e, f, g, h :
       Elems(<<a, b, c, d, e, f, g, h>>) = {a, b, c, d, e, f, g, h}
<1>1. /\ 1 .. 0 = {} /\ 1 .. 1 = {1} /\ 1 .. 2 = {1, 2} /\ 1 .. 3 = {1, 2, 3}
      /\ 1 .. 4 = {1, 2, 3, 4} /\ 1 .. 5 = {1, 2, 3, 4, 5}
      /\ 1 .. 8 = {1, 2, 3, 4, 5, 6, 7, 8}
  OBVIOUS
<1> QED BY <1>1 DEF Elems

----------------------------------------------------------------------------
Writes  == {"write", "writeOrFail", "writeId"}
Changes == {"merge", "anchor", "unlease", "arm"}
Early   == {"haskey", "window", "debounce"}
Minting == {"writeId", "unmint", "reread"}
Firsts  == {"merge", "clear"}

\* How the steps of a call stand to each other: a snapshot is followed by its write,
\* a change of the cache by a snapshot; what may break off comes before all that;
\* one id at most is being minted, now or next; and an answer is merged, or the file
\* dropped, at once.
Shape(q) ==
  \A i \in 1 .. Len(q) :
    /\ q[i] = "snap" => i < Len(q) /\ q[i + 1] \in Writes
    /\ i > 1 /\ q[i] \in Writes => q[i - 1] = "snap"
    /\ q[i] \in Changes => \E j \in 1 .. Len(q) : j > i /\ q[j] = "snap"
    /\ q[i] \in Early => \A j \in 1 .. Len(q) : q[j] # "snap" /\ (j < i => q[j] \in Early)
    /\ q[i] \in Minting => i = 1 \/ (i = 2 /\ q[1] = "snap")
    /\ q[i] \in Firsts => i = 1
    /\ q[i] = "put" => i = 1 \/ q[i - 1] = "see"

\* What may be put before the rest.
Plan(s) == s \in Seq(Labels) /\ Shape(s) /\ Elems(s) \cap Early = {}
           /\ (s # <<>> => Head(s) \notin Writes)

\* What is left when the next step is done.
LEMMA TailShape ==
  ASSUME NEW q \in Seq(Labels), q # <<>>, Shape(q)
  PROVE  Tail(q) \in Seq(Labels) /\ Shape(Tail(q))
<1>1. Tail(q) \in Seq(Labels) /\ Len(Tail(q)) = Len(q) - 1 /\ Len(q) \in Nat \ {0}
  OBVIOUS
<1>2. \A i \in 1 .. Len(Tail(q)) : Tail(q)[i] = q[i + 1]
  OBVIOUS
<1> SUFFICES ASSUME NEW i \in 1 .. Len(Tail(q))
    PROVE /\ Tail(q)[i] = "snap" => i < Len(Tail(q)) /\ Tail(q)[i + 1] \in Writes
          /\ i > 1 /\ Tail(q)[i] \in Writes => Tail(q)[i - 1] = "snap"
          /\ Tail(q)[i] \in Changes => \E j \in 1 .. Len(Tail(q)) : j > i /\ Tail(q)[j] = "snap"
          /\ Tail(q)[i] \in Early =>
               \A j \in 1 .. Len(Tail(q)) : Tail(q)[j] # "snap" /\ (j < i => Tail(q)[j] \in Early)
          /\ Tail(q)[i] \in Minting => i = 1 \/ (i = 2 /\ Tail(q)[1] = "snap")
          /\ Tail(q)[i] \in Firsts => i = 1
          /\ Tail(q)[i] = "put" => i = 1 \/ Tail(q)[i - 1] = "see"
  BY <1>1 DEF Shape
<1>3. i + 1 \in 1 .. Len(q)
  BY <1>1
<1>4. Tail(q)[i] = "snap" => i < Len(Tail(q)) /\ Tail(q)[i + 1] \in Writes
  BY <1>1, <1>2, <1>3 DEF Shape
<1>5. i > 1 /\ Tail(q)[i] \in Writes => Tail(q)[i - 1] = "snap"
  BY <1>1, <1>2, <1>3 DEF Shape
<1>6. ASSUME Tail(q)[i] \in Changes PROVE \E j \in 1 .. Len(Tail(q)) : j > i /\ Tail(q)[j] = "snap"
  <2>1. PICK j \in 1 .. Len(q) : j > i + 1 /\ q[j] = "snap"
    BY <1>2, <1>3, <1>6 DEF Shape
  <2>2. j - 1 \in 1 .. Len(Tail(q)) /\ j - 1 > i /\ Tail(q)[j - 1] = "snap"
    BY <1>1, <1>2, <2>1
  <2> QED BY <2>2
<1>7. ASSUME Tail(q)[i] \in Early, NEW j \in 1 .. Len(Tail(q))
      PROVE  Tail(q)[j] # "snap" /\ (j < i => Tail(q)[j] \in Early)
  <2>1. j + 1 \in 1 .. Len(q) /\ Tail(q)[j] = q[j + 1] /\ Tail(q)[i] = q[i + 1]
    BY <1>1, <1>2
  <2> QED BY <1>3, <1>7, <2>1 DEF Shape
<1>8. Tail(q)[i] \in Minting => i = 1 \/ (i = 2 /\ Tail(q)[1] = "snap")
  BY <1>1, <1>2, <1>3 DEF Shape
<1>9. Tail(q)[i] \in Firsts => i = 1
  BY <1>1, <1>2, <1>3 DEF Shape
<1>10. Tail(q)[i] = "put" => i = 1 \/ Tail(q)[i - 1] = "see"
  BY <1>1, <1>2, <1>3 DEF Shape
<1> QED BY <1>1, <1>4, <1>5, <1>6, <1>7, <1>8, <1>9, <1>10

\* A plan before the rest, unless a snapshot is what was just taken.
LEMMA PlanShape ==
  ASSUME NEW q \in Seq(Labels), q # <<>>, Shape(q), NEW s, Plan(s),
         Head(q) \notin {"snap", "see"} \cup Early
  PROVE  s \o Tail(q) \in Seq(Labels) /\ Shape(s \o Tail(q))
<1> DEFINE r == Tail(q)
           p == s \o r
<1>1. /\ r \in Seq(Labels) /\ Len(r) = Len(q) - 1 /\ Len(q) \in Nat \ {0}
      /\ s \in Seq(Labels) /\ Len(s) \in Nat
      /\ \A i \in 1 .. Len(r) : r[i] = q[i + 1]
  BY DEF Plan
<1>2. /\ p \in Seq(Labels) /\ Len(p) = Len(s) + Len(r)
      /\ \A i \in 1 .. Len(s) : p[i] = s[i]
      /\ \A i \in 1 .. Len(r) : p[Len(s) + i] = r[i]
  BY <1>1
<1>3. Shape(r) /\ Shape(s)
  BY TailShape DEF Plan
<1>4. \A i \in 1 .. Len(r) : r[i] \notin Early \cup Minting
  <2> SUFFICES ASSUME NEW i \in 1 .. Len(r) PROVE r[i] \notin Early \cup Minting
    OBVIOUS
  <2>1. i + 1 \in 1 .. Len(q) /\ r[i] = q[i + 1] /\ 1 \in 1 .. Len(q) /\ q[1] = Head(q)
    BY <1>1
  <2>2. r[i] \notin Early
    BY <2>1 DEF Shape
  <2>3. r[i] \notin Minting
    BY <2>1 DEF Shape
  <2> QED BY <2>2, <2>3
<1>5. Len(r) > 0 => r[1] \notin Writes \cup {"put"}
  <2>1. Len(r) > 0 => 2 \in 1 .. Len(q) /\ r[1] = q[2] /\ q[1] = Head(q)
    BY <1>1
  <2> QED BY <2>1 DEF Shape
<1>6. \A i \in 1 .. Len(s) : s[i] \notin Early
  BY DEF Plan, Elems
<1>7. Shape(p)
  <2> HIDE DEF r, p
  <2> SUFFICES ASSUME NEW i \in 1 .. Len(p)
      PROVE /\ p[i] = "snap" => i < Len(p) /\ p[i + 1] \in Writes
            /\ i > 1 /\ p[i] \in Writes => p[i - 1] = "snap"
            /\ p[i] \in Changes => \E j \in 1 .. Len(p) : j > i /\ p[j] = "snap"
            /\ p[i] \in Early => \A j \in 1 .. Len(p) : p[j] # "snap" /\ (j < i => p[j] \in Early)
            /\ p[i] \in Minting => i = 1 \/ (i = 2 /\ p[1] = "snap")
            /\ p[i] \in Firsts => i = 1
            /\ p[i] = "put" => i = 1 \/ p[i - 1] = "see"
    BY DEF Shape
  <2>1. CASE i <= Len(s)
    <3>1. i \in 1 .. Len(s) /\ p[i] = s[i]
      BY <2>1, <1>1, <1>2
    <3>2. /\ s[i] = "snap" => i < Len(s) /\ s[i + 1] \in Writes
          /\ i > 1 /\ s[i] \in Writes => s[i - 1] = "snap"
          /\ s[i] \in Changes => \E j \in 1 .. Len(s) : j > i /\ s[j] = "snap"
          /\ s[i] \in Minting => i = 1 \/ (i = 2 /\ s[1] = "snap")
          /\ s[i] \in Firsts => i = 1
          /\ s[i] = "put" => i = 1 \/ s[i - 1] = "see"
      BY <3>1, <1>3 DEF Shape
    <3>3. i < Len(s) => i + 1 \in 1 .. Len(s) /\ i + 1 <= Len(p) /\ p[i + 1] = s[i + 1]
      BY <3>1, <1>1, <1>2
    <3>4. i > 1 => i - 1 \in 1 .. Len(s) /\ p[i - 1] = s[i - 1]
      BY <3>1, <1>1, <1>2
    <3>5. p[1] = s[1]
      BY <3>1, <1>1, <1>2
    <3>6. ASSUME p[i] \in Changes PROVE \E j \in 1 .. Len(p) : j > i /\ p[j] = "snap"
      <4>1. PICK j \in 1 .. Len(s) : j > i /\ s[j] = "snap"
        BY <3>1, <3>2, <3>6
      <4>2. j \in 1 .. Len(p) /\ p[j] = "snap"
        BY <4>1, <1>1, <1>2
      <4> QED BY <4>1, <4>2
    <3>7. p[i] = "snap" => i < Len(p) /\ p[i + 1] \in Writes
      BY <3>1, <3>2, <3>3, <1>1, <1>2
    <3> QED BY <3>1, <3>2, <3>4, <3>5, <3>6, <3>7, <1>6
  <2>2. CASE i > Len(s)
    <3> DEFINE k == i - Len(s)
    <3>1. k \in Nat /\ k > 0 /\ i = Len(s) + k
      BY <2>2, <1>1, <1>2
    <3>2. k \in 1 .. Len(r)
      BY <3>1, <1>1, <1>2
    <3> HIDE DEF k
    <3>3. p[i] = r[k]
      BY <3>1, <3>2, <1>2
    <3>4. /\ r[k] = "snap" => k < Len(r) /\ r[k + 1] \in Writes
          /\ k > 1 /\ r[k] \in Writes => r[k - 1] = "snap"
          /\ r[k] \in Changes => \E j \in 1 .. Len(r) : j > k /\ r[j] = "snap"
          /\ r[k] = "put" => k = 1 \/ r[k - 1] = "see"
      BY <3>2, <1>3 DEF Shape
    <3>5. k < Len(r) => i < Len(p) /\ p[i + 1] = r[k + 1]
      <4> SUFFICES ASSUME k < Len(r) PROVE i < Len(p) /\ p[i + 1] = r[k + 1]
        OBVIOUS
      <4>1. k + 1 \in 1 .. Len(r) /\ i + 1 = Len(s) + (k + 1)
        BY <3>1, <3>2, <1>1
      <4> QED BY <4>1, <3>1, <3>2, <1>1, <1>2
    <3>6. k > 1 => p[i - 1] = r[k - 1]
      <4> SUFFICES ASSUME k > 1 PROVE p[i - 1] = r[k - 1]
        OBVIOUS
      <4>1. k - 1 \in 1 .. Len(r) /\ i - 1 = Len(s) + (k - 1)
        BY <3>1, <3>2, <1>1
      <4> QED BY <4>1, <1>2
    <3>7. ASSUME p[i] \in Changes PROVE \E j \in 1 .. Len(p) : j > i /\ p[j] = "snap"
      <4>1. PICK j \in 1 .. Len(r) : j > k /\ r[j] = "snap"
        BY <3>3, <3>4, <3>7
      <4>2. Len(s) + j \in 1 .. Len(p) /\ Len(s) + j > i
        <5>1. j \in Nat /\ j <= Len(r) /\ j > k /\ k \in Nat /\ i = Len(s) + k
          BY <4>1, <3>1, <3>2, <1>1
        <5>2. Len(s) \in Nat /\ Len(r) \in Nat /\ Len(p) = Len(s) + Len(r)
          BY <1>1, <1>2
        <5> QED BY <5>1, <5>2
      <4>3. p[Len(s) + j] = "snap"
        BY <4>1, <1>2
      <4> QED BY <4>2, <4>3
    <3>8. k = 1 => r[k] \notin Writes \cup {"put"}
      BY <3>2, <1>1, <1>5
    <3>9. r[k] \notin Firsts
      <4>1. k + 1 \in 1 .. Len(q) /\ r[k] = q[k + 1] /\ k + 1 # 1
        BY <3>1, <3>2, <1>1
      <4> QED BY <4>1 DEF Shape
    <3>10. r[k] \notin Early \cup Minting
      BY <3>2, <1>4
    <3> QED BY <3>1, <3>3, <3>4, <3>5, <3>6, <3>7, <3>8, <3>9, <3>10
  <2>3. i <= Len(s) \/ i > Len(s)
    BY <1>1, <1>2
  <2> QED BY <2>1, <2>2, <2>3
<1> QED BY <1>2, <1>7

\* Every list a step puts before the rest is a plan.
LEMMA Plans ==
  /\ Plan(<<>>) /\ Plan(<<"forget">>) /\ Plan(<<"grace">>) /\ Plan(<<"put">>)
  /\ Plan(<<"current">>) /\ Plan(<<"reread">>) /\ Plan(<<"unmint">>)
  /\ Plan(<<"snap", "writeId">>) /\ Plan(<<"ask", "serve">>) /\ Plan(<<"see", "put">>)
  /\ Plan(<<"mint", "current">>) /\ Plan(<<"ask", "serve", "compare">>)
  /\ Plan(<<"clear", "see", "put">>)
  /\ Plan(<<"snap", "writeOrFail", "see", "put">>)
  /\ Plan(<<"snap", "write", "mint", "current">>)
  /\ Plan(<<"arm", "snap", "write", "current">>)
  /\ Plan(<<"merge", "snap", "write", "see", "put">>)
  /\ Plan(<<"unlease", "snap", "write", "see", "put">>)
  /\ Plan(<<"merge", "snap", "write", "anchor", "snap", "write", "see", "put">>)
<1> USE DEF Plan, Labels, Writes, Changes, Early, Minting, Firsts, Shape, Elems
<1>1. Plan(<<>>) /\ Plan(<<"forget">>) /\ Plan(<<"grace">>) /\ Plan(<<"put">>)
  OBVIOUS
<1>2. Plan(<<"current">>) /\ Plan(<<"reread">>) /\ Plan(<<"unmint">>)
  OBVIOUS
<1>3. Plan(<<"snap", "writeId">>) /\ Plan(<<"ask", "serve">>) /\ Plan(<<"see", "put">>)
  OBVIOUS
<1>4. Plan(<<"mint", "current">>) /\ Plan(<<"ask", "serve", "compare">>)
  OBVIOUS
<1>5. Plan(<<"clear", "see", "put">>)
  OBVIOUS
<1>6. Plan(<<"snap", "writeOrFail", "see", "put">>)
  OBVIOUS
<1>7. Plan(<<"snap", "write", "mint", "current">>)
  OBVIOUS
<1>8. Plan(<<"arm", "snap", "write", "current">>)
  OBVIOUS
<1>9. Plan(<<"merge", "snap", "write", "see", "put">>)
  OBVIOUS
<1>10. Plan(<<"unlease", "snap", "write", "see", "put">>)
  OBVIOUS
<1>11. Plan(<<"merge", "snap", "write", "anchor", "snap", "write", "see", "put">>)
  OBVIOUS
<1> QED BY <1>1, <1>2, <1>3, <1>4, <1>5, <1>6, <1>7, <1>8, <1>9, <1>10, <1>11

\* What each call does first.
LEMMA Scripts ==
  /\ Shape(<<"haskey", "due">>) /\ Shape(<<"haskey", "compare">>) /\ Shape(<<"stamp">>)
  /\ Shape(<<"debounce", "mint", "ask", "serve">>)
  /\ Shape(<<"haskey", "window", "ask", "serve">>)
BY DEF Labels, Writes, Changes, Early, Minting, Firsts, Shape
\* What the rest of a list looks like.
LEMMA Popped ==
  ASSUME NEW q \in Seq(Labels), q # <<>>, Shape(q)
  PROVE  /\ Tail(q) \in Seq(Labels) /\ Shape(Tail(q))
         /\ Elems(q) = {Head(q)} \cup Elems(Tail(q))
         /\ Tail(q) # <<>> =>
              /\ Head(Tail(q)) # "merge"
              /\ Head(Tail(q)) = "put" => Head(q) = "see"
              /\ Head(Tail(q)) \in Writes => Head(q) = "snap"
         /\ Head(q) = "snap" => Tail(q) # <<>> /\ Head(Tail(q)) \in Writes
         /\ Head(q) # "snap" => Elems(Tail(q)) \cap Minting = {}
         /\ Head(q) \in Changes => "snap" \in Elems(Tail(q))
         /\ Head(q) \notin Early => Elems(q) \cap Early = {}
         /\ Head(q) \in Early => "snap" \notin Elems(q)
         /\ Elems(Tail(q)) \cap Firsts = {}
<1> DEFINE r == Tail(q)
<1>1. /\ r \in Seq(Labels) /\ Len(r) = Len(q) - 1 /\ Len(q) \in Nat \ {0}
      /\ \A i \in 1 .. Len(r) : r[i] = q[i + 1]
      /\ q[1] = Head(q)
  OBVIOUS
<1>2. Shape(r)
  BY TailShape
<1> HIDE DEF r
<1>3. r # <<>> => 1 \in 1 .. Len(r) /\ 2 \in 1 .. Len(q) /\ Head(r) = q[2]
  BY <1>1
<1>4. r # <<>> =>
        /\ Head(r) # "merge"
        /\ Head(r) = "put" => Head(q) = "see"
        /\ Head(r) \in Writes => Head(q) = "snap"
  BY <1>1, <1>3 DEF Shape, Firsts
<1>5. 1 \in 1 .. Len(q)
  BY <1>1
<1>6. Head(q) = "snap" => r # <<>> /\ Head(r) \in Writes
  <2> SUFFICES ASSUME q[1] = "snap" PROVE r # <<>> /\ Head(r) \in Writes
    BY <1>1
  <2>1. 1 < Len(q) /\ q[1 + 1] \in Writes
    BY <1>5 DEF Shape
  <2>2. r # <<>>
    BY <2>1, <1>1
  <2> QED BY <2>1, <2>2, <1>3
<1>7. Head(q) # "snap" => Elems(r) \cap Minting = {}
  <2> SUFFICES ASSUME Head(q) # "snap", NEW i \in 1 .. Len(r), r[i] \in Minting PROVE FALSE
    BY DEF Elems
  <2>1. i + 1 \in 1 .. Len(q) /\ q[i + 1] \in Minting /\ i + 1 # 1
    BY <1>1
  <2> QED BY <2>1, <1>1 DEF Shape
<1>8. Head(q) \in Changes => "snap" \in Elems(r)
  <2> SUFFICES ASSUME q[1] \in Changes PROVE "snap" \in Elems(r)
    BY <1>1
  <2>1. PICK j \in 1 .. Len(q) : j > 1 /\ q[j] = "snap"
    BY <1>5 DEF Shape
  <2>2. j - 1 \in 1 .. Len(r) /\ r[j - 1] = q[j]
    BY <2>1, <1>1
  <2> QED BY <2>1, <2>2 DEF Elems
<1>9. Head(q) \notin Early => Elems(q) \cap Early = {}
  <2> SUFFICES ASSUME q[1] \notin Early, NEW i \in 1 .. Len(q), q[i] \in Early PROVE FALSE
    BY <1>1 DEF Elems
  <2>1. 1 < i
    BY <1>1
  <2> QED BY <2>1, <1>5 DEF Shape
<1>10. Head(q) \in Early => "snap" \notin Elems(q)
  BY <1>1, <1>5 DEF Shape, Elems
<1>11. Elems(q) = {Head(q)} \cup Elems(r)
  <2>1. Elems(r) \subseteq Elems(q) /\ Head(q) \in Elems(q)
    <3>1. \A i \in 1 .. Len(r) : i + 1 \in 1 .. Len(q)
      BY <1>1
    <3> QED BY <3>1, <1>1, <1>5 DEF Elems
  <2>2. ASSUME NEW i \in 1 .. Len(q) PROVE q[i] \in {Head(q)} \cup Elems(r)
    <3>1. CASE i = 1
      BY <3>1, <1>1
    <3>2. CASE i # 1
      <4>1. i - 1 \in 1 .. Len(r) /\ r[i - 1] = q[i]
        BY <3>2, <1>1
      <4> QED BY <4>1 DEF Elems
    <3> QED BY <3>1, <3>2
  <2> QED BY <2>1, <2>2 DEF Elems
<1>12. Elems(r) \cap Firsts = {}
  <2> SUFFICES ASSUME NEW i \in 1 .. Len(r), r[i] \in Firsts PROVE FALSE
    BY DEF Elems
  <2>1. i + 1 \in 1 .. Len(q) /\ q[i + 1] \in Firsts /\ i + 1 # 1
    BY <1>1
  <2> QED BY <2>1 DEF Shape
<1> QED BY <1>1, <1>2, <1>4, <1>6, <1>7, <1>8, <1>9, <1>10, <1>11, <1>12 DEF r

----------------------------------------------------------------------------
Lists == todo \in [Threads -> Seq(Labels)] /\ \A t \in Threads : Shape(todo[t])

\* A step that puts s before the rest.
LEMMA Goes ==
  ASSUME Lists, NEW t \in Threads, todo[t] # <<>>, NEW s, Plan(s), Then(t, s),
         s = <<>> \/ Head(todo[t]) \notin {"snap", "see"} \cup Early
  PROVE  /\ Lists'
         /\ \A u \in Threads \ {t} : todo'[u] = todo[u]
         /\ Elems(todo'[t]) = Elems(s) \cup Elems(Tail(todo[t]))
         /\ s # <<>> => todo'[t] # <<>> /\ Head(todo'[t]) = Head(s)
         /\ s = <<>> => todo'[t] = Tail(todo[t])
<1> DEFINE q == todo[t]
<1>1. q \in Seq(Labels) /\ Shape(q) /\ q # <<>> /\ s \in Seq(Labels)
  BY DEF Lists, Plan
<1>2. todo' = [todo EXCEPT ![t] = s \o Tail(q)]
  BY DEF Then, Lists
<1>3. todo'[t] = s \o Tail(q) /\ \A u \in Threads \ {t} : todo'[u] = todo[u]
  BY <1>2 DEF Lists
<1> HIDE DEF q
<1>4. Tail(q) \in Seq(Labels)
  BY <1>1
<1>5. s = <<>> => s \o Tail(q) = Tail(q)
  BY <1>1, <1>4
<1>6. s \o Tail(q) \in Seq(Labels) /\ Shape(s \o Tail(q))
  <2>1. CASE s = <<>>
    BY <2>1, <1>1, <1>5, TailShape
  <2>2. CASE s # <<>>
    BY <2>2, <1>1, PlanShape DEF q
  <2> QED BY <2>1, <2>2
<1>7. Lists'
  BY <1>2, <1>3, <1>6 DEF Lists
<1>8. Elems(todo'[t]) = Elems(s) \cup Elems(Tail(q))
  BY <1>1, <1>3, Pushed
<1>9. s # <<>> => s \o Tail(q) # <<>> /\ Head(s \o Tail(q)) = Head(s)
  BY <1>1, <1>4
<1> QED BY <1>3, <1>5, <1>7, <1>8, <1>9 DEF q

\* A step that replaces the list.
LEMMA Cuts ==
  ASSUME Lists, NEW t \in Threads, NEW s \in Seq(Labels), Shape(s), Instead(t, s)
  PROVE  Lists' /\ todo'[t] = s /\ \A u \in Threads \ {t} : todo'[u] = todo[u]
BY DEF Lists, Instead
----------------------------------------------------------------------------
Beacons == {<<0, "trial">>, <<0, "expired">>}

\* What a thread has ready for the step it is at.
Ready(t) ==
  /\ call[t] = "none" => todo[t] = <<>>
  /\ At(t, "put") => new[t] \in State
  /\ At(t, "merge") => reply[t] \in Replies
  /\ call[t] = "keyless" =>
       /\ "compare" \notin Elems(todo[t]) /\ Elems(todo[t]) \cap Early \subseteq {"debounce"}
       /\ "debounce" \in Elems(todo[t]) \/ before[t] \in Beacons
  /\ "arm" \in Elems(todo[t]) => call[t] = "keyless"

Control == TypeOK /\ Lists /\ \A t \in Threads : Ready(t)

\* The others go on as they were.
LEMMA OthersReady ==
  ASSUME Control, NEW u \in Threads, UNCHANGED <<todo[u], call[u], new[u], reply[u], before[u]>>
  PROVE  Ready(u)'
BY DEF Control, Ready, At

\* A step of t that puts s before the rest.
LEMMA Kept ==
  ASSUME Control, NEW t \in Threads, todo[t] # <<>>, NEW s, Plan(s), Then(t, s),
         s = <<>> \/ Head(todo[t]) \notin {"snap", "see"} \cup Early,
         call' = call,
         \A u \in Threads \ {t} : UNCHANGED <<new[u], reply[u], before[u]>>,
         Head(todo[t]) = "see" \/ (s # <<>> /\ Head(s) = "put") => new'[t] \in State,
         s # <<>> /\ Head(s) = "merge" => reply'[t] \in Replies,
         call[t] = "keyless" =>
           /\ "compare" \notin Elems(s)
           /\ before'[t] = before[t] \/ Head(todo[t]) = "compare" \/ before'[t] \in Beacons,
         Head(todo[t]) = "debounce" => before'[t] \in Beacons,
         "arm" \in Elems(s) => call[t] = "keyless"
  PROVE  Lists' /\ \A u \in Threads : Ready(u)'
<1> DEFINE q == todo[t]
<1>1. Lists /\ q \in Seq(Labels) /\ q # <<>> /\ Shape(q)
  BY DEF Control, Lists
<1>2. /\ Lists'
      /\ \A u \in Threads \ {t} : todo'[u] = todo[u]
      /\ Elems(todo'[t]) = Elems(s) \cup Elems(Tail(q))
      /\ s # <<>> => todo'[t] # <<>> /\ Head(todo'[t]) = Head(s)
      /\ s = <<>> => todo'[t] = Tail(q)
  BY <1>1, Goes
<1>3. \A u \in Threads \ {t} : Ready(u)'
  <2> SUFFICES ASSUME NEW u \in Threads \ {t} PROVE Ready(u)'
    OBVIOUS
  <2>1. UNCHANGED <<todo[u], call[u], new[u], reply[u], before[u]>>
    BY <1>2
  <2> QED BY <2>1, OthersReady
<1>4. Ready(t)'
  <2> HIDE DEF q
  <2>1. /\ Elems(q) = {Head(q)} \cup Elems(Tail(q))
        /\ Tail(q) # <<>> => Head(Tail(q)) # "merge" /\ (Head(Tail(q)) = "put" => Head(q) = "see")
        /\ Head(q) \notin Early => Elems(q) \cap Early = {}
    BY <1>1, Popped
  <2>2. Ready(t) /\ call'[t] = call[t] /\ Elems(s) \cap Early = {}
    BY DEF Control, Plan
  <2>3. (call[t] = "none" => todo[t] = <<>>)'
    BY <2>2 DEF Ready
  <2>4. At(t, "put")' => new'[t] \in State
    BY <1>2, <2>1 DEF At, q
  <2>5. At(t, "merge")' => reply'[t] \in Replies
    BY <1>2, <2>1 DEF At, q
  <2>6. ASSUME call[t] = "keyless"
        PROVE  /\ "compare" \notin Elems(todo'[t]) /\ Elems(todo'[t]) \cap Early \subseteq {"debounce"}
               /\ "debounce" \in Elems(todo'[t]) \/ before'[t] \in Beacons
    <3>1. /\ "compare" \notin Elems(q) /\ Elems(q) \cap Early \subseteq {"debounce"}
          /\ "debounce" \in Elems(q) \/ before[t] \in Beacons
      BY <2>6, <2>2 DEF Ready, q
    <3>2. "debounce" \in Elems(q) => Head(q) = "debounce" \/ "debounce" \in Elems(Tail(q))
      BY <2>1
    <3>3. Head(q) # "compare"
      BY <3>1, <2>1
    <3> QED BY <3>1, <3>2, <3>3, <2>1, <2>2, <2>6, <1>2 DEF q
  <2>7. "arm" \in Elems(todo'[t]) => call[t] = "keyless"
    BY <1>2, <2>1, <2>2 DEF Ready, q
  <2> QED BY <2>2, <2>3, <2>4, <2>5, <2>6, <2>7 DEF Ready
<1> QED BY <1>2, <1>3, <1>4

\* A step of t that replaces its list.
LEMMA Broken ==
  ASSUME Control, NEW t \in Threads, todo[t] # <<>>, Instead(t, <<>>) \/ Instead(t, <<"current">>),
         call' = call,
         \A u \in Threads \ {t} : UNCHANGED <<new[u], reply[u], before[u]>>,
         call[t] = "keyless" => before'[t] \in Beacons
  PROVE  Lists' /\ \A u \in Threads : Ready(u)'
<1>1. Lists
  BY DEF Control
<1>2. <<>> \in Seq(Labels) /\ <<"current">> \in Seq(Labels) /\ Shape(<<>>) /\ Shape(<<"current">>)
  BY Plans DEF Plan
<1>3. /\ Lists' /\ todo'[t] \in {<<>>, <<"current">>}
      /\ \A u \in Threads \ {t} : todo'[u] = todo[u]
  BY <1>1, <1>2, Cuts
<1>4. \A u \in Threads \ {t} : Ready(u)'
  <2> SUFFICES ASSUME NEW u \in Threads \ {t} PROVE Ready(u)'
    OBVIOUS
  <2>1. UNCHANGED <<todo[u], call[u], new[u], reply[u], before[u]>>
    BY <1>3
  <2> QED BY <2>1, OthersReady
<1>5. Ready(t)'
  <2>1. Elems(todo'[t]) \subseteq {"current"}
    BY <1>3, Listed
  <2>2. ~At(t, "put")' /\ ~At(t, "merge")'
    BY <1>3 DEF At
  <2>3. call[t] # "none"
    BY DEF Control, Ready
  <2> QED BY <2>1, <2>2, <2>3 DEF Ready, Early
<1> QED BY <1>3, <1>4, <1>5
\* A step of t that only goes on.
LEMMA Pops ==
  ASSUME Control, NEW t \in Threads, todo[t] # <<>>, Head(todo[t]) \notin {"see", "debounce"},
         Next1(t), UNCHANGED <<call, new, reply, before>>
  PROVE  Lists' /\ \A u \in Threads : Ready(u)'
<1>1. Plan(<<>>) /\ Then(t, <<>>) /\ Elems(<<>>) = {}
  BY Plans, Listed DEF Next1
<1> QED BY <1>1, Kept

\* At the beginning.
LEMMA ControlInit == Init => Control
<1> SUFFICES ASSUME Init PROVE Control
  OBVIOUS
<1>1. Fresh \in Cache
  BY RacesAssumption DEF Fresh, Cache
<1>2. (CHOOSE i \in Ids : TRUE) \in Ids
  BY RacesAssumption
<1>3. cache \in Cache /\ disk \in Cache \cup {None} /\ state_ \in State
  <2>1. 1 \in 0 .. MaxRev /\ 0 \in 0 .. MaxRev /\ Ids \subseteq Ids \cup {None}
    BY RacesAssumption
  <2>2. ASSUME NEW c \in Cache PROVE [c EXCEPT !.lease = 1, !.key = TRUE, !.lvo = TRUE] \in Cache
    BY <2>1 DEF Cache
  <2>3. ASSUME NEW c \in Cache, NEW i \in Ids PROVE [c EXCEPT !.trial = TRUE, !.ftid = i] \in Cache
    BY <2>1 DEF Cache
  <2>4. cache \in Cache /\ disk \in Cache \cup {None}
    <3>1. cache \in {Fresh, [Fresh EXCEPT !.lease = 1, !.key = TRUE, !.lvo = TRUE],
                    [Fresh EXCEPT !.trial = TRUE, !.ftid = CHOOSE i \in Ids : TRUE]}
      BY DEF Init
    <3>2. [Fresh EXCEPT !.lease = 1, !.key = TRUE, !.lvo = TRUE] \in Cache
      BY <1>1, <2>2
    <3>3. [Fresh EXCEPT !.trial = TRUE, !.ftid = CHOOSE i \in Ids : TRUE] \in Cache
      BY <1>1, <1>2, <2>3
    <3>4. disk \in {None, cache}
      BY DEF Init
    <3> QED BY <1>1, <3>1, <3>2, <3>3, <3>4
  <2>5. state_ \in {"Invalid", "Licensed", "Trial"}
    BY DEF Init
  <2> QED BY <2>4, <2>5 DEF State
<1>4. TypeOK
  <2>1. fails \in BOOLEAN /\ calls \in 0 .. MaxCalls
    BY RacesAssumption DEF Init
  <2>2. word \in Word
    BY RacesAssumption DEF Init, Word
  <2>3. saver \in Threads \cup {None} /\ minute \in BOOLEAN
    BY DEF Init
  <2>5. <<>> \in Seq(Labels)
    OBVIOUS
  <2>6. todo \in [Threads -> Seq(Labels)]
    BY <2>5 DEF Init
  <2>7. sent \in [Threads -> BOOLEAN] /\ snap \in [Threads -> Cache \cup {None}]
    BY DEF Init
  <2>8. reply \in [Threads -> Replies \cup {None}] /\ new \in [Threads -> State \cup {None}]
    BY DEF Init
  <2>9. before \in [Threads -> ((0 .. MaxRev) \X State) \cup {<<0, "trial">>, <<0, "expired">>, None}]
    BY DEF Init
  <2>10. call \in [Threads -> DOMAIN Script \cup {"none"}]
    BY DEF Init
  <2>4. reported \subseteq Ids /\ forced \in Nat /\ raced \in BOOLEAN
    BY DEF Init
  <2> QED BY <1>3, <2>1, <2>2, <2>3, <2>4, <2>6, <2>7, <2>8, <2>9, <2>10 DEF TypeOK
<1>5. Lists
  BY Plans DEF Init, Lists, Plan
<1>6. \A t \in Threads : Ready(t)
  BY Listed DEF Init, Ready, At
<1> QED BY <1>4, <1>5, <1>6 DEF Control

\* What each call does first is typed, and nothing of it needs anything.
LEMMA ScriptShape ==
  ASSUME NEW c \in DOMAIN Script
  PROVE  /\ Script[c] \in Seq(Labels) /\ Shape(Script[c]) /\ Script[c] # <<>>
         /\ Head(Script[c]) \notin {"put", "merge"} \cup Writes
         /\ Elems(Script[c]) \cap ({"arm", "clear", "snap", "put", "forget", "see", "merge"}
                                   \cup Minting) = {}
         /\ c = "deactivate" => Elems(Script[c]) = {"ask", "serve"}
         /\ c = "keyless" => Script[c] = <<"debounce", "mint", "ask", "serve">>
         /\ c = "deactivate" => Script[c] = <<"ask", "serve">>
<1>1. Script[c] \in {<<"ask", "serve">>, <<"haskey", "due">>, <<"stamp">>,
                     <<"debounce", "mint", "ask", "serve">>,
                     <<"haskey", "window", "ask", "serve">>, <<"haskey", "compare">>}
      /\ (c = "keyless" => Script[c] = <<"debounce", "mint", "ask", "serve">>)
      /\ (c = "deactivate" => Script[c] = <<"ask", "serve">>)
  BY DEF Script, Round
<1>2. Shape(Script[c])
  BY <1>1, Plans, Scripts DEF Plan
<1>3. Script[c] \in Seq(Labels) /\ Script[c] # <<>>
  <2>1. /\ <<"ask", "serve">> \in Seq(Labels) /\ <<"haskey", "due">> \in Seq(Labels)
        /\ <<"stamp">> \in Seq(Labels) /\ <<"haskey", "compare">> \in Seq(Labels)
        /\ <<"debounce", "mint", "ask", "serve">> \in Seq(Labels)
        /\ <<"haskey", "window", "ask", "serve">> \in Seq(Labels)
    BY DEF Labels
  <2>2. /\ <<"ask", "serve">> # <<>> /\ <<"haskey", "due">> # <<>>
        /\ <<"stamp">> # <<>> /\ <<"haskey", "compare">> # <<>>
        /\ <<"debounce", "mint", "ask", "serve">> # <<>>
        /\ <<"haskey", "window", "ask", "serve">> # <<>>
    OBVIOUS
  <2> QED BY <1>1, <2>1, <2>2, Zenon
<1>4. Head(Script[c]) \in {"ask", "haskey", "stamp", "debounce"}
  BY <1>1
<1>5. Elems(Script[c]) \subseteq {"ask", "serve", "haskey", "due", "stamp", "debounce", "mint",
                                  "window", "compare"}
  BY <1>1, Listed
<1>6. c = "deactivate" => Elems(Script[c]) = {"ask", "serve"}
  BY <1>1, Listed
<1> QED BY <1>1, <1>2, <1>3, <1>4, <1>5, <1>6 DEF Writes, Minting
----------------------------------------------------------------------------
\* A call begins.
LEMMA CallControl ==
  ASSUME Control, NEW t \in Threads, NEW c \in DOMAIN Script, Call(t, c)
  PROVE  Control'
<1>1. TypeOK /\ Lists /\ Ready(t)
  BY DEF Control
<1>2. Lists' /\ todo'[t] = Script[c] /\ \A u \in Threads \ {t} : todo'[u] = todo[u]
  BY <1>1, ScriptShape, Cuts DEF Call
<1>3. call' = [call EXCEPT ![t] = c] /\ call'[t] = c
  BY <1>1 DEF Call, TypeOK
<1>4. UNCHANGED <<new, reply, before>>
  BY DEF Call, mine
<1>5. \A u \in Threads \ {t} : Ready(u)'
  <2> SUFFICES ASSUME NEW u \in Threads \ {t} PROVE Ready(u)'
    OBVIOUS
  <2>1. UNCHANGED <<todo[u], call[u], new[u], reply[u], before[u]>>
    BY <1>1, <1>2, <1>3, <1>4 DEF TypeOK
  <2> QED BY <2>1, OthersReady
<1>6. Ready(t)'
  <2>1. c # "none"
    BY DEF Script
  <2>2. ~At(t, "put")' /\ ~At(t, "merge")'
    BY <1>2, ScriptShape DEF At
  <2>3. "arm" \notin Elems(todo'[t])
    BY <1>2, ScriptShape
  <2>4. c = "keyless" => Elems(todo'[t]) = {"debounce", "mint", "ask", "serve"}
    BY <1>2, ScriptShape, Listed
  <2> QED BY <1>3, <2>1, <2>2, <2>3, <2>4 DEF Ready, Early
<1>7. TypeOK'
  <2>1. calls' \in 0 .. MaxCalls
    BY <1>1, RacesAssumption DEF TypeOK, Call
  <2>2. raced' \in BOOLEAN
    BY <1>1 DEF TypeOK, Call
  <2>3. call' \in [Threads -> DOMAIN Script \cup {"none"}]
    BY <1>1, <1>3 DEF TypeOK
  <2>4. todo' \in [Threads -> Seq(Labels)]
    BY <1>2 DEF Lists
  <2> QED BY <1>1, <2>1, <2>2, <2>3, <2>4 DEF TypeOK, Call, client, mine
<1> QED BY <1>2, <1>5, <1>6, <1>7 DEF Control

\* A call returns.
LEMMA ReturnControl ==
  ASSUME Control, NEW t \in Threads, Return(t)
  PROVE  Control'
<1>1. TypeOK /\ Lists /\ Ready(t)
  BY DEF Control
<1>2. todo' = todo /\ todo[t] = <<>> /\ call' = [call EXCEPT ![t] = "none"]
  BY DEF Return
<1>3. \A u \in Threads \ {t} : UNCHANGED <<todo[u], call[u], new[u], reply[u], before[u]>>
  BY <1>1 DEF Return, TypeOK
<1>4. Ready(t)'
  <2>1. call'[t] = "none" /\ Elems(todo'[t]) = {}
    BY <1>1, <1>2, Listed DEF TypeOK
  <2> QED BY <1>2, <2>1 DEF Ready, At
<1>5. TypeOK'
  <2>1. /\ sent' \in [Threads -> BOOLEAN] /\ reply' \in [Threads -> Replies \cup {None}]
        /\ snap' \in [Threads -> Cache \cup {None}] /\ new' \in [Threads -> State \cup {None}]
    BY <1>1 DEF Return, TypeOK
  <2>2. before' \in [Threads -> ((0 .. MaxRev) \X State) \cup {<<0, "trial">>, <<0, "expired">>, None}]
    BY <1>1 DEF Return, TypeOK
  <2>3. call' \in [Threads -> DOMAIN Script \cup {"none"}]
    BY <1>1, <1>2 DEF TypeOK
  <2> QED BY <1>1, <2>1, <2>2, <2>3 DEF Return, TypeOK, client, past
<1>6. Lists'
  BY <1>1, <1>2 DEF Lists
<1>7. \A u \in Threads : Ready(u)'
  BY <1>3, <1>4, OthersReady
<1> QED BY <1>5, <1>6, <1>7 DEF Control
\* At a step that may not break off nothing early is left, and a beacon knows its state.
LEMMA Underway ==
  ASSUME Control, NEW t \in Threads, todo[t] # <<>>, Head(todo[t]) \notin Early
  PROVE  /\ Elems(todo[t]) \cap Early = {}
         /\ call[t] = "keyless" => before[t] \in Beacons
         /\ Head(todo[t]) = "arm" => call[t] = "keyless"
         /\ call[t] # "none"
<1>1. todo[t] \in Seq(Labels) /\ Shape(todo[t]) /\ Ready(t)
  BY DEF Control, Lists
<1>2. Elems(todo[t]) \cap Early = {} /\ Head(todo[t]) \in Elems(todo[t])
  BY <1>1, Popped
<1> QED BY <1>1, <1>2 DEF Ready, Early

\* Steps that only go on.
LEMMA PopControl ==
  ASSUME Control, NEW t \in Threads,
         Ask(t) \/ Merge(t) \/ Anchor(t) \/ Unlease(t) \/ Clear(t) \/ Snap(t) \/ Reread(t)
           \/ Due(t) \/ Arm(t)
  PROVE  Control'
<1>1. TypeOK /\ Lists /\ Ready(t)
  BY DEF Control
<1>2. \E step \in {"ask", "merge", "anchor", "unlease", "clear", "snap", "reread", "due", "arm"} :
        At(t, step) /\ Next1(t) /\ UNCHANGED <<call, new, reply, before>>
  BY DEF Ask, Merge, Anchor, Unlease, Clear, Snap, Reread, Due, Arm, Update, mine
<1>3. Lists' /\ \A u \in Threads : Ready(u)'
  BY <1>2, Pops DEF At
<1>4. todo' \in [Threads -> Seq(Labels)]
  BY <1>3 DEF Lists
<1>5. TypeOK'
  <2>1. CASE Ask(t)
    <3>1. sent' \in [Threads -> BOOLEAN] /\ reported' \subseteq Ids
      BY <1>1, <2>1 DEF TypeOK, Cache, Ask
    <3> QED BY <1>1, <1>4, <2>1, <3>1 DEF TypeOK, Ask, client
  <2>2. CASE Merge(t)
    <3>1. reply[t] \in Replies
      BY <1>1, <2>2 DEF Ready, Merge, Update
    <3>2. reply[t].kind = "granted" => reply[t].rev \in 0 .. MaxRev
      BY <3>1, RacesAssumption DEF Replies, Word
    <3>3. cache' \in Cache
      BY <1>1, <2>2, <3>2 DEF TypeOK, Cache, Merge, Update, Merged
    <3> QED BY <1>1, <1>4, <2>2, <3>3 DEF TypeOK, Merge, Update, mine, past
  <2>3. CASE Anchor(t)
    <3>1. cache' \in Cache
      BY <1>1, <2>3 DEF TypeOK, Cache, Anchor, Update
    <3> QED BY <1>1, <1>4, <2>3, <3>1 DEF TypeOK, Anchor, Update, mine, past
  <2>4. CASE Unlease(t)
    <3>1. cache' \in Cache
      <4>1. 0 \in 0 .. MaxRev
        BY RacesAssumption
      <4> QED BY <1>1, <2>4, <4>1 DEF TypeOK, Cache, Unlease, Update
    <3> QED BY <1>1, <1>4, <2>4, <3>1 DEF TypeOK, Unlease, Update, mine, past
  <2>5. CASE Arm(t)
    <3>1. before[t] \in Beacons
      BY <2>5, Underway DEF Arm, Update, At, Early
    <3>2. cache' \in Cache
      <4>1. before[t][2] \in {"trial", "expired"}
        BY <3>1 DEF Beacons
      <4> QED BY <1>1, <2>5, <4>1 DEF TypeOK, Cache, Arm, Update
    <3> QED BY <1>1, <1>4, <2>5, <3>2 DEF TypeOK, Arm, Update, mine, past
  <2>6. CASE Clear(t)
    BY <1>1, <1>4, <2>6 DEF TypeOK, Clear, mine, past
  <2>7. CASE Snap(t)
    <3>1. snap' \in [Threads -> Cache \cup {None}]
      BY <1>1, <2>7 DEF TypeOK, Snap
    <3> QED BY <1>1, <1>4, <2>7, <3>1 DEF TypeOK, Snap, past
  <2>8. CASE Reread(t) \/ Due(t)
    BY <1>1, <1>4, <2>8 DEF TypeOK, Reread, Due, client, mine, past
  <2> QED BY <2>1, <2>2, <2>3, <2>4, <2>5, <2>6, <2>7, <2>8
<1> QED BY <1>3, <1>5 DEF Control

\* Lists of equal labels are equal.
LEMMA SameList ==
  ASSUME NEW S, NEW s \in Seq(S), NEW q \in Seq(S), Len(s) = Len(q),
         \A i \in 1 .. Len(s) : s[i] = q[i]
  PROVE  s = q
OBVIOUS

\* The lists that are put together, written out.
LEMMA WrittenOut ==
  /\ <<"arm">> \o <<"snap", "write">> = <<"arm", "snap", "write">>
  /\ <<"arm", "snap", "write">> \o <<"current">> = <<"arm", "snap", "write", "current">>
  /\ <<"merge">> \o <<"snap", "write">> = <<"merge", "snap", "write">>
  /\ <<"merge", "snap", "write">> \o <<"see", "put">> = <<"merge", "snap", "write", "see", "put">>
  /\ <<"unlease">> \o <<"snap", "write">> = <<"unlease", "snap", "write">>
  /\ <<"unlease", "snap", "write">> \o <<"see", "put">> = <<"unlease", "snap", "write", "see", "put">>
  /\ <<"merge", "snap", "write">> \o <<"anchor">> = <<"merge", "snap", "write", "anchor">>
  /\ <<"merge", "snap", "write", "anchor">> \o <<"snap", "write">>
       = <<"merge", "snap", "write", "anchor", "snap", "write">>
  /\ <<"merge", "snap", "write", "anchor", "snap", "write">> \o <<"see", "put">>
       = <<"merge", "snap", "write", "anchor", "snap", "write", "see", "put">>
  /\ <<"ask", "serve">> \o <<"compare">> = <<"ask", "serve", "compare">>
  /\ <<"clear">> \o <<"see", "put">> = <<"clear", "see", "put">>
  /\ <<"snap", "writeOrFail">> \o <<"see", "put">> = <<"snap", "writeOrFail", "see", "put">>
  /\ <<"snap", "write">> \o <<"mint", "current">> = <<"snap", "write", "mint", "current">>
<1>1. <<"arm">> \o <<"snap", "write">>
       = <<"arm", "snap", "write">>
  <2> DEFINE S == {"arm", "snap", "write"}
  <2>1. <<"arm">> \in Seq(S) /\ <<"snap", "write">> \in Seq(S)
        /\ <<"arm", "snap", "write">> \in Seq(S)
    OBVIOUS
  <2>2. /\ <<"arm">> \o <<"snap", "write">> \in Seq(S)
        /\ Len(<<"arm">> \o <<"snap", "write">>) = 3
        /\ Len(<<"arm", "snap", "write">>) = 3
    BY <2>1
  <2>3. \A i \in 1 .. 3 : (<<"arm">> \o <<"snap", "write">>)[i]
          = <<"arm", "snap", "write">>[i]
    BY <2>1
  <2> QED BY <2>1, <2>2, <2>3, SameList
<1>2. <<"arm", "snap", "write">> \o <<"current">>
       = <<"arm", "snap", "write", "current">>
  <2> DEFINE S == {"arm", "snap", "write", "current"}
  <2>1. <<"arm", "snap", "write">> \in Seq(S) /\ <<"current">> \in Seq(S)
        /\ <<"arm", "snap", "write", "current">> \in Seq(S)
    OBVIOUS
  <2>2. /\ <<"arm", "snap", "write">> \o <<"current">> \in Seq(S)
        /\ Len(<<"arm", "snap", "write">> \o <<"current">>) = 4
        /\ Len(<<"arm", "snap", "write", "current">>) = 4
    BY <2>1
  <2>3. \A i \in 1 .. 4 : (<<"arm", "snap", "write">> \o <<"current">>)[i]
          = <<"arm", "snap", "write", "current">>[i]
    BY <2>1
  <2> QED BY <2>1, <2>2, <2>3, SameList
<1>3. <<"merge">> \o <<"snap", "write">>
       = <<"merge", "snap", "write">>
  <2> DEFINE S == {"merge", "snap", "write"}
  <2>1. <<"merge">> \in Seq(S) /\ <<"snap", "write">> \in Seq(S)
        /\ <<"merge", "snap", "write">> \in Seq(S)
    OBVIOUS
  <2>2. /\ <<"merge">> \o <<"snap", "write">> \in Seq(S)
        /\ Len(<<"merge">> \o <<"snap", "write">>) = 3
        /\ Len(<<"merge", "snap", "write">>) = 3
    BY <2>1
  <2>3. \A i \in 1 .. 3 : (<<"merge">> \o <<"snap", "write">>)[i]
          = <<"merge", "snap", "write">>[i]
    BY <2>1
  <2> QED BY <2>1, <2>2, <2>3, SameList
<1>4. <<"merge", "snap", "write">> \o <<"see", "put">>
       = <<"merge", "snap", "write", "see", "put">>
  <2> DEFINE S == {"merge", "snap", "write", "see", "put"}
  <2>1. <<"merge", "snap", "write">> \in Seq(S) /\ <<"see", "put">> \in Seq(S)
        /\ <<"merge", "snap", "write", "see", "put">> \in Seq(S)
    OBVIOUS
  <2>2. /\ <<"merge", "snap", "write">> \o <<"see", "put">> \in Seq(S)
        /\ Len(<<"merge", "snap", "write">> \o <<"see", "put">>) = 5
        /\ Len(<<"merge", "snap", "write", "see", "put">>) = 5
    BY <2>1
  <2>3. \A i \in 1 .. 5 : (<<"merge", "snap", "write">> \o <<"see", "put">>)[i]
          = <<"merge", "snap", "write", "see", "put">>[i]
    BY <2>1
  <2> QED BY <2>1, <2>2, <2>3, SameList
<1>5. <<"unlease">> \o <<"snap", "write">>
       = <<"unlease", "snap", "write">>
  <2> DEFINE S == {"unlease", "snap", "write"}
  <2>1. <<"unlease">> \in Seq(S) /\ <<"snap", "write">> \in Seq(S)
        /\ <<"unlease", "snap", "write">> \in Seq(S)
    OBVIOUS
  <2>2. /\ <<"unlease">> \o <<"snap", "write">> \in Seq(S)
        /\ Len(<<"unlease">> \o <<"snap", "write">>) = 3
        /\ Len(<<"unlease", "snap", "write">>) = 3
    BY <2>1
  <2>3. \A i \in 1 .. 3 : (<<"unlease">> \o <<"snap", "write">>)[i]
          = <<"unlease", "snap", "write">>[i]
    BY <2>1
  <2> QED BY <2>1, <2>2, <2>3, SameList
<1>6. <<"unlease", "snap", "write">> \o <<"see", "put">>
       = <<"unlease", "snap", "write", "see", "put">>
  <2> DEFINE S == {"unlease", "snap", "write", "see", "put"}
  <2>1. <<"unlease", "snap", "write">> \in Seq(S) /\ <<"see", "put">> \in Seq(S)
        /\ <<"unlease", "snap", "write", "see", "put">> \in Seq(S)
    OBVIOUS
  <2>2. /\ <<"unlease", "snap", "write">> \o <<"see", "put">> \in Seq(S)
        /\ Len(<<"unlease", "snap", "write">> \o <<"see", "put">>) = 5
        /\ Len(<<"unlease", "snap", "write", "see", "put">>) = 5
    BY <2>1
  <2>3. \A i \in 1 .. 5 : (<<"unlease", "snap", "write">> \o <<"see", "put">>)[i]
          = <<"unlease", "snap", "write", "see", "put">>[i]
    BY <2>1
  <2> QED BY <2>1, <2>2, <2>3, SameList
<1>7. <<"merge", "snap", "write">> \o <<"anchor">>
       = <<"merge", "snap", "write", "anchor">>
  <2> DEFINE S == {"merge", "snap", "write", "anchor"}
  <2>1. <<"merge", "snap", "write">> \in Seq(S) /\ <<"anchor">> \in Seq(S)
        /\ <<"merge", "snap", "write", "anchor">> \in Seq(S)
    OBVIOUS
  <2>2. /\ <<"merge", "snap", "write">> \o <<"anchor">> \in Seq(S)
        /\ Len(<<"merge", "snap", "write">> \o <<"anchor">>) = 4
        /\ Len(<<"merge", "snap", "write", "anchor">>) = 4
    BY <2>1
  <2>3. \A i \in 1 .. 4 : (<<"merge", "snap", "write">> \o <<"anchor">>)[i]
          = <<"merge", "snap", "write", "anchor">>[i]
    BY <2>1
  <2> QED BY <2>1, <2>2, <2>3, SameList
<1>8. <<"merge", "snap", "write", "anchor">> \o <<"snap", "write">>
       = <<"merge", "snap", "write", "anchor", "snap", "write">>
  <2> DEFINE S == {"merge", "snap", "write", "anchor"}
  <2>1. <<"merge", "snap", "write", "anchor">> \in Seq(S) /\ <<"snap", "write">> \in Seq(S)
        /\ <<"merge", "snap", "write", "anchor", "snap", "write">> \in Seq(S)
    OBVIOUS
  <2>2. /\ <<"merge", "snap", "write", "anchor">> \o <<"snap", "write">> \in Seq(S)
        /\ Len(<<"merge", "snap", "write", "anchor">> \o <<"snap", "write">>) = 6
        /\ Len(<<"merge", "snap", "write", "anchor", "snap", "write">>) = 6
    BY <2>1
  <2>3. \A i \in 1 .. 6 : (<<"merge", "snap", "write", "anchor">> \o <<"snap", "write">>)[i]
          = <<"merge", "snap", "write", "anchor", "snap", "write">>[i]
    BY <2>1
  <2> QED BY <2>1, <2>2, <2>3, SameList
<1>9. <<"merge", "snap", "write", "anchor", "snap", "write">> \o <<"see", "put">>
       = <<"merge", "snap", "write", "anchor", "snap", "write", "see", "put">>
  <2> DEFINE S == {"merge", "snap", "write", "anchor", "see", "put"}
  <2>1. <<"merge", "snap", "write", "anchor", "snap", "write">> \in Seq(S) /\ <<"see", "put">> \in Seq(S)
        /\ <<"merge", "snap", "write", "anchor", "snap", "write", "see", "put">> \in Seq(S)
    OBVIOUS
  <2>2. /\ <<"merge", "snap", "write", "anchor", "snap", "write">> \o <<"see", "put">> \in Seq(S)
        /\ Len(<<"merge", "snap", "write", "anchor", "snap", "write">> \o <<"see", "put">>) = 8
        /\ Len(<<"merge", "snap", "write", "anchor", "snap", "write", "see", "put">>) = 8
    BY <2>1
  <2>3. \A i \in 1 .. 8 : (<<"merge", "snap", "write", "anchor", "snap", "write">> \o <<"see", "put">>)[i]
          = <<"merge", "snap", "write", "anchor", "snap", "write", "see", "put">>[i]
    BY <2>1
  <2> QED BY <2>1, <2>2, <2>3, SameList
<1>10. <<"ask", "serve">> \o <<"compare">>
       = <<"ask", "serve", "compare">>
  <2> DEFINE S == {"ask", "serve", "compare"}
  <2>1. <<"ask", "serve">> \in Seq(S) /\ <<"compare">> \in Seq(S)
        /\ <<"ask", "serve", "compare">> \in Seq(S)
    OBVIOUS
  <2>2. /\ <<"ask", "serve">> \o <<"compare">> \in Seq(S)
        /\ Len(<<"ask", "serve">> \o <<"compare">>) = 3
        /\ Len(<<"ask", "serve", "compare">>) = 3
    BY <2>1
  <2>3. \A i \in 1 .. 3 : (<<"ask", "serve">> \o <<"compare">>)[i]
          = <<"ask", "serve", "compare">>[i]
    BY <2>1
  <2> QED BY <2>1, <2>2, <2>3, SameList
<1>11. <<"clear">> \o <<"see", "put">>
       = <<"clear", "see", "put">>
  <2> DEFINE S == {"clear", "see", "put"}
  <2>1. <<"clear">> \in Seq(S) /\ <<"see", "put">> \in Seq(S)
        /\ <<"clear", "see", "put">> \in Seq(S)
    OBVIOUS
  <2>2. /\ <<"clear">> \o <<"see", "put">> \in Seq(S)
        /\ Len(<<"clear">> \o <<"see", "put">>) = 3
        /\ Len(<<"clear", "see", "put">>) = 3
    BY <2>1
  <2>3. \A i \in 1 .. 3 : (<<"clear">> \o <<"see", "put">>)[i]
          = <<"clear", "see", "put">>[i]
    BY <2>1
  <2> QED BY <2>1, <2>2, <2>3, SameList
<1>12. <<"snap", "writeOrFail">> \o <<"see", "put">>
       = <<"snap", "writeOrFail", "see", "put">>
  <2> DEFINE S == {"snap", "writeOrFail", "see", "put"}
  <2>1. <<"snap", "writeOrFail">> \in Seq(S) /\ <<"see", "put">> \in Seq(S)
        /\ <<"snap", "writeOrFail", "see", "put">> \in Seq(S)
    OBVIOUS
  <2>2. /\ <<"snap", "writeOrFail">> \o <<"see", "put">> \in Seq(S)
        /\ Len(<<"snap", "writeOrFail">> \o <<"see", "put">>) = 4
        /\ Len(<<"snap", "writeOrFail", "see", "put">>) = 4
    BY <2>1
  <2>3. \A i \in 1 .. 4 : (<<"snap", "writeOrFail">> \o <<"see", "put">>)[i]
          = <<"snap", "writeOrFail", "see", "put">>[i]
    BY <2>1
  <2> QED BY <2>1, <2>2, <2>3, SameList
<1>13. <<"snap", "write">> \o <<"mint", "current">>
       = <<"snap", "write", "mint", "current">>
  <2> DEFINE S == {"snap", "write", "mint", "current"}
  <2>1. <<"snap", "write">> \in Seq(S) /\ <<"mint", "current">> \in Seq(S)
        /\ <<"snap", "write", "mint", "current">> \in Seq(S)
    OBVIOUS
  <2>2. /\ <<"snap", "write">> \o <<"mint", "current">> \in Seq(S)
        /\ Len(<<"snap", "write">> \o <<"mint", "current">>) = 4
        /\ Len(<<"snap", "write", "mint", "current">>) = 4
    BY <2>1
  <2>3. \A i \in 1 .. 4 : (<<"snap", "write">> \o <<"mint", "current">>)[i]
          = <<"snap", "write", "mint", "current">>[i]
    BY <2>1
  <2> QED BY <2>1, <2>2, <2>3, SameList
<1> QED BY <1>1, <1>2, <1>3, <1>4, <1>5, <1>6, <1>7, <1>8, <1>9, <1>10, <1>11, <1>12, <1>13

\* What an answer leads to.
LEMMA AnsweredShape ==
  ASSUME NEW t \in Threads, NEW r \in Replies
  PROVE  /\ Plan(Answered(t, r.kind))
         /\ Elems(Answered(t, r.kind)) \cap ({"compare", "unmint", "clear"} \cup Minting) = {}
         /\ "arm" \in Elems(Answered(t, r.kind)) => call[t] = "keyless"
         /\ Answered(t, r.kind) # <<>> => Head(Answered(t, r.kind)) \notin {"put", "clear"}
         /\ "forget" \in Elems(Answered(t, r.kind)) => call[t] = "deactivate"
         /\ Elems(Answered(t, r.kind)) \cap {"see", "merge"} # {} =>
              /\ call[t] \notin {"deactivate", "keyless"} /\ r.kind # "failure"
              /\ call[t] = "activate" => "merge" \in Elems(Answered(t, r.kind))
<1> DEFINE Beacon == <<"arm", "snap", "write", "current">>
           Kept5  == <<"merge", "snap", "write", "see", "put">>
           Kept8  == <<"merge", "snap", "write", "anchor", "snap", "write", "see", "put">>
           Gone   == <<"unlease", "snap", "write", "see", "put">>
           Lasts  == {<<>>, <<"grace">>, <<"see", "put">>, Kept5, Kept8, Gone}
<1>1. r.kind \in {"granted", "bare", "revoked", "failure"}
  BY DEF Replies, Word
<1>2. /\ call[t] = "deactivate" => Answered(t, r.kind) = <<"forget">>
      /\ call[t] = "keyless" => Answered(t, r.kind) \in {<<>>, Beacon}
      /\ call[t] \notin {"deactivate", "keyless"} => Answered(t, r.kind) \in Lasts
  <2> HIDE DEF Beacon, Kept5, Kept8, Gone
  <2>1. /\ Set = <<"see", "put">> /\ <<"arm">> \o Save \o <<"current">> = Beacon
        /\ <<"merge">> \o Save \o Set = Kept5 /\ <<"unlease">> \o Save \o Set = Gone
        /\ <<"merge">> \o Save \o <<"anchor">> \o Save \o Set = Kept8
    BY WrittenOut DEF Save, Set, Beacon, Kept5, Kept8, Gone
  <2>2. CASE call[t] \in {"deactivate", "keyless"}
    BY <2>1, <2>2 DEF Answered
  <2>3. CASE call[t] = "activate"
    BY <2>1, <2>3 DEF Answered
  <2>4. CASE call[t] \notin {"deactivate", "keyless", "activate"}
    <3>1. CASE r.kind = "granted"
      BY <2>1, <2>4, <3>1 DEF Answered
    <3>2. CASE r.kind = "bare"
      BY <2>1, <2>4, <3>2 DEF Answered
    <3>3. CASE r.kind = "revoked"
      BY <2>1, <2>4, <3>3 DEF Answered
    <3>4. CASE r.kind = "failure"
      BY <2>1, <2>4, <3>4 DEF Answered
    <3> QED BY <1>1, <3>1, <3>2, <3>3, <3>4
  <2> QED BY <2>2, <2>3, <2>4
<1>3. Answered(t, r.kind) \in Lasts \cup {<<"forget">>, Beacon}
  BY <1>2
<1>4. Plan(Answered(t, r.kind))
  BY <1>3, Plans
<1>5. Elems(Answered(t, r.kind)) \subseteq
        {"forget", "grace", "see", "put", "arm", "snap", "write", "current", "merge", "unlease", "anchor"}
  BY <1>3, Listed
<1>6. Answered(t, r.kind) \in Lasts => Elems(Answered(t, r.kind)) \cap {"arm", "forget"} = {}
  BY Listed
<1>7. Elems(Beacon) = {"arm", "snap", "write", "current"} /\ Elems(<<>>) = {}
      /\ Elems(<<"forget">>) = {"forget"}
  BY Listed
<1>8. Answered(t, r.kind) # <<>> =>
        Head(Answered(t, r.kind)) \in {"forget", "grace", "see", "arm", "merge", "unlease"}
  BY <1>3
<1>9. "arm" \in Elems(Answered(t, r.kind)) => call[t] = "keyless"
  BY <1>2, <1>6, <1>7
<1>10. "forget" \in Elems(Answered(t, r.kind)) => call[t] = "deactivate"
  BY <1>2, <1>6, <1>7
<1>11. ASSUME Elems(Answered(t, r.kind)) \cap {"see", "merge"} # {}
       PROVE  /\ call[t] \notin {"deactivate", "keyless"} /\ r.kind # "failure"
              /\ call[t] = "activate" => "merge" \in Elems(Answered(t, r.kind))
  <2>1. call[t] \notin {"deactivate", "keyless"}
    BY <1>2, <1>7, <1>11
  <2>2. r.kind # "failure"
    <3>1. ASSUME r.kind = "failure" PROVE Answered(t, r.kind) \in {<<>>, <<"grace">>}
      <4>1. CASE call[t] = "activate"
        BY <3>1, <4>1 DEF Answered
      <4>2. CASE call[t] # "activate"
        BY <2>1, <3>1, <4>2 DEF Answered
      <4> QED BY <4>1, <4>2
    <3>2. Elems(<<>>) = {} /\ Elems(<<"grace">>) = {"grace"}
      BY Listed
    <3> QED BY <1>11, <3>1, <3>2
  <2>3. call[t] = "activate" => "merge" \in Elems(Answered(t, r.kind))
    <3>1. ASSUME call[t] = "activate" PROVE Answered(t, r.kind) \in {<<>>, Kept5, Kept8}
      <4>1. /\ <<"merge">> \o Save \o Set = Kept5
            /\ <<"merge">> \o Save \o <<"anchor">> \o Save \o Set = Kept8
        BY WrittenOut DEF Save, Set
      <4> HIDE DEF Kept5, Kept8
      <4> QED BY <3>1, <4>1 DEF Answered
    <3>2. "merge" \in Elems(Kept5) /\ "merge" \in Elems(Kept8) /\ Elems(<<>>) = {}
      BY Listed
    <3> HIDE DEF Kept5, Kept8
    <3> QED BY <1>11, <3>1, <3>2
  <2> QED BY <2>1, <2>2, <2>3
<1> QED BY <1>4, <1>5, <1>8, <1>9, <1>10, <1>11 DEF Minting
\* Steps that put the answer or the next part of the call before the rest.
LEMMA PushControl ==
  ASSUME Control, NEW t \in Threads,
         Serve(t) \/ Forget(t) \/ Stamp(t) \/ Mint(t) \/ See(t) \/ Current(t) \/ Put(t)
           \/ Overdue(t) \/ Compare(t)
  PROVE  Control'
<1>1. TypeOK /\ Lists /\ Ready(t)
  BY DEF Control
<1>p. \A s : Plan(s) => Elems(s) \cap Early = {}
  BY DEF Plan
<1>2. CASE Serve(t)
  <2>1. PICK r \in Replies : Then(t, Answered(t, r.kind)) /\ reply' = [reply EXCEPT ![t] = r]
    BY <1>2 DEF Serve
  <2> DEFINE s == Answered(t, r.kind)
  <2>2. /\ Plan(s) /\ "compare" \notin Elems(s) /\ ("arm" \in Elems(s) => call[t] = "keyless")
        /\ s # <<>> => Head(s) # "put"
    BY AnsweredShape
  <2> HIDE DEF s
  <2>3. At(t, "serve") /\ UNCHANGED <<call, new, before>> /\ reply'[t] = r
        /\ \A u \in Threads \ {t} : reply'[u] = reply[u]
    BY <1>1, <1>2, <2>1 DEF Serve, TypeOK
  <2>4. Then(t, s) /\ todo[t] # <<>> /\ Head(todo[t]) = "serve"
    BY <2>1, <2>3 DEF s, At
  <2>5. Lists' /\ \A u \in Threads : Ready(u)'
    BY <2>2, <2>3, <2>4, Kept DEF Early
  <2>6. TypeOK'
    <3>1. sent' \in [Threads -> BOOLEAN] /\ reply' \in [Threads -> Replies \cup {None}]
      BY <1>1, <1>2, <2>1 DEF Serve, TypeOK
    <3> QED BY <1>1, <1>2, <2>5, <3>1 DEF Serve, TypeOK, client, past, Lists
  <2> QED BY <2>5, <2>6 DEF Control
<1>3. CASE Forget(t)
  <2>1. \E s \in {<<"snap", "writeOrFail", "see", "put">>, <<"clear", "see", "put">>} : Then(t, s)
    BY <1>3, WrittenOut DEF Forget, Set
  <2>2. PICK s \in {<<"snap", "writeOrFail", "see", "put">>, <<"clear", "see", "put">>} : Then(t, s)
    BY <2>1
  <2>3. /\ Plan(s) /\ s # <<>> /\ Head(s) \in {"snap", "clear"}
        /\ Elems(s) \subseteq {"snap", "writeOrFail", "see", "put", "clear"}
    BY Plans, Listed
  <2>4. At(t, "forget") /\ UNCHANGED <<call, new, reply, before>>
    BY <1>3 DEF Forget, Update, mine
  <2>5. Lists' /\ \A u \in Threads : Ready(u)'
    BY <2>2, <2>3, <2>4, Kept DEF At, Early
  <2>6. cache' \in Cache
    <3>1. 0 \in 0 .. MaxRev
      BY RacesAssumption
    <3> QED BY <1>1, <1>3, <3>1 DEF Forget, Update, TypeOK, Cache
  <2>7. TypeOK'
    BY <1>1, <1>3, <2>5, <2>6 DEF Forget, Update, TypeOK, mine, Lists
  <2> QED BY <2>5, <2>7 DEF Control
<1>4. CASE Stamp(t)
  <2>1. PICK s \in {<<"mint", "current">>, <<"snap", "write", "mint", "current">>} : Then(t, s)
    <3>1. <<>> \o <<"mint", "current">> = <<"mint", "current">>
      OBVIOUS
    <3> QED BY <1>4, <3>1, WrittenOut DEF Stamp, Save
  <2>2. /\ Plan(s) /\ s # <<>> /\ Head(s) \in {"mint", "snap"}
        /\ Elems(s) \subseteq {"mint", "current", "snap", "write"}
    BY Plans, Listed
  <2>3. At(t, "stamp") /\ UNCHANGED <<call, new, reply, before>>
    BY <1>4 DEF Stamp, Update, mine
  <2>4. Lists' /\ \A u \in Threads : Ready(u)'
    BY <2>1, <2>2, <2>3, Kept DEF At, Early
  <2>5. cache' \in Cache
    BY <1>1, <1>4 DEF Stamp, Update, TypeOK, Cache
  <2>6. TypeOK'
    BY <1>1, <1>4, <2>4, <2>5 DEF Stamp, Update, TypeOK, mine, past, Lists
  <2> QED BY <2>4, <2>6 DEF Control
<1>5. CASE Mint(t)
  <2>1. At(t, "mint") /\ UNCHANGED <<call, new, reply, before>>
    BY <1>5 DEF Mint, Update, mine
  <2>2. Then(t, <<>>) \/ Then(t, <<"snap", "writeId">>)
    BY <1>5 DEF Mint, Next1
  <2>3. PICK s \in {<<>>, <<"snap", "writeId">>} : Then(t, s)
    BY <2>2
  <2>4. Plan(s) /\ Elems(s) \subseteq {"snap", "writeId"} /\ (s # <<>> => Head(s) = "snap")
    BY Plans, Listed
  <2>5. Lists' /\ \A u \in Threads : Ready(u)'
    BY <2>1, <2>3, <2>4, Kept DEF At, Early
  <2>6. cache' \in Cache
    BY <1>1, <1>5 DEF Mint, Update, TypeOK, Cache
  <2>7. TypeOK'
    BY <1>1, <1>5, <2>5, <2>6 DEF Mint, Update, TypeOK, mine, past, Lists
  <2> QED BY <2>5, <2>7 DEF Control
<1>6. CASE See(t)
  <2>1. Resolved(t) \in State
    BY <1>1 DEF TypeOK, Resolved, ResolveWithTrial, Paid, State
  <2>2. /\ At(t, "see") /\ Then(t, <<>>) /\ UNCHANGED <<call, reply, before>>
        /\ new' = [new EXCEPT ![t] = Resolved(t)]
    BY <1>6 DEF See, Sees, Next1
  <2>3. new'[t] \in State /\ (\A u \in Threads \ {t} : new'[u] = new[u])
        /\ new' \in [Threads -> State \cup {None}]
    BY <1>1, <2>1, <2>2 DEF TypeOK
  <2>4. Plan(<<>>) /\ Elems(<<>>) = {}
    BY Plans, Listed
  <2>5. Lists' /\ \A u \in Threads : Ready(u)'
    BY <2>2, <2>3, <2>4, Kept DEF At, Early
  <2>6. TypeOK'
    BY <1>1, <1>6, <2>3, <2>5 DEF See, Sees, TypeOK, client, past, Lists
  <2> QED BY <2>5, <2>6 DEF Control
<1>7. CASE Current(t)
  <2>1. ResolveCurrent \in State
    BY <1>1 DEF TypeOK, ResolveCurrent, ResolveWithTrial, State
  <2>2. /\ At(t, "current") /\ Then(t, <<"put">>) /\ UNCHANGED <<call, reply, before>>
        /\ new' = [new EXCEPT ![t] = ResolveCurrent]
    BY <1>7 DEF Current, Sees
  <2>3. new'[t] \in State /\ (\A u \in Threads \ {t} : new'[u] = new[u])
        /\ new' \in [Threads -> State \cup {None}]
    BY <1>1, <2>1, <2>2 DEF TypeOK
  <2>4. Plan(<<"put">>) /\ Elems(<<"put">>) = {"put"} /\ Head(<<"put">>) = "put"
    BY Plans, Listed
  <2>5. Lists' /\ \A u \in Threads : Ready(u)'
    BY <2>2, <2>3, <2>4, Kept DEF At, Early
  <2>6. TypeOK'
    BY <1>1, <1>7, <2>3, <2>5 DEF Current, Sees, TypeOK, client, past, Lists
  <2> QED BY <2>5, <2>6 DEF Control
<1>8. CASE Put(t)
  <2>1. new[t] \in State
    BY <1>1, <1>8 DEF Put, Ready
  <2>2. /\ At(t, "put") /\ Then(t, <<>>) /\ UNCHANGED <<call, before>>
        /\ new' = [new EXCEPT ![t] = None] /\ reply' = [reply EXCEPT ![t] = None]
    BY <1>8 DEF Put, Next1
  <2>3. /\ \A u \in Threads \ {t} : new'[u] = new[u] /\ reply'[u] = reply[u]
        /\ new' \in [Threads -> State \cup {None}] /\ reply' \in [Threads -> Replies \cup {None}]
    BY <1>1, <2>2 DEF TypeOK
  <2>4. Plan(<<>>) /\ Elems(<<>>) = {}
    BY Plans, Listed
  <2>5. Lists' /\ \A u \in Threads : Ready(u)'
    BY <2>2, <2>3, <2>4, Kept DEF At, Early
  <2>6. TypeOK'
    BY <1>1, <1>8, <2>1, <2>3, <2>5 DEF Put, TypeOK, past, Lists
  <2> QED BY <2>5, <2>6 DEF Control
<1>9. CASE Overdue(t)
  <2>1. At(t, "due") /\ Then(t, <<"ask", "serve">>) /\ UNCHANGED <<call, new, reply, before>>
    BY <1>9 DEF Overdue, Round, mine
  <2>2. Plan(<<"ask", "serve">>) /\ Elems(<<"ask", "serve">>) = {"ask", "serve"}
        /\ Head(<<"ask", "serve">>) = "ask"
    BY Plans, Listed
  <2>3. Lists' /\ \A u \in Threads : Ready(u)'
    BY <2>1, <2>2, Kept DEF At, Early
  <2>4. TypeOK'
    BY <1>1, <1>9, <2>3 DEF Overdue, TypeOK, client, mine, past, Lists
  <2> QED BY <2>3, <2>4 DEF Control
<1>10. CASE Compare(t)
  <2>1. At(t, "compare") /\ UNCHANGED <<call, new, reply>>
        /\ \A u \in Threads \ {t} : before'[u] = before[u]
    BY <1>1, <1>10 DEF Compare, TypeOK
  <2>2. PICK s \in {<<>>, <<"ask", "serve", "compare">>} : Then(t, s)
    BY <1>10, WrittenOut DEF Compare, Round, Next1
  <2>3. /\ Plan(s) /\ Elems(s) \subseteq {"ask", "serve", "compare"}
        /\ s # <<>> => Head(s) = "ask"
    <3>1. CASE s = <<>>
      BY <3>1, Plans, Listed
    <3>2. CASE s = <<"ask", "serve", "compare">>
      BY <3>2, Plans, Listed
    <3> QED BY <3>1, <3>2
  <2>4. call[t] # "keyless"
    <3>1. "compare" \in Elems(todo[t])
      BY <1>1, <2>1, Popped DEF At, Lists
    <3> QED BY <1>1, <3>1 DEF Ready
  <2>5. Lists' /\ \A u \in Threads : Ready(u)'
    BY <2>1, <2>2, <2>3, <2>4, Kept DEF At, Early
  <2>6. before' \in [Threads -> ((0 .. MaxRev) \X State) \cup {<<0, "trial">>, <<0, "expired">>, None}]
    <3>1. <<cache.lease, state_>> \in (0 .. MaxRev) \X State
      BY <1>1 DEF TypeOK, Cache
    <3> QED BY <1>1, <1>10, <3>1 DEF Compare, TypeOK
  <2>7. TypeOK'
    BY <1>1, <1>10, <2>5, <2>6 DEF Compare, TypeOK, client, past, Lists
  <2> QED BY <2>5, <2>7 DEF Control
<1> QED BY <1>2, <1>3, <1>4, <1>5, <1>6, <1>7, <1>8, <1>9, <1>10
\* Steps that may break the call off.
LEMMA CutControl ==
  ASSUME Control, NEW t \in Threads,
         Unmint(t) \/ Grace(t) \/ HasKey(t) \/ Window(t) \/ Debounce(t) \/ Write(t)
  PROVE  Control'
<1>1. TypeOK /\ Lists /\ Ready(t)
  BY DEF Control
<1>2. Plan(<<>>) /\ Elems(<<>>) = {}
  BY Plans, Listed
<1>3. CASE Unmint(t)
  <2>1. At(t, "unmint") /\ UNCHANGED <<call, new, reply, before>>
        /\ (Instead(t, <<>>) \/ Then(t, <<>>))
    BY <1>3 DEF Unmint, Update, mine, Next1
  <2>2. call[t] = "keyless" => before[t] \in Beacons
    BY <2>1, Underway DEF At, Early
  <2>3. Lists' /\ \A u \in Threads : Ready(u)'
    BY <1>2, <2>1, <2>2, Kept, Broken DEF At, Early
  <2>4. cache' \in Cache
    BY <1>1, <1>3 DEF Unmint, Update, TypeOK, Cache
  <2>5. TypeOK'
    BY <1>1, <1>3, <2>3, <2>4 DEF Unmint, Update, TypeOK, mine, past, Lists
  <2> QED BY <2>3, <2>5 DEF Control
<1>4. CASE Grace(t)
  <2>1. /\ At(t, "grace") /\ UNCHANGED <<call, reply, before>>
        /\ \/ Then(t, <<"put">>) /\ new' = [new EXCEPT ![t] = "Expired"]
           \/ Then(t, <<>>) /\ new' = [new EXCEPT ![t] = None]
    BY <1>4 DEF Grace, Sees, Next1
  <2>2. \A u \in Threads \ {t} : new'[u] = new[u]
    BY <1>1, <2>1 DEF TypeOK
  <2>3. new' \in [Threads -> State \cup {None}]
    BY <1>1, <2>1 DEF TypeOK, State
  <2>4. Plan(<<"put">>) /\ Elems(<<"put">>) = {"put"} /\ Head(<<"put">>) = "put"
    BY Plans, Listed
  <2>5. Lists' /\ \A u \in Threads : Ready(u)'
    <3>1. CASE Then(t, <<>>)
      BY <1>2, <2>1, <2>2, <3>1, Kept DEF At, Early
    <3>2. CASE Then(t, <<"put">>) /\ new' = [new EXCEPT ![t] = "Expired"]
      <4>1. new'[t] \in State
        BY <1>1, <3>2 DEF TypeOK, State
      <4> QED BY <2>1, <2>2, <2>4, <3>2, <4>1, Kept DEF At, Early
    <3> QED BY <2>1, <3>1, <3>2
  <2>6. TypeOK'
    BY <1>1, <1>4, <2>3, <2>5 DEF Grace, Sees, TypeOK, client, past, Lists
  <2> QED BY <2>5, <2>6 DEF Control
<1>5. CASE HasKey(t) \/ Window(t)
  <2>1. /\ \E step \in {"haskey", "window"} : At(t, step)
        /\ UNCHANGED <<call, new, reply, before>>
        /\ \E s \in {<<>>, <<"current">>} : Instead(t, s) \/ Then(t, <<>>)
    BY <1>5 DEF HasKey, Window, mine, Next1
  <2>2. call[t] # "keyless"
    <3>1. Head(todo[t]) \in Elems(todo[t]) /\ Head(todo[t]) \in {"haskey", "window"}
      BY <1>1, <2>1, Popped DEF At, Lists
    <3> QED BY <1>1, <3>1 DEF Ready, Early
  <2>3. Lists' /\ \A u \in Threads : Ready(u)'
    BY <1>2, <2>1, <2>2, Kept, Broken DEF At, Early
  <2>4. minute' \in BOOLEAN /\ forced' \in Nat
    <3>1. CASE HasKey(t)
      BY <1>1, <3>1 DEF HasKey, TypeOK, client, past
    <3>2. CASE Window(t)
      BY <1>1, <3>2 DEF Window, TypeOK
    <3> QED BY <1>5, <3>1, <3>2
  <2>5. TypeOK'
    BY <1>1, <1>5, <2>3, <2>4 DEF HasKey, Window, TypeOK, client, mine, past, Lists
  <2> QED BY <2>3, <2>5 DEF Control
<1>6. CASE Debounce(t)
  <2>1. PICK w \in Beacons : /\ At(t, "debounce") /\ UNCHANGED <<call, new, reply>>
                             /\ before' = [before EXCEPT ![t] = w]
                             /\ Instead(t, <<>>) \/ Then(t, <<>>)
    BY <1>6 DEF Debounce, Beacons, Next1
  <2>2. before'[t] = w /\ \A u \in Threads \ {t} : before'[u] = before[u]
    BY <1>1, <2>1 DEF TypeOK
  <2>3. Lists' /\ \A u \in Threads : Ready(u)'
    BY <1>2, <2>1, <2>2, Kept, Broken DEF At, Early
  <2>4. before' \in [Threads -> ((0 .. MaxRev) \X State) \cup {<<0, "trial">>, <<0, "expired">>, None}]
    BY <1>1, <2>1 DEF TypeOK, Beacons
  <2>5. TypeOK'
    BY <1>1, <1>6, <2>3, <2>4 DEF Debounce, TypeOK, client, past, Lists
  <2> QED BY <2>3, <2>5 DEF Control
<1>7. CASE Write(t)
  <2>1. /\ \E step \in Writes : At(t, step)
        /\ UNCHANGED <<call, new, reply, before>>
        /\ \E s \in {<<>>, <<"reread">>, <<"unmint">>} : Then(t, s) \/ Instead(t, <<>>)
        /\ Instead(t, <<>>) => Then(t, <<>>) \/ At(t, "writeOrFail") \/ At(t, "write") \/ At(t, "writeId")
    BY <1>7 DEF Write, Written, Writes, Next1
  <2>2. call[t] = "keyless" => before[t] \in Beacons
    BY <2>1, Underway DEF At, Writes, Early
  <2>3. /\ Plan(<<"reread">>) /\ Elems(<<"reread">>) = {"reread"} /\ Head(<<"reread">>) = "reread"
        /\ Plan(<<"unmint">>) /\ Elems(<<"unmint">>) = {"unmint"} /\ Head(<<"unmint">>) = "unmint"
    BY Plans, Listed
  <2>4. Lists' /\ \A u \in Threads : Ready(u)'
    <3>1. CASE Instead(t, <<>>)
      BY <2>1, <2>2, <3>1, Broken DEF At
    <3>2. CASE \E s \in {<<>>, <<"reread">>, <<"unmint">>} : Then(t, s)
      <4>1. PICK s \in {<<>>, <<"reread">>, <<"unmint">>} : Then(t, s)
        BY <3>2
      <4>2. Plan(s) /\ Elems(s) \subseteq {"reread", "unmint"} /\ (s # <<>> => Head(s) \in {"reread", "unmint"})
        BY <1>2, <2>3
      <4> QED BY <2>1, <4>1, <4>2, Kept DEF At, Early, Writes
    <3> QED BY <2>1, <3>1, <3>2
  <2>5. disk' \in Cache \cup {None} /\ snap' \in [Threads -> Cache \cup {None}]
        /\ saver' \in Threads \cup {None}
    BY <1>1, <1>7 DEF Write, Written, TypeOK
  <2>6. TypeOK'
    BY <1>1, <1>7, <2>4, <2>5 DEF Write, Written, TypeOK, past, Lists
  <2> QED BY <2>4, <2>6 DEF Control
<1> QED BY <1>3, <1>4, <1>5, <1>6, <1>7

\* What the server decides and the clock do.
LEMMA OutsideControl ==
  ASSUME Control, Decide \/ MinutePasses \/ DayPasses \/ UNCHANGED vars
  PROVE  Control'
<1>1. TypeOK /\ Lists /\ \A t \in Threads : Ready(t)
  BY DEF Control
<1>2. UNCHANGED <<todo, call, new, reply, before>>
  BY DEF Decide, MinutePasses, DayPasses, vars, mine
<1>3. Lists' /\ \A t \in Threads : Ready(t)'
  BY <1>1, <1>2 DEF Lists, Ready, At
<1>4. TypeOK'
  <2>1. CASE Decide
    <3>1. word' \in Word
      BY <1>1, <2>1, RacesAssumption DEF Decide, TypeOK, Word
    <3> QED BY <1>1, <2>1, <3>1 DEF Decide, TypeOK, client, mine, past
  <2>2. CASE MinutePasses
    BY <1>1, <2>2 DEF MinutePasses, TypeOK, mine
  <2>3. CASE DayPasses
    <3>1. cache' \in Cache
      BY <1>1, <2>3 DEF DayPasses, TypeOK, Cache
    <3> QED BY <1>1, <2>3, <3>1 DEF DayPasses, TypeOK, mine, past
  <2>4. CASE UNCHANGED vars
    BY <1>1, <2>4 DEF vars, TypeOK, client, mine, past
  <2> QED BY <2>1, <2>2, <2>3, <2>4
<1> QED BY <1>3, <1>4 DEF Control

\* Every step keeps Control.
LEMMA ControlStep ==
  ASSUME Control, [Next]_vars
  PROVE  Control'
BY CallControl, ReturnControl, PopControl, PushControl, CutControl, OutsideControl
   DEF Next, Step

----------------------------------------------------------------------------
\* Every variable keeps its type, and with it each thread its place in its call:
\* any threads, calls and words of the server.
THEOREM TypeCorrect == Spec => []TypeOK
<1>1. Init => Control
  BY ControlInit
<1>2. Control /\ [Next]_vars => Control'
  BY ControlStep
<1>3. Control => TypeOK
  BY DEF Control
<1> QED BY <1>1, <1>2, <1>3, PTL DEF Spec

\* So does Control itself.
LEMMA Controlled == Spec => []Control
<1>1. Control /\ [Next]_vars => Control'
  BY ControlStep
<1> QED BY ControlInit, <1>1, PTL DEF Spec

\* activeRevalidate() tests and opens its window in one critical section: however
\* many threads press the button, one request goes out per minute.
THEOREM OneRequestAMinute == Spec => []OneForced
<1> DEFINE I == forced \in Nat /\ forced <= 1 /\ (~minute => forced = 0)
<1>1. Init => I
  BY DEF Init
<1>2. I /\ [Next]_vars => I'
  <2> SUFFICES ASSUME I, [Next]_vars PROVE I'
    OBVIOUS
  <2>1. ASSUME NEW t \in Threads, Window(t) PROVE I'
    BY <2>1 DEF Window
  <2>2. CASE MinutePasses
    BY <2>2 DEF MinutePasses
  <2>3. ASSUME UNCHANGED <<minute, forced>> PROVE I'
    BY <2>3
  <2>4. ASSUME NEW t \in Threads, Step(t), ~Window(t) PROVE UNCHANGED <<minute, forced>>
    BY <2>4 DEF Step, Ask, Serve, Return, Merge, Anchor, Unlease, Forget, Clear, Stamp, Snap, Write,
      Written, Mint, Reread, Unmint, See, Current, Sees, Grace, Put, HasKey, Due, Overdue, Compare,
      Debounce, Arm, client, past
  <2>5. ASSUME NEW t \in Threads, NEW c \in DOMAIN Script, Call(t, c) PROVE UNCHANGED <<minute, forced>>
    BY <2>5 DEF Call, client
  <2>6. ASSUME Decide \/ DayPasses \/ UNCHANGED vars PROVE UNCHANGED <<minute, forced>>
    BY <2>6 DEF Decide, DayPasses, vars, client, past
  <2> QED BY <2>1, <2>2, <2>3, <2>4, <2>5, <2>6 DEF Next
<1>3. I => OneForced
  BY DEF OneForced
<1> QED BY <1>1, <1>2, <1>3, PTL DEF Spec
----------------------------------------------------------------------------
AtWrite(t) == todo[t] # <<>> /\ Head(todo[t]) \in Writes
Minter(t)  == Elems(todo[t]) \cap Minting # {}

\* What a step that puts s before the rest does to what t has still to do.
LEMMA Core ==
  ASSUME Control, NEW t \in Threads, todo[t] # <<>>, NEW s, Plan(s), Then(t, s),
         s = <<>> \/ Head(todo[t]) \notin {"snap", "see"} \cup Early
  PROVE  /\ \A u \in Threads \ {t} : todo'[u] = todo[u]
         /\ Elems(todo'[t]) = Elems(s) \cup Elems(Tail(todo[t]))
         /\ Elems(todo'[t]) \subseteq Elems(s) \cup Elems(todo[t])
         /\ Elems(todo[t]) \ {Head(todo[t])} \subseteq Elems(todo'[t])
         /\ Head(todo[t]) \in Elems(todo[t])
         /\ AtWrite(t)' => Head(todo[t]) = "snap"
         /\ Head(todo[t]) = "snap" => AtWrite(t)'
         /\ Head(todo[t]) # "snap" => Elems(todo'[t]) \cap Minting = Elems(s) \cap Minting
         /\ Head(todo[t]) \in Changes => "snap" \in Elems(todo'[t])
         /\ s # <<>> => todo'[t] # <<>> /\ Head(todo'[t]) = Head(s)
         /\ s = <<>> => todo'[t] = Tail(todo[t])
<1> DEFINE q == todo[t]
<1>1. Lists /\ q \in Seq(Labels) /\ q # <<>> /\ Shape(q)
  BY DEF Control, Lists
<1>2. /\ \A u \in Threads \ {t} : todo'[u] = todo[u]
      /\ Elems(todo'[t]) = Elems(s) \cup Elems(Tail(q))
      /\ s # <<>> => todo'[t] # <<>> /\ Head(todo'[t]) = Head(s)
      /\ s = <<>> => todo'[t] = Tail(q)
  BY <1>1, Goes
<1> HIDE DEF q
<1>3. /\ Elems(q) = {Head(q)} \cup Elems(Tail(q))
      /\ Tail(q) # <<>> /\ Head(Tail(q)) \in Writes => Head(q) = "snap"
      /\ Head(q) = "snap" => Tail(q) # <<>> /\ Head(Tail(q)) \in Writes
      /\ Head(q) # "snap" => Elems(Tail(q)) \cap Minting = {}
      /\ Head(q) \in Changes => "snap" \in Elems(Tail(q))
  BY <1>1, Popped
<1>4. s # <<>> => Head(s) \notin Writes
  BY DEF Plan
<1>5. AtWrite(t)' <=> todo'[t] # <<>> /\ Head(todo'[t]) \in Writes
  BY DEF AtWrite
<1>6. AtWrite(t)' => Head(q) = "snap"
  BY <1>2, <1>3, <1>4, <1>5
<1>7. Head(q) = "snap" => AtWrite(t)'
  BY <1>2, <1>3, <1>5 DEF q
<1> QED BY <1>2, <1>3, <1>6, <1>7 DEF q

\* A step that only goes on.
LEMMA Onward ==
  ASSUME Control, NEW t \in Threads, todo[t] # <<>>, Next1(t)
  PROVE  /\ \A u \in Threads \ {t} : todo'[u] = todo[u]
         /\ Elems(todo'[t]) = Elems(Tail(todo[t])) /\ Elems(todo'[t]) \subseteq Elems(todo[t])
         /\ Elems(todo[t]) \ {Head(todo[t])} \subseteq Elems(todo'[t])
         /\ Head(todo[t]) \in Elems(todo[t])
         /\ AtWrite(t)' => Head(todo[t]) = "snap"
         /\ Head(todo[t]) = "snap" => AtWrite(t)'
         /\ Head(todo[t]) # "snap" => ~Minter(t)'
         /\ Head(todo[t]) \in Changes => "snap" \in Elems(todo'[t])
         /\ todo'[t] = Tail(todo[t])
<1>1. Plan(<<>>) /\ Elems(<<>>) = {} /\ Then(t, <<>>)
  BY Plans, Listed DEF Next1
<1> QED BY <1>1, Core DEF Minter

\* A step that breaks the call off.
LEMMA Off ==
  ASSUME Control, NEW t \in Threads, NEW s \in {<<>>, <<"current">>}, Instead(t, s)
  PROVE  /\ \A u \in Threads \ {t} : todo'[u] = todo[u]
         /\ Elems(todo'[t]) \subseteq {"current"} /\ ~AtWrite(t)' /\ ~Minter(t)'
<1>1. Lists /\ s \in Seq(Labels) /\ Shape(s)
  BY Plans DEF Control, Plan
<1>2. todo'[t] = s /\ \A u \in Threads \ {t} : todo'[u] = todo[u]
  BY <1>1, Cuts
<1>3. Elems(s) \subseteq {"current"}
  BY Listed
<1> QED BY <1>2, <1>3 DEF AtWrite, Minter, Writes, Minting

\* Which step a thread takes is known from what it is to do next.
LEMMA Doing ==
  ASSUME NEW t \in Threads, Step(t)
  PROVE  /\ todo[t] = <<>> => Return(t)
         /\ At(t, "snap") <=> Snap(t)
         /\ At(t, "merge") <=> Merge(t)
         /\ At(t, "clear") <=> Clear(t)
         /\ At(t, "forget") <=> Forget(t)
         /\ At(t, "unmint") <=> Unmint(t)
         /\ At(t, "see") <=> See(t)
         /\ At(t, "put") <=> Put(t)
         /\ At(t, "ask") <=> Ask(t)
         /\ AtWrite(t) <=> Write(t)
<1> QED BY DEF Step, Ask, Serve, Return, Merge, Anchor, Unlease, Forget, Clear, Stamp, Snap, Write,
      Written, Mint, Reread, Unmint, See, Current, Grace, Put, HasKey, Due, Overdue, Window,
      Compare, Debounce, Arm, Update, At, AtWrite, Writes

\* The way a step of t goes: it returns, breaks the call off, or puts a plan before
\* the rest.  A plan mints only where there was no id and takes one back only where
\* saves fail; deactivate() alone forgets and drops the file; only an answer is
\* merged; and what is set was just resolved.
Halt(t) ==
  /\ todo[t] # <<>> /\ \E s \in {<<>>, <<"current">>} : Instead(t, s)
  /\ Head(todo[t]) \in Early \/ Unmint(t) \/ fails

Route(t, s) ==
  /\ Plan(s) /\ Then(t, s) /\ todo[t] # <<>>
  /\ s = <<>> \/ Head(todo[t]) \notin {"snap", "see"} \cup Early
  /\ Elems(s) \cap Minting # {} => (Mint(t) /\ cache.ftid = None) \/ At(t, "writeId")
  /\ "unmint" \in Elems(s) => fails
  /\ "clear" \in Elems(s) => Forget(t)
  /\ "forget" \in Elems(s) => call[t] = "deactivate"
  /\ Elems(s) \cap {"see", "merge"} # {} => Serve(t) \/ Forget(t)
  /\ s # <<>> /\ Head(s) = "put" => Current(t) \/ Grace(t)

LEMMA Routes ==
  ASSUME Control, NEW t \in Threads, Step(t)
  PROVE  Return(t) \/ Halt(t) \/ \E s : Route(t, s)
<1> DEFINE Goal == Return(t) \/ Halt(t) \/ \E s : Route(t, s)
<1> SUFFICES Goal
  OBVIOUS
<1>1. Plan(<<>>) /\ Elems(<<>>) = {}
  BY Plans, Listed
<1>2. ASSUME Then(t, <<>>), todo[t] # <<>> PROVE Goal
  <2>1. Route(t, <<>>)
    BY <1>1, <1>2 DEF Route
  <2> QED BY <2>1
<1>3. ASSUME NEW s, Plan(s), Then(t, s), todo[t] # <<>>,
             Elems(s) \cap (Minting \cup {"clear", "forget", "see", "merge"}) = {},
             s # <<>> => Head(s) # "put",
             Head(todo[t]) \notin {"snap", "see"} \cup Early
      PROVE  Goal
  <2>1. Route(t, s)
    BY <1>3 DEF Route, Minting
  <2> QED BY <2>1
<1>4. ASSUME Instead(t, <<>>) \/ Instead(t, <<"current">>), todo[t] # <<>>,
             Head(todo[t]) \in Early \/ Unmint(t) \/ fails
      PROVE  Goal
  BY <1>4 DEF Halt
<1> HIDE DEF Goal
<1>5. CASE Return(t)
  BY <1>5 DEF Goal
<1>6. CASE Ask(t) \/ Merge(t) \/ Anchor(t) \/ Unlease(t) \/ Clear(t) \/ Snap(t) \/ Reread(t)
           \/ Due(t) \/ Arm(t) \/ See(t) \/ Put(t)
  <2>1. Then(t, <<>>) /\ todo[t] # <<>>
    BY <1>6 DEF Ask, Merge, Anchor, Unlease, Clear, Snap, Reread, Due, Arm, See, Put, Update, At,
                Next1
  <2> QED BY <1>2, <2>1
<1>7. CASE HasKey(t) \/ Window(t) \/ Debounce(t) \/ Unmint(t)
  <2>1. /\ todo[t] # <<>> /\ (Then(t, <<>>) \/ Instead(t, <<>>) \/ Instead(t, <<"current">>))
        /\ Head(todo[t]) \in Early \/ Unmint(t)
    BY <1>7 DEF HasKey, Window, Debounce, Unmint, Update, At, Next1, Early
  <2> QED BY <1>2, <1>4, <2>1
<1>8. CASE Serve(t)
  <2>1. PICK r \in Replies : Then(t, Answered(t, r.kind))
    BY <1>8 DEF Serve
  <2>2. todo[t] # <<>> /\ Head(todo[t]) = "serve"
    BY <1>8 DEF Serve, At
  <2> DEFINE s == Answered(t, r.kind)
  <2>3. /\ Plan(s) /\ Elems(s) \cap ({"unmint", "clear"} \cup Minting) = {}
        /\ s # <<>> => Head(s) # "put"
        /\ "forget" \in Elems(s) => call[t] = "deactivate"
    BY AnsweredShape
  <2> HIDE DEF s
  <2>4. Route(t, s)
    BY <1>8, <2>1, <2>2, <2>3 DEF Route, Early, s
  <2> QED BY <2>4 DEF Goal
<1>9. CASE Forget(t)
  <2>1. PICK s \in {<<"snap", "writeOrFail", "see", "put">>, <<"clear", "see", "put">>} : Then(t, s)
    BY <1>9, WrittenOut DEF Forget, Set
  <2>2. Plan(s) /\ Elems(s) \subseteq {"snap", "writeOrFail", "see", "put", "clear"}
    <3>1. CASE s = <<"clear", "see", "put">>
      BY <3>1, Plans, Listed
    <3>2. CASE s = <<"snap", "writeOrFail", "see", "put">>
      BY <3>2, Plans, Listed
    <3> QED BY <2>1, <3>1, <3>2
  <2>3. todo[t] # <<>> /\ Head(todo[t]) = "forget" /\ Head(s) # "put"
    BY <1>9, <2>1 DEF Forget, Update, At
  <2>4. Route(t, s)
    BY <1>9, <2>1, <2>2, <2>3 DEF Route, Early, Minting
  <2> QED BY <2>4 DEF Goal
<1>10. CASE Stamp(t)
  <2>1. PICK s \in {<<"mint", "current">>, <<"snap", "write", "mint", "current">>} : Then(t, s)
    <3>1. <<>> \o <<"mint", "current">> = <<"mint", "current">>
      OBVIOUS
    <3> QED BY <1>10, <3>1, WrittenOut DEF Stamp, Save
  <2>2. Plan(s) /\ Elems(s) \subseteq {"mint", "current", "snap", "write"}
    BY Plans, Listed
  <2>3. todo[t] # <<>> /\ Head(todo[t]) = "stamp" /\ Head(s) # "put"
    BY <1>10, <2>1 DEF Stamp, Update, At
  <2> QED BY <1>3, <2>1, <2>2, <2>3 DEF Early, Minting
<1>11. CASE Mint(t)
  <2>1. todo[t] # <<>> /\ Head(todo[t]) = "mint"
    BY <1>11 DEF Mint, Update, At
  <2>2. CASE Then(t, <<>>)
    BY <1>2, <2>1, <2>2
  <2>3. CASE Then(t, <<"snap", "writeId">>) /\ cache.ftid = None
    <3>1. Plan(<<"snap", "writeId">>) /\ Elems(<<"snap", "writeId">>) = {"snap", "writeId"}
      BY Plans, Listed
    <3>2. Route(t, <<"snap", "writeId">>)
      BY <1>11, <2>1, <2>3, <3>1 DEF Route, Early, Minting
    <3> QED BY <3>2 DEF Goal
  <2> QED BY <1>11, <2>2, <2>3 DEF Mint, Next1
<1>12. CASE Write(t)
  <2>1. CASE Then(t, <<>>) \/ (Instead(t, <<>>) /\ fails)
    <3>1. todo[t] # <<>>
      BY <1>12 DEF Write, Written, At
    <3> QED BY <1>2, <1>4, <2>1, <3>1
  <2>2. CASE At(t, "writeId") /\ \E s \in {<<"reread">>, <<"unmint">>} :
                                   Then(t, s) /\ (s = <<"unmint">> => fails)
    <3>1. PICK s \in {<<"reread">>, <<"unmint">>} : Then(t, s) /\ (s = <<"unmint">> => fails)
      BY <2>2
    <3>2. Plan(s) /\ ("unmint" \in Elems(s) => s = <<"unmint">>) /\ Head(s) # "put"
          /\ Elems(s) \subseteq {"reread", "unmint"}
      BY Plans, Listed
    <3>3. Route(t, s)
      BY <2>2, <3>1, <3>2 DEF Route, At, Early
    <3> QED BY <3>3 DEF Goal
  <2>3. <<"reread">> # <<"unmint">>
    OBVIOUS
  <2> QED BY <1>12, <2>1, <2>2, <2>3 DEF Write, Written, Next1
<1>13. CASE Current(t) \/ Grace(t) \/ Overdue(t)
  <2>1. /\ todo[t] # <<>> /\ Head(todo[t]) \in {"current", "grace", "due"}
        /\ \E s \in {<<>>, <<"put">>, <<"ask", "serve">>} :
             Then(t, s) /\ (s = <<"put">> => Current(t) \/ Grace(t))
    BY <1>13 DEF Current, Grace, Overdue, At, Next1, Round
  <2>2. PICK s \in {<<>>, <<"put">>, <<"ask", "serve">>} :
               Then(t, s) /\ (s = <<"put">> => Current(t) \/ Grace(t))
    BY <2>1
  <2>3. Plan(s) /\ Elems(s) \subseteq {"put", "ask", "serve"}
        /\ (s # <<>> /\ Head(s) = "put" => s = <<"put">>)
    <3>1. CASE s = <<>>
      BY <3>1, Plans, Listed
    <3>2. CASE s = <<"put">>
      BY <3>2, Plans, Listed
    <3>3. CASE s = <<"ask", "serve">>
      BY <3>3, Plans, Listed
    <3> QED BY <2>2, <3>1, <3>2, <3>3
  <2>4. Route(t, s)
    BY <2>1, <2>2, <2>3 DEF Route, Early, Minting
  <2> QED BY <2>4 DEF Goal
<1>14. CASE Compare(t)
  <2>1. PICK s \in {<<>>, <<"ask", "serve", "compare">>} : Then(t, s)
    BY <1>14, WrittenOut DEF Compare, Round, Next1
  <2>2. Plan(s) /\ Elems(s) \subseteq {"ask", "serve", "compare"} /\ (s # <<>> => Head(s) # "put")
    <3>1. CASE s = <<>>
      BY <3>1, Plans, Listed
    <3>2. CASE s = <<"ask", "serve", "compare">>
      BY <3>2, Plans, Listed
    <3> QED BY <3>1, <3>2
  <2>3. todo[t] # <<>> /\ Head(todo[t]) = "compare"
    BY <1>14 DEF Compare, At
  <2> QED BY <1>3, <2>1, <2>2, <2>3 DEF Early, Minting
<1> QED BY <1>5, <1>6, <1>7, <1>8, <1>9, <1>10, <1>11, <1>12, <1>13, <1>14 DEF Step, Goal

\* What is left to do after a step of t: who mints an id and who is to take one
\* back, who is about to write, and what else is pending.
LEMMA Moves ==
  ASSUME Control, NEW t \in Threads, Step(t)
  PROVE  /\ \A u \in Threads \ {t} : todo'[u] = todo[u]
         /\ Minter(t)' => Minter(t) \/ (Mint(t) /\ cache.ftid = None)
         /\ "unmint" \in Elems(todo'[t]) => "unmint" \in Elems(todo[t]) \/ fails
         /\ AtWrite(t)' <=> Snap(t)
         /\ "clear" \in Elems(todo'[t]) => Forget(t)
         /\ "forget" \in Elems(todo'[t]) => "forget" \in Elems(todo[t]) \/ call[t] = "deactivate"
         /\ Elems(todo'[t]) \cap {"see", "merge"} \subseteq Elems(todo[t]) \/ Serve(t) \/ Forget(t)
         /\ Elems(todo'[t]) \cap Early \subseteq Elems(todo[t])
         /\ At(t, "put")' => See(t) \/ Current(t) \/ Grace(t)
         /\ todo[t] # <<>> => \/ Elems(todo[t]) \ {Head(todo[t])} \subseteq Elems(todo'[t])
                             \/ Head(todo[t]) \in Early \/ Unmint(t) \/ fails
         /\ todo[t] # <<>> /\ Head(todo[t]) \in Changes => "snap" \in Elems(todo'[t])
<1>0. todo[t] \in Seq(Labels) /\ Shape(todo[t])
  BY DEF Control, Lists
<1>1. CASE Return(t)
  <2>1. todo' = todo /\ todo[t] = <<>>
    BY <1>1 DEF Return
  <2>2. Elems(todo[t]) = {} /\ ~AtWrite(t)' /\ ~Snap(t) /\ ~At(t, "put")'
    BY <2>1, Listed DEF AtWrite, Snap, At
  <2> QED BY <2>1, <2>2 DEF Minter
<1>2. CASE Halt(t)
  <2>1. PICK s \in {<<>>, <<"current">>} : Instead(t, s)
    BY <1>2 DEF Halt
  <2>2. /\ \A u \in Threads \ {t} : todo'[u] = todo[u]
        /\ Elems(todo'[t]) \subseteq {"current"} /\ ~AtWrite(t)' /\ ~Minter(t)'
    BY <2>1, Off
  <2>3. ~At(t, "put")'
    <3>1. todo'[t] = s
      BY <2>1 DEF Instead, Control, Lists
    <3> QED BY <3>1 DEF At
  <2>4. ~Snap(t)
    <3>1. ASSUME Snap(t) PROVE FALSE
      <4>1. AtWrite(t)'
        BY <3>1, Onward DEF Snap, At
      <4> QED BY <2>2, <4>1
    <3> QED BY <3>1
  <2>5. todo[t] # <<>> /\ Head(todo[t]) \in Changes => "snap" \in Elems(todo'[t])
    <3>1. ASSUME todo[t] # <<>>, Head(todo[t]) \in Changes PROVE FALSE
      <4>1. Merge(t) \/ Anchor(t) \/ Unlease(t) \/ Arm(t)
        BY <3>1 DEF Step, Ask, Serve, Return, Merge, Anchor, Unlease, Forget, Clear, Stamp, Snap,
             Write, Written, Mint, Reread, Unmint, See, Current, Grace, Put, HasKey, Due, Overdue,
             Window, Compare, Debounce, Arm, Update, At, Changes
      <4>2. "snap" \in Elems(todo'[t])
        BY <3>1, <4>1, Onward DEF Merge, Anchor, Unlease, Arm
      <4> QED BY <2>2, <4>2
    <3> QED BY <3>1
  <2>6. Head(todo[t]) \in Early \/ Unmint(t) \/ fails
    BY <1>2 DEF Halt
  <2> QED BY <2>2, <2>3, <2>4, <2>5, <2>6 DEF Early
<1>3. CASE \E s : Route(t, s)
  <2>1. PICK s : Route(t, s)
    BY <1>3
  <2>2. /\ \A u \in Threads \ {t} : todo'[u] = todo[u]
        /\ Elems(todo'[t]) = Elems(s) \cup Elems(Tail(todo[t]))
        /\ Elems(todo'[t]) \subseteq Elems(s) \cup Elems(todo[t])
        /\ Elems(todo[t]) \ {Head(todo[t])} \subseteq Elems(todo'[t])
        /\ Head(todo[t]) \in Elems(todo[t])
        /\ Head(todo[t]) # "snap" => Elems(todo'[t]) \cap Minting = Elems(s) \cap Minting
        /\ AtWrite(t)' => Head(todo[t]) = "snap"
        /\ Head(todo[t]) = "snap" => AtWrite(t)'
        /\ Head(todo[t]) \in Changes => "snap" \in Elems(todo'[t])
        /\ s # <<>> => todo'[t] # <<>> /\ Head(todo'[t]) = Head(s)
        /\ s = <<>> => todo'[t] = Tail(todo[t])
    BY <2>1, Core DEF Route
  <2>3. s = <<>> => Elems(s) = {}
    BY Listed
  <2>4. Minter(t)' <=> Elems(todo'[t]) \cap Minting # {}
    BY DEF Minter
  <2>5. At(t, "writeId") => Minter(t)
    BY <2>2 DEF At, Minter, Minting
  <2>6. Minter(t)' => Minter(t) \/ (Mint(t) /\ cache.ftid = None)
    <3>1. CASE s = <<>>
      BY <2>2, <2>3, <2>4, <3>1 DEF Minter
    <3>2. CASE s # <<>>
      BY <2>1, <2>2, <2>4, <2>5, <3>2 DEF Route
    <3> QED BY <3>1, <3>2
  <2>7. "unmint" \in Elems(todo'[t]) => "unmint" \in Elems(todo[t]) \/ fails
    BY <2>1, <2>2 DEF Route
  <2>8. AtWrite(t)' <=> Snap(t)
    BY <2>1, <2>2, Doing DEF Route, At
  <2>9. todo[t] # <<>> /\ Elems(Tail(todo[t])) \cap Firsts = {}
        /\ (Tail(todo[t]) # <<>> /\ Head(Tail(todo[t])) = "put" => Head(todo[t]) = "see")
    BY <1>0, <2>1, Popped DEF Route
  <2>10. "clear" \in Elems(todo'[t]) => Forget(t)
    BY <2>1, <2>2, <2>9 DEF Route, Firsts
  <2>11. At(t, "put")' => See(t) \/ Current(t) \/ Grace(t)
    <3>1. CASE s = <<>>
      BY <2>2, <2>9, <3>1, Doing DEF At
    <3>2. CASE s # <<>>
      BY <2>1, <2>2, <3>2 DEF Route, At
    <3> QED BY <3>1, <3>2
  <2>12. Elems(todo'[t]) \cap Early \subseteq Elems(todo[t])
    BY <2>1, <2>2 DEF Route, Plan
  <2>13. "forget" \in Elems(todo'[t]) => "forget" \in Elems(todo[t]) \/ call[t] = "deactivate"
    BY <2>1, <2>2 DEF Route
  <2>14. Elems(todo'[t]) \cap {"see", "merge"} \subseteq Elems(todo[t]) \/ Serve(t) \/ Forget(t)
    BY <2>1, <2>2 DEF Route
  <2> QED BY <2>2, <2>6, <2>7, <2>8, <2>10, <2>11, <2>12, <2>13, <2>14
<1> QED BY <1>1, <1>2, <1>3, Routes

\* Only minting an id and taking it back touch the id in the cache, and only the
\* request that carries it the ids the server has seen.
LEMMA IdKept ==
  ASSUME Control, NEW t \in Threads, Step(t)
  PROVE  /\ ~Unmint(t) /\ ~(Mint(t) /\ cache.ftid = None) => cache'.ftid = cache.ftid
         /\ Mint(t) /\ cache.ftid = None => cache'.ftid # None
         /\ reported' \subseteq reported \cup ({cache.ftid} \ {None})
         /\ ~Ask(t) => reported' = reported
         /\ Ask(t) => cache' = cache
         /\ fails' = fails
<1>1. cache \in Cache
  BY DEF Control, TypeOK
<1>2. CASE Mint(t)
  <2>1. cache.ftid = None => cache'.ftid \in Ids
    BY <1>1, <1>2 DEF Mint, Update, Cache
  <2>2. cache.ftid # None => cache' = cache
    BY <1>2 DEF Mint, Update
  <2>3. UNCHANGED <<reported, fails>>
    BY <1>2 DEF Mint, Update, past
  <2>4. ~Ask(t)
    BY <1>2 DEF Ask, Mint, Update, At
  <2>5. None \notin Ids
    BY RacesAssumption
  <2>6. CASE cache.ftid = None
    BY <1>2, <2>1, <2>3, <2>4, <2>5, <2>6
  <2>7. CASE cache.ftid # None
    BY <2>2, <2>3, <2>4, <2>7
  <2> QED BY <2>6, <2>7
<1>3. CASE Merge(t) \/ Anchor(t) \/ Unlease(t) \/ Forget(t) \/ Stamp(t) \/ Arm(t)
  <2>1. cache'.ftid = cache.ftid
    BY <1>1, <1>3 DEF Merge, Merged, Anchor, Unlease, Forget, Stamp, Arm, Update, Cache
  <2>2. UNCHANGED <<reported, fails>> /\ ~Mint(t) /\ ~Ask(t)
    BY <1>3 DEF Merge, Anchor, Unlease, Forget, Stamp, Arm, Update, past, At, Mint, Ask
  <2> QED BY <2>1, <2>2
<1>4. CASE Ask(t)
  <2>1. UNCHANGED <<cache, fails>> /\ ~Mint(t) /\ ~Unmint(t)
    BY <1>4 DEF Ask, client, Mint, Unmint, Update, At
  <2> QED BY <1>4, <2>1 DEF Ask
<1>5. CASE Unmint(t)
  BY <1>5 DEF Unmint, Update, past, Mint, Ask, At
<1>6. CASE Serve(t) \/ Return(t) \/ Clear(t) \/ Snap(t) \/ Write(t) \/ Reread(t) \/ See(t)
           \/ Current(t) \/ Grace(t) \/ Put(t) \/ HasKey(t) \/ Due(t) \/ Overdue(t) \/ Window(t)
           \/ Compare(t) \/ Debounce(t)
  <2>1. UNCHANGED <<cache, fails, reported>>
    BY <1>6 DEF Serve, Return, Clear, Snap, Write, Written, Reread, See, Current, Sees, Grace, Put,
                HasKey, Due, Overdue, Window, Compare, Debounce, client, past
  <2>2. ~Mint(t) /\ ~Ask(t)
    BY <1>6 DEF Serve, Return, Clear, Snap, Write, Written, Reread, See, Current, Grace, Put,
                HasKey, Due, Overdue, Window, Compare, Debounce, At, Mint, Ask, Update
  <2> QED BY <2>1, <2>2
<1> QED BY <1>2, <1>3, <1>4, <1>5, <1>6 DEF Step

\* One thread at most mints an id, and while it does the cache holds one.
OneMinter ==
  /\ \A t \in Threads : Minter(t) => cache.ftid # None
  /\ \A t, u \in Threads : Minter(t) /\ Minter(u) => t = u

\* A step of a thread keeps it.
LEMMA OneMinterStep ==
  ASSUME Control, OneMinter, NEW t \in Threads, Step(t)
  PROVE  OneMinter'
<1>1. /\ \A u \in Threads \ {t} : Minter(u)' <=> Minter(u)
      /\ Minter(t)' => Minter(t) \/ (Mint(t) /\ cache.ftid = None)
  BY Moves DEF Minter
<1>2. CASE Unmint(t)
  <2>1. At(t, "unmint") /\ (Next1(t) \/ Instead(t, <<>>))
    BY <1>2 DEF Unmint, Update
  <2>2. ~Minter(t)'
    BY <2>1, Onward, Off DEF At
  <2>3. Minter(t)
    <3>1. "unmint" \in Elems(todo[t])
      BY <2>1, Popped DEF Control, Lists, At
    <3> QED BY <3>1 DEF Minter, Minting
  <2> QED BY <1>1, <2>2, <2>3 DEF OneMinter
<1>3. CASE Mint(t) /\ cache.ftid = None
  <2>1. cache'.ftid # None
    BY <1>3, IdKept
  <2>2. \A u \in Threads : ~Minter(u)
    BY <1>3 DEF OneMinter
  <2> QED BY <1>1, <2>1, <2>2 DEF OneMinter
<1>4. CASE ~Unmint(t) /\ ~(Mint(t) /\ cache.ftid = None)
  <2>1. cache'.ftid = cache.ftid
    BY <1>4, IdKept
  <2> QED BY <1>1, <1>4, <2>1 DEF OneMinter
<1> QED BY <1>2, <1>3, <1>4

\* freeTierInstanceId() sets the optional id, saves it and reads it again in three
\* critical sections: nobody else resets it in between, however many threads mint.
THEOREM IdIsThere == Spec => []NoEmptyDereference
<1>1. Init => OneMinter
  <2> SUFFICES ASSUME Init PROVE OneMinter
    OBVIOUS
  <2>1. \A t \in Threads : Elems(todo[t]) = {}
    BY Listed DEF Init
  <2> QED BY <2>1 DEF OneMinter, Minter
<1>2. Control /\ OneMinter /\ [Next]_vars => OneMinter'
  <2> SUFFICES ASSUME Control, OneMinter, [Next]_vars PROVE OneMinter'
    OBVIOUS
  <2>1. ASSUME NEW t \in Threads, NEW c \in DOMAIN Script, Call(t, c) PROVE OneMinter'
    <3>1. /\ todo'[t] = Script[c] /\ UNCHANGED cache
          /\ \A u \in Threads \ {t} : todo'[u] = todo[u]
      BY <2>1, ScriptShape, Cuts DEF Control, Call, client
    <3>2. ~Minter(t)' /\ \A u \in Threads \ {t} : Minter(u)' <=> Minter(u)
      BY <3>1, ScriptShape DEF Minter
    <3> QED BY <3>1, <3>2 DEF OneMinter
  <2>2. CASE Decide \/ MinutePasses \/ DayPasses \/ UNCHANGED vars
    <3>1. todo' = todo /\ cache'.ftid = cache.ftid
      <4>1. cache \in Cache
        BY DEF Control, TypeOK
      <4> QED BY <2>2, <4>1 DEF Decide, MinutePasses, DayPasses, vars, client, Cache
    <3> QED BY <3>1 DEF OneMinter, Minter
  <2> QED BY <2>1, <2>2, OneMinterStep DEF Next
<1>3. Control /\ OneMinter => NoEmptyDereference
  <2> SUFFICES ASSUME Control, OneMinter, NEW t \in Threads, At(t, "reread")
               PROVE  cache.ftid # None
    BY DEF NoEmptyDereference
  <2>1. "reread" \in Elems(todo[t])
    BY Popped DEF Control, Lists, At
  <2> QED BY <2>1 DEF OneMinter, Minter, Minting
<1> QED BY <1>1, <1>2, <1>3, Controlled, PTL DEF Spec

\* As long as saves work an id that is in the cache stays there, so that the server
\* sees one id only, for any number of threads, ids and calls.
THEOREM OneId == Spec => []OneIdReported
<1> DEFINE I == ~fails => /\ \A t \in Threads : "unmint" \notin Elems(todo[t])
                          /\ reported \subseteq {cache.ftid} \ {None}
<1>1. Init => I
  BY Listed DEF Init
<1>2. Control /\ I /\ [Next]_vars => I'
  <2> SUFFICES ASSUME Control, I, [Next]_vars, ~fails' PROVE I'
    OBVIOUS
  <2>1. ASSUME NEW t \in Threads, Step(t) PROVE I'
    <3>1. ~fails
      BY <2>1, IdKept
    <3>2. \A u \in Threads : "unmint" \notin Elems(todo'[u])
      BY <2>1, <3>1, Moves
    <3>3. ~Unmint(t)
      <4>1. At(t, "unmint") => "unmint" \in Elems(todo[t])
        BY Popped DEF Control, Lists, At
      <4> QED BY <3>1, <4>1 DEF Unmint, Update
    <3>4. reported' \subseteq {cache'.ftid} \ {None}
      BY <2>1, <3>1, <3>3, IdKept
    <3> QED BY <3>2, <3>4
  <2>2. ASSUME NEW t \in Threads, NEW c \in DOMAIN Script, Call(t, c) PROVE I'
    <3>1. /\ todo'[t] = Script[c] /\ UNCHANGED <<fails, cache, reported>>
          /\ \A u \in Threads \ {t} : todo'[u] = todo[u]
      BY <2>2, ScriptShape, Cuts DEF Control, Call, client
    <3>2. "unmint" \notin Elems(todo'[t])
      BY <3>1, ScriptShape DEF Minting
    <3> QED BY <3>1, <3>2
  <2>3. CASE Decide \/ MinutePasses \/ DayPasses \/ UNCHANGED vars
    <3>1. UNCHANGED <<todo, fails, reported>> /\ cache'.ftid = cache.ftid
      <4>1. cache \in Cache
        BY DEF Control, TypeOK
      <4> QED BY <2>3, <4>1 DEF Decide, MinutePasses, DayPasses, vars, client, past, Cache
    <3> QED BY <3>1
  <2> QED BY <2>1, <2>2, <2>3 DEF Next
<1>3. I => OneIdReported
  <2> SUFFICES ASSUME I, ~fails PROVE Cardinality(reported) <= 1
    BY DEF OneIdReported
  <2>1. reported = {} \/ reported = {cache.ftid}
    OBVIOUS
  <2>2. Cardinality({}) = 0 /\ Cardinality({cache.ftid}) = 1
    BY FS_EmptySet, FS_Singleton
  <2> QED BY <2>1, <2>2
<1> QED BY <1>1, <1>2, <1>3, Controlled, PTL DEF Spec
----------------------------------------------------------------------------
\* What goes with the place a thread is at: deactivate() alone forgets, and has
\* nothing to break off; without a call no request is out; save_mutex_ is held by
\* whoever is about to write.
Posted(t) ==
  /\ Elems(todo[t]) \cap {"forget", "clear"} # {} => call[t] = "deactivate"
  /\ call[t] = "deactivate" => Elems(todo[t]) \cap (Early \cup {"merge"}) = {}
  /\ ~Running(t) => ~sent[t]
  /\ ~fails => "unmint" \notin Elems(todo[t])
  /\ saver = t <=> AtWrite(t)

\* What a step of t changes of that.
LEMMA PostedStep ==
  ASSUME Control, \A u \in Threads : Posted(u), NEW t \in Threads, Step(t)
  PROVE  \A u \in Threads : Posted(u)'
<1>1. /\ \A u \in Threads \ {t} : todo'[u] = todo[u]
      /\ "unmint" \in Elems(todo'[t]) => "unmint" \in Elems(todo[t]) \/ fails
      /\ AtWrite(t)' <=> Snap(t)
      /\ "clear" \in Elems(todo'[t]) => Forget(t)
      /\ "forget" \in Elems(todo'[t]) => "forget" \in Elems(todo[t]) \/ call[t] = "deactivate"
      /\ Elems(todo'[t]) \cap {"see", "merge"} \subseteq Elems(todo[t]) \/ Serve(t) \/ Forget(t)
      /\ Elems(todo'[t]) \cap Early \subseteq Elems(todo[t])
  BY Moves
<1>2. TypeOK /\ Ready(t) /\ None \notin Threads
  BY RacesAssumption DEF Control
<1>3. fails' = fails
  BY IdKept
<1>4. \A u \in Threads \ {t} : call'[u] = call[u] /\ sent'[u] = sent[u]
  BY <1>2 DEF Step, Ask, Serve, Return, Merge, Anchor, Unlease, Forget, Clear, Stamp, Snap, Write,
      Written, Mint, Reread, Unmint, See, Current, Sees, Grace, Put, HasKey, Due, Overdue, Window,
      Compare, Debounce, Arm, Update, mine, TypeOK
<1>5. ~Return(t) => call'[t] = call[t]
  BY DEF Step, Ask, Serve, Return, Merge, Anchor, Unlease, Forget, Clear, Stamp, Snap, Write,
      Written, Mint, Reread, Unmint, See, Current, Sees, Grace, Put, HasKey, Due, Overdue, Window,
      Compare, Debounce, Arm, Update
<1>6. Return(t) => call'[t] = "none" /\ ~sent'[t] /\ todo' = todo /\ todo[t] = <<>>
  BY <1>2 DEF Return, TypeOK
<1>7. ~Return(t) => Running(t)
  <2>1. ~Return(t) => todo[t] # <<>>
    BY Doing
  <2> QED BY <1>2, <2>1 DEF Ready, Running
<1>8. \A u \in Threads : saver' = u <=> AtWrite(u)'
  <2>1. \A u \in Threads \ {t} : AtWrite(u)' <=> AtWrite(u)
    BY <1>1 DEF AtWrite
  <2>2. CASE Snap(t)
    <3>1. saver = None /\ saver' = t
      BY <2>2 DEF Snap
    <3> QED BY <1>1, <1>2, <2>1, <2>2, <3>1 DEF Posted
  <2>3. CASE Write(t)
    <3>1. saver' = None /\ AtWrite(t)
      BY <2>3, Doing DEF Write, Written
    <3>2. ~Snap(t)
      BY <2>3, Doing DEF AtWrite, At, Writes
    <3> QED BY <1>1, <1>2, <2>1, <3>1, <3>2 DEF Posted
  <2>4. CASE ~Snap(t) /\ ~Write(t)
    <3>1. saver' = saver
      BY <2>4 DEF Step, Ask, Serve, Return, Merge, Anchor, Unlease, Forget, Clear, Stamp, Mint,
         Reread, Unmint, See, Current, Sees, Grace, Put, HasKey, Due, Overdue, Window, Compare,
         Debounce, Arm, Update, client
    <3>2. ~AtWrite(t)
      BY <2>4, Doing
    <3> QED BY <1>1, <2>1, <2>4, <3>1, <3>2 DEF Posted
  <2> QED BY <2>2, <2>3, <2>4
<1>9. ASSUME NEW u \in Threads \ {t} PROVE Posted(u)'
  BY <1>1, <1>3, <1>4, <1>8 DEF Posted, Running
<1>10. Posted(t)'
  <2>1. CASE Return(t)
    <3>1. Elems(todo'[t]) = {}
      BY <1>6, <2>1, Listed
    <3> QED BY <1>6, <1>8, <2>1, <3>1 DEF Posted, Running
  <2>2. CASE ~Return(t)
    <3>1. Posted(t) /\ call'[t] = call[t] /\ Running(t)
      BY <1>5, <1>7, <2>2
    <3>2. Elems(todo'[t]) \cap {"forget", "clear"} # {} => call[t] = "deactivate"
      <4>1. "clear" \in Elems(todo'[t]) => call[t] = "deactivate"
        <5>1. ASSUME Forget(t) PROVE "forget" \in Elems(todo[t])
          BY <5>1, Doing, Popped DEF At, Control, Lists
        <5> QED BY <1>1, <3>1, <5>1 DEF Posted
      <4> QED BY <1>1, <3>1, <4>1 DEF Posted
    <3>3. ASSUME call[t] = "deactivate" PROVE "merge" \notin Elems(todo'[t])
      <4>1. "merge" \notin Elems(todo[t])
        BY <3>1, <3>3 DEF Posted
      <4>2. CASE Serve(t)
        <5>1. PICK r \in Replies : Then(t, Answered(t, r.kind))
          BY <4>2 DEF Serve
        <5>2. Answered(t, r.kind) = <<"forget">>
          BY <3>3 DEF Answered
        <5>3. Plan(<<"forget">>) /\ Elems(<<"forget">>) = {"forget"}
          BY Plans, Listed
        <5> QED BY <4>1, <4>2, <5>1, <5>2, <5>3, Core DEF Serve, At, Early
      <4>3. CASE Forget(t)
        <5>1. PICK s \in {<<"snap", "writeOrFail", "see", "put">>, <<"clear", "see", "put">>} :
                     Then(t, s)
          BY <4>3, WrittenOut DEF Forget, Set
        <5>2. Plan(s) /\ "merge" \notin Elems(s)
          <6>1. CASE s = <<"clear", "see", "put">>
            BY <6>1, Plans, Listed
          <6>2. CASE s = <<"snap", "writeOrFail", "see", "put">>
            BY <6>2, Plans, Listed
          <6> QED BY <5>1, <6>1, <6>2
        <5> QED BY <4>1, <4>3, <5>1, <5>2, Core DEF Forget, Update, At, Early
      <4> QED BY <1>1, <4>1, <4>2, <4>3
    <3> QED BY <1>1, <1>3, <1>8, <3>1, <3>2, <3>3 DEF Posted, Running
  <2> QED BY <2>1, <2>2
<1> QED BY <1>9, <1>10

\* A call begins.
LEMMA PostedCall ==
  ASSUME Control, \A u \in Threads : Posted(u), NEW t \in Threads, NEW c \in DOMAIN Script,
         Call(t, c)
  PROVE  \A u \in Threads : Posted(u)'
<1>1. /\ todo'[t] = Script[c] /\ UNCHANGED <<fails, saver, sent>>
      /\ \A u \in Threads \ {t} : todo'[u] = todo[u]
  BY ScriptShape, Cuts DEF Control, Call, client, mine
<1>2. /\ todo[t] = <<>> /\ call'[t] = c /\ c # "none" /\ \A u \in Threads \ {t} : call'[u] = call[u]
  BY DEF Control, TypeOK, Ready, Running, Call, Script
<1>3. \A u \in Threads \ {t} : Posted(u)'
  BY <1>1, <1>2 DEF Posted, Running, AtWrite
<1>4. ~AtWrite(t) /\ ~AtWrite(t)'
  BY <1>1, <1>2, ScriptShape DEF AtWrite
<1>5. Posted(t)'
  BY <1>1, <1>2, <1>4, ScriptShape DEF Posted, Running, Early, Minting
<1> QED BY <1>3, <1>5

\* And it holds throughout.
LEMMA AllPosted == Spec => [](\A t \in Threads : Posted(t))
<1>1. Init => \A t \in Threads : Posted(t)
  BY Listed, RacesAssumption DEF Init, Posted, Running, AtWrite
<1>2. Control /\ (\A t \in Threads : Posted(t)) /\ [Next]_vars => (\A t \in Threads : Posted(t))'
  <2> SUFFICES ASSUME Control, \A t \in Threads : Posted(t), [Next]_vars
               PROVE  \A t \in Threads : Posted(t)'
    OBVIOUS
  <2>1. CASE Decide \/ MinutePasses \/ DayPasses \/ UNCHANGED vars
    <3>1. UNCHANGED <<todo, call, sent, fails, saver>>
      BY <2>1 DEF Decide, MinutePasses, DayPasses, vars, client, mine
    <3> QED BY <3>1 DEF Posted, Running, AtWrite
  <2> QED BY <2>1, PostedStep, PostedCall DEF Next
<1> QED BY <1>1, <1>2, Controlled, PTL DEF Spec
----------------------------------------------------------------------------
\* What a step of t does to the key and the lease, and that only forgetting while
\* others run or calling while a deactivate() runs makes a race.
LEMMA KeyKept ==
  ASSUME Control, NEW t \in Threads, Step(t)
  PROVE  /\ ~Forget(t) => (cache.key => cache'.key) /\ raced' = raced
         /\ ~Merge(t) => cache'.lease \in {0, cache.lease}
         /\ Merge(t) => cache'.key = (cache.key \/ call[t] = "activate")
         /\ Forget(t) => /\ cache'.lease = 0 /\ "forget" \in Elems(todo[t])
                         /\ ~raced' => ~raced /\ \A u \in Threads \ {t} : ~Running(u)
<1>1. cache \in Cache
  BY DEF Control, TypeOK
<1>2. CASE Merge(t)
  BY <1>1, <1>2 DEF Merge, Merged, Update, Cache, past, Forget, At
<1>3. CASE Forget(t)
  <2>1. cache'.lease = 0 /\ ~Merge(t)
    BY <1>1, <1>3 DEF Forget, Merge, Update, At, Cache
  <2>2. "forget" \in Elems(todo[t])
    BY <1>3, Doing, Popped DEF Control, Lists, At
  <2> QED BY <1>3, <2>1, <2>2 DEF Forget
<1>4. CASE Anchor(t) \/ Unlease(t) \/ Stamp(t) \/ Mint(t) \/ Unmint(t) \/ Arm(t)
  <2>1. /\ cache.key => cache'.key
        /\ cache'.lease \in {0, cache.lease} /\ raced' = raced
    <3>1. CASE Mint(t)
      BY <1>1, <3>1 DEF Mint, Update, Cache, past
    <3>2. CASE ~Mint(t)
      BY <1>1, <1>4, <3>2 DEF Anchor, Unlease, Stamp, Unmint, Arm, Update, Cache, past
    <3> QED BY <3>1, <3>2
  <2>2. ~Merge(t) /\ ~Forget(t)
    BY <1>4 DEF Anchor, Unlease, Stamp, Mint, Unmint, Arm, Merge, Forget, Update, At
  <2> QED BY <2>1, <2>2
<1>5. CASE Ask(t) \/ Serve(t) \/ Return(t) \/ Clear(t) \/ Snap(t) \/ Write(t) \/ Reread(t) \/ See(t)
           \/ Current(t) \/ Grace(t) \/ Put(t) \/ HasKey(t) \/ Due(t) \/ Overdue(t) \/ Window(t)
           \/ Compare(t) \/ Debounce(t)
  <2>1. UNCHANGED <<cache, raced>>
    BY <1>5 DEF Ask, Serve, Return, Clear, Snap, Write, Written, Reread, See, Current, Sees, Grace,
                Put, HasKey, Due, Overdue, Window, Compare, Debounce, client, past
  <2>2. ~Merge(t) /\ ~Forget(t)
    BY <1>5 DEF Ask, Serve, Return, Clear, Snap, Write, Written, Reread, See, Current, Grace, Put,
                HasKey, Due, Overdue, Window, Compare, Debounce, At, Merge, Forget, Update
  <2> QED BY <2>1, <2>2
<1> QED BY <1>2, <1>3, <1>4, <1>5 DEF Step

\* A thread that carries what a licence brings: the key in its request, an answer
\* to it, or Licensed to be set.
Carries(t) ==
  /\ call[t] # "deactivate" /\ sent[t] => cache.key
  /\ call[t] # "deactivate" /\ Elems(todo[t]) \cap {"see", "merge"} # {} =>
       cache.key \/ (call[t] = "activate" /\ "merge" \in Elems(todo[t]))
  /\ At(t, "put") /\ new[t] = "Licensed" => cache.key

\* A deactivate() that has not set its state yet.
Leaving == \E t \in Threads : call[t] = "deactivate" /\ "put" \in Elems(todo[t])

Keyed ==
  /\ cache.lease # 0 => cache.key
  /\ \A t \in Threads : Carries(t)
  /\ ~fails /\ state_ = "Licensed" => cache.key \/ Leaving

\* The request of t, its answer and the state it resolves.
LEMMA OwnCarries ==
  ASSUME Control, NEW t \in Threads, Posted(t), cache.lease # 0 => cache.key, Carries(t), Step(t)
  PROVE  Carries(t)'
<1> DEFINE q == todo[t]
<1>1. /\ TypeOK /\ Ready(t) /\ q \in Seq(Labels) /\ Shape(q)
      /\ q # <<>> => /\ Elems(q) = {Head(q)} \cup Elems(Tail(q))
                     /\ Elems(Tail(q)) \cap Firsts = {}
                     /\ Tail(q) # <<>> /\ Head(Tail(q)) = "put" => Head(q) = "see"
  BY Popped DEF Control, Lists
<1> HIDE DEF q
<1>2. "merge" \in Elems(q) /\ q # <<>> => Merge(t)
  BY <1>1, Doing DEF At, Firsts, q
<1>3. CASE Return(t)
  <2>1. ~sent'[t] /\ todo'[t] = <<>>
    BY <1>1, <1>3 DEF Return, TypeOK
  <2> QED BY <2>1, Listed DEF Carries, At
<1>4. CASE ~Return(t)
  <2>1. q # <<>> /\ call'[t] = call[t]
    BY <1>4, Doing DEF q, Step, Ask, Serve, Merge, Anchor, Unlease, Forget, Clear, Stamp, Snap,
      Write, Written, Mint, Reread, Unmint, See, Current, Sees, Grace, Put, HasKey, Due, Overdue,
      Window, Compare, Debounce, Arm, Update
  <2>2. call[t] # "deactivate" => ~Forget(t)
    BY KeyKept DEF Posted
  <2>3. call[t] # "deactivate" /\ cache.key => cache'.key
    BY <2>2, KeyKept
  <2>4. call[t] # "deactivate" /\ sent'[t] => cache'.key
    <3>1. CASE Ask(t)
      BY <1>1, <3>1 DEF Ask, client, TypeOK
    <3>2. CASE Serve(t)
      BY <1>1, <3>2 DEF Serve, TypeOK
    <3>3. CASE ~Ask(t) /\ ~Serve(t)
      <4>1. sent' = sent
        BY <1>4, <3>3 DEF Step, Merge, Anchor, Unlease, Forget, Clear, Stamp, Snap, Write, Written,
          Mint, Reread, Unmint, See, Current, Sees, Grace, Put, HasKey, Due, Overdue, Window,
          Compare, Debounce, Arm, Update, mine
      <4> QED BY <2>3, <4>1 DEF Carries
    <3> QED BY <3>1, <3>2, <3>3
  <2>5. ASSUME call[t] # "deactivate", Elems(todo'[t]) \cap {"see", "merge"} # {}
        PROVE  cache'.key \/ (call[t] = "activate" /\ "merge" \in Elems(todo'[t]))
    <3>1. CASE Serve(t)
      <4>1. /\ Head(q) = "serve" /\ cache' = cache
        BY <3>1 DEF Serve, At, client, q
      <4>2. PICK r \in Replies :
              /\ ~sent[t] /\ call[t] \notin {"activate", "keyless"} => r.kind = "failure"
              /\ Then(t, Answered(t, r.kind))
        BY <3>1 DEF Serve
      <4> DEFINE s == Answered(t, r.kind)
      <4>3. /\ Plan(s)
            /\ Elems(s) \cap {"see", "merge"} # {} =>
                 /\ call[t] \notin {"deactivate", "keyless"} /\ r.kind # "failure"
                 /\ call[t] = "activate" => "merge" \in Elems(s)
        BY AnsweredShape
      <4> HIDE DEF s
      <4>4. Elems(todo'[t]) = Elems(s) \cup Elems(Tail(q))
        BY <2>1, <4>1, <4>2, <4>3, Core DEF s, q, Early
      <4>5. CASE Elems(s) \cap {"see", "merge"} # {}
        BY <4>1, <4>2, <4>3, <4>4, <4>5, <2>5 DEF Carries
      <4>6. CASE Elems(Tail(q)) \cap {"see", "merge"} # {}
        <5>1. "merge" \notin Elems(q) /\ Elems(q) \cap {"see", "merge"} # {}
          BY <1>1, <2>1, <4>1, <4>6 DEF Firsts
        <5> QED BY <2>5, <4>1, <5>1 DEF Carries, q
      <4> QED BY <2>5, <4>4, <4>5, <4>6
    <3>2. CASE ~Serve(t)
      <4>1. Elems(q) \cap {"see", "merge"} # {}
        BY <2>2, <2>5, <3>2, Moves DEF q
      <4>2. CASE cache.key
        BY <2>3, <2>5, <4>2
      <4>3. CASE call[t] = "activate" /\ "merge" \in Elems(q)
        BY <1>2, <2>1, <4>3, KeyKept
      <4> QED BY <2>5, <4>1, <4>2, <4>3 DEF Carries, q
    <3> QED BY <3>1, <3>2
  <2>6. ASSUME At(t, "put")', new'[t] = "Licensed" PROVE cache'.key
    <3>1. CASE See(t)
      <4>1. new'[t] = Resolved(t) /\ cache' = cache /\ Head(q) = "see"
        BY <1>1, <3>1 DEF See, Sees, client, TypeOK, At, q
      <4>2. call[t] # "deactivate"
        <5>1. ASSUME call[t] = "deactivate" PROVE Resolved(t) # "Licensed"
          <6>1. Paid(t) = "Invalid"
            BY <5>1 DEF Paid
          <6>2. Resolved(t) \in {"Trial", "Invalid"}
            BY <5>1, <6>1 DEF Resolved, ResolveWithTrial
          <6> QED BY <6>2
        <5> QED BY <2>6, <4>1, <5>1
      <4>3. "see" \in Elems(q) /\ "merge" \notin Elems(q)
        BY <1>1, <2>1, <4>1 DEF Firsts
      <4> QED BY <4>1, <4>2, <4>3 DEF Carries, q
    <3>2. CASE Current(t)
      <4>1. new'[t] = ResolveCurrent /\ cache' = cache
        BY <1>1, <3>2 DEF Current, Sees, client, TypeOK
      <4> QED BY <2>6, <4>1 DEF ResolveCurrent, ResolveWithTrial
    <3>3. CASE Grace(t)
      <4>1. Head(q) = "grace" /\ (Next1(t) \/ new' = [new EXCEPT ![t] = "Expired"])
        BY <3>3 DEF Grace, Sees, At, q
      <4>2. CASE Next1(t)
        <5>1. todo'[t] = Tail(q)
          BY <2>1, <4>2, Onward DEF q
        <5> QED BY <1>1, <2>1, <2>6, <4>1, <5>1 DEF At
      <4> QED BY <1>1, <2>6, <4>1, <4>2 DEF TypeOK
    <3> QED BY <2>6, <3>1, <3>2, <3>3, Moves
  <2> QED BY <2>1, <2>4, <2>5, <2>6 DEF Carries
<1> QED BY <1>3, <1>4

\* As long as there is no race a step of a thread keeps all of it.
LEMMA KeyedStep ==
  ASSUME Control, \A u \in Threads : Posted(u), ~raced => Keyed, NEW t \in Threads, Step(t),
         ~raced'
  PROVE  ~raced /\ Keyed'
<1>1. ~raced /\ TypeOK
  BY KeyKept DEF Control
<1>2. Keyed /\ Posted(t)
  BY <1>1
<1>3. cache'.lease # 0 => cache'.key
  <2>1. CASE Merge(t)
    <3>1. "merge" \in Elems(todo[t])
      BY <2>1, Doing, Popped DEF At, Control, Lists
    <3> QED BY <1>2, <2>1, <3>1, KeyKept DEF Keyed, Carries, Posted
  <2>2. CASE Forget(t)
    BY <2>2, KeyKept
  <2>3. CASE ~Merge(t) /\ ~Forget(t)
    BY <1>2, <2>3, KeyKept DEF Keyed
  <2> QED BY <2>1, <2>2, <2>3
<1>4. /\ \A u \in Threads \ {t} : todo'[u] = todo[u]
      /\ \A u \in Threads \ {t} : call'[u] = call[u] /\ sent'[u] = sent[u] /\ new'[u] = new[u]
  <2>1. \A u \in Threads \ {t} : todo'[u] = todo[u]
    BY Moves
  <2> QED BY <1>1, <2>1 DEF Step, Ask, Serve, Return, Merge, Anchor, Unlease, Forget, Clear, Stamp,
       Snap, Write, Written, Mint, Reread, Unmint, See, Current, Sees, Grace, Put, HasKey, Due,
       Overdue, Window, Compare, Debounce, Arm, Update, mine, TypeOK
<1>5. \A u \in Threads : Carries(u)'
  <2>1. ASSUME NEW u \in Threads \ {t} PROVE Carries(u)'
    <3>1. CASE ~Forget(t)
      <4>1. cache.key => cache'.key
        BY <3>1, KeyKept
      <4> QED BY <1>2, <1>4, <4>1 DEF Keyed, Carries, At
    <3>2. CASE Forget(t)
      <4>1. ~Running(u)
        BY <3>2, KeyKept
      <4>2. ~sent[u] /\ todo[u] = <<>>
        BY <4>1 DEF Posted, Control, Ready, Running
      <4> QED BY <1>4, <4>2, Listed DEF Carries, At
    <3> QED BY <3>1, <3>2
  <2>2. Carries(t)'
    BY <1>2, OwnCarries DEF Keyed
  <2> QED BY <2>1, <2>2
<1>6. ASSUME ~fails', state_' = "Licensed" PROVE cache'.key \/ Leaving'
  <2>1. ~fails
    BY <1>6, IdKept
  <2>2. CASE Put(t)
    BY <1>2, <1>6, <2>2 DEF Put, Keyed, Carries
  <2>3. CASE ~Put(t)
    <3>1. state_' = state_
      BY <2>3 DEF Step, Ask, Serve, Return, Merge, Anchor, Unlease, Forget, Clear, Stamp,
       Snap, Write, Written, Mint, Reread, Unmint, See, Current, Sees, Grace, HasKey, Due,
       Overdue, Window, Compare, Debounce, Arm, Update, client
    <3>2. CASE Forget(t)
      <4>1. PICK s \in {<<"snap", "writeOrFail", "see", "put">>, <<"clear", "see", "put">>} :
                   Then(t, s)
        BY <3>2, WrittenOut DEF Forget, Set
      <4>2. Plan(s) /\ "put" \in Elems(s)
        <5>1. CASE s = <<"clear", "see", "put">>
          BY <5>1, Plans, Listed
        <5>2. CASE s = <<"snap", "writeOrFail", "see", "put">>
          BY <5>2, Plans, Listed
        <5> QED BY <4>1, <5>1, <5>2
      <4>3. "put" \in Elems(todo'[t])
        BY <3>2, <4>1, <4>2, Core DEF Forget, Update, At, Early
      <4>4. call'[t] = "deactivate"
        <5>1. call[t] = "deactivate"
          BY <1>2, <3>2, KeyKept DEF Posted
        <5> QED BY <3>2, <5>1 DEF Forget, Update
      <4> QED BY <4>3, <4>4 DEF Leaving
    <3>3. CASE cache.key /\ ~Forget(t)
      BY <3>3, KeyKept
    <3>4. CASE Leaving
      <4>1. PICK w \in Threads : call[w] = "deactivate" /\ "put" \in Elems(todo[w])
        BY <3>4 DEF Leaving
      <4>2. CASE w # t
        BY <1>4, <4>1, <4>2 DEF Leaving
      <4>3. CASE w = t
        <5>1. todo[t] # <<>>
          BY <4>1, <4>3, Listed
        <5>2. Head(todo[t]) # "put" /\ Head(todo[t]) \in Elems(todo[t])
          BY <2>3, <5>1, Doing, Popped DEF At, Control, Lists
        <5>3. ~Unmint(t) /\ Head(todo[t]) \notin Early
          BY <1>2, <2>1, <4>1, <4>3, <5>2 DEF Posted, Unmint, Update, At
        <5>4. "put" \in Elems(todo'[t])
          BY <2>1, <4>1, <4>3, <5>1, <5>2, <5>3, Moves
        <5>5. call'[t] = call[t]
          BY <5>1 DEF Step, Ask, Serve, Return, Merge, Anchor, Unlease, Forget, Clear, Stamp,
            Snap, Write, Written, Mint, Reread, Unmint, See, Current, Sees, Grace, Put, HasKey, Due,
            Overdue, Window, Compare, Debounce, Arm, Update
        <5> QED BY <4>1, <4>3, <5>4, <5>5 DEF Leaving
      <4> QED BY <4>2, <4>3
    <3> QED BY <1>2, <1>6, <2>1, <3>1, <3>2, <3>3, <3>4 DEF Keyed
  <2> QED BY <2>2, <2>3
<1> QED BY <1>1, <1>3, <1>5, <1>6 DEF Keyed

\* A lease belongs to a stored key, and so does Licensed: for any number of threads,
\* calls and changes of the server's mind, unless a deactivate() overlaps a call.
THEOREM KeyBehindLicence == Spec => []PaidNeedsKey
<1> DEFINE I == ~raced => Keyed
           All == \A t \in Threads : Posted(t)
<1>1. Init => I
  <2> SUFFICES ASSUME Init PROVE Keyed
    OBVIOUS
  <2>1. \A t \in Threads : todo[t] = <<>> /\ ~sent[t]
    BY DEF Init
  <2>2. (cache.lease # 0 => cache.key) /\ (state_ = "Licensed" => cache.key)
    <3>1. CASE cache = Fresh /\ state_ = "Invalid"
      BY <3>1 DEF Fresh
    <3>2. CASE cache = [Fresh EXCEPT !.lease = 1, !.key = TRUE, !.lvo = TRUE]
      BY <3>2 DEF Fresh
    <3>3. CASE /\ cache = [Fresh EXCEPT !.trial = TRUE, !.ftid = CHOOSE i \in Ids : TRUE]
               /\ state_ = "Trial"
      BY <3>3 DEF Fresh
    <3> QED BY <3>1, <3>2, <3>3 DEF Init
  <2> QED BY <2>1, <2>2, Listed DEF Keyed, Carries, At
<1>2. Control /\ All /\ I /\ [Next]_vars => I'
  <2> SUFFICES ASSUME Control, All, I, [Next]_vars, ~raced' PROVE Keyed'
    OBVIOUS
  <2>1. ASSUME NEW t \in Threads, Step(t) PROVE Keyed'
    BY <2>1, KeyedStep
  <2>2. ASSUME NEW t \in Threads, NEW c \in DOMAIN Script, Call(t, c) PROVE Keyed'
    <3>1. /\ todo'[t] = Script[c] /\ UNCHANGED <<fails, cache, state_, sent, new>>
          /\ \A u \in Threads \ {t} : todo'[u] = todo[u]
          /\ ~raced /\ ~Running(t)
      BY <2>2, ScriptShape, Cuts DEF Control, Call, client, mine
    <3>2. \A u \in Threads \ {t} : call'[u] = call[u]
      BY <2>2 DEF Call, Control, TypeOK
    <3>3. ~sent[t] /\ todo[t] = <<>>
      BY <3>1 DEF Posted, Control, Ready, Running
    <3>4. Elems(Script[c]) \cap {"see", "merge"} = {} /\ ~At(t, "put")'
      BY <3>1, ScriptShape DEF At
    <3>5. Keyed
      BY <3>1
    <3>6. \A u \in Threads : Carries(u)'
      <4>1. Carries(t)'
        BY <3>1, <3>3, <3>4 DEF Carries
      <4>2. \A u \in Threads \ {t} : Carries(u)'
        BY <3>1, <3>2, <3>5 DEF Keyed, Carries, At
      <4> QED BY <4>1, <4>2
    <3>7. Leaving => Leaving'
      <4> SUFFICES ASSUME NEW w \in Threads, call[w] = "deactivate", "put" \in Elems(todo[w])
                   PROVE  Leaving'
        BY DEF Leaving
      <4>1. w # t
        BY <3>1 DEF Running
      <4> QED BY <3>1, <3>2, <4>1 DEF Leaving
    <3> QED BY <3>1, <3>5, <3>6, <3>7 DEF Keyed
  <2>3. CASE Decide \/ MinutePasses \/ DayPasses \/ UNCHANGED vars
    <3>1. /\ UNCHANGED <<todo, call, sent, new, fails, state_, raced>>
          /\ cache'.key = cache.key /\ cache'.lease = cache.lease
      <4>1. cache \in Cache
        BY DEF Control, TypeOK
      <4> QED BY <2>3, <4>1 DEF Decide, MinutePasses, DayPasses, vars, client, mine, past, Cache
    <3> QED BY <3>1 DEF Keyed, Carries, Leaving, At
  <2> QED BY <2>1, <2>2, <2>3 DEF Next
<1>3. Control /\ I => PaidNeedsKey
  <2> SUFFICES ASSUME Control, Keyed, Quiet, ~raced
               PROVE  /\ cache.lease # 0 => cache.key
                      /\ state_ = "Licensed" /\ ~fails => cache.key
    BY DEF PaidNeedsKey
  <2>1. ~Leaving
    BY DEF Leaving, Quiet, Running
  <2> QED BY <2>1 DEF Keyed
<1> QED BY <1>1, <1>2, <1>3, Controlled, AllPosted, PTL DEF Spec
----------------------------------------------------------------------------
\* What the file will hold once the write under way is done, whether that is what
\* the cache holds, and whether a save or a removal is still to come.
Landing == IF saver = None THEN disk ELSE snap[saver]
Empty   == cache.lease = 0 /\ ~cache.key /\ ~cache.lvo /\ ~cache.trial
Fits    == \/ Landing # None /\ Same(Landing, cache)
           \/ Landing = None /\ Empty
Dirty   == \E t \in Threads : Elems(todo[t]) \cap {"snap", "clear"} # {}

\* Whoever is to drop the file runs alone, and left nothing to keep.
Alone == \A t \in Threads :
           "clear" \in Elems(todo[t]) => Empty /\ \A u \in Threads \ {t} : ~Running(u)

Settled == Alone /\ (~fails => Dirty \/ Fits)

\* A removal or a merge that is pending is what the thread does next.
LEMMA FirstsFirst ==
  ASSUME Control, NEW t \in Threads
  PROVE  /\ "clear" \in Elems(todo[t]) => At(t, "clear")
         /\ At(t, "clear") => "clear" \in Elems(todo[t])
         /\ todo[t] # <<>> /\ Head(todo[t]) \in Early => "snap" \notin Elems(todo[t])
         /\ todo[t] # <<>> => Head(todo[t]) \in Elems(todo[t]) /\ Running(t)
         /\ todo[t] = <<>> => Elems(todo[t]) = {} /\ ~AtWrite(t)
<1>1. todo[t] \in Seq(Labels) /\ Shape(todo[t]) /\ Ready(t)
  BY DEF Control, Lists
<1>2. CASE todo[t] = <<>>
  BY <1>2, Listed DEF At, AtWrite
<1>3. CASE todo[t] # <<>>
  <2>1. /\ Elems(todo[t]) = {Head(todo[t])} \cup Elems(Tail(todo[t]))
        /\ Elems(Tail(todo[t])) \cap Firsts = {}
        /\ Head(todo[t]) \in Early => "snap" \notin Elems(todo[t])
    BY <1>1, <1>3, Popped
  <2> QED BY <1>1, <1>3, <2>1 DEF At, Firsts, Ready, Running
<1> QED BY <1>2, <1>3

\* The thread that steps is running; the others' calls go on.
LEMMA Steps ==
  ASSUME Control, NEW t \in Threads, Step(t)
  PROVE  Running(t) /\ \A u \in Threads \ {t} : call'[u] = call[u]
<1>1. Running(t)
  <2>1. todo[t] = <<>> => Running(t)
    BY Doing DEF Return
  <2> QED BY <2>1, FirstsFirst
<1>2. TypeOK
  BY DEF Control
<1> QED BY <1>1, <1>2 DEF Step, Ask, Serve, Return, Merge, Anchor, Unlease, Forget, Clear, Stamp,
      Snap, Write, Written, Mint, Reread, Unmint, See, Current, Sees, Grace, Put, HasKey, Due,
      Overdue, Window, Compare, Debounce, Arm, Update, TypeOK

\* deactivate() forgets: what is left to do, and of what.
LEMMA Forgotten ==
  ASSUME Control, NEW t \in Threads, Forget(t)
  PROVE  /\ Elems(todo'[t]) \cap {"snap", "clear"} # {}
         /\ "clear" \in Elems(todo'[t]) => Empty'
<1>1. todo[t] # <<>> /\ Head(todo[t]) = "forget" /\ cache \in Cache
  BY DEF Forget, Update, At, Control, TypeOK
<1>2. CASE cache.trial
  <2>1. Then(t, <<"snap", "writeOrFail", "see", "put">>)
    BY <1>2, WrittenOut DEF Forget, Set
  <2>2. /\ Plan(<<"snap", "writeOrFail", "see", "put">>)
        /\ Elems(<<"snap", "writeOrFail", "see", "put">>) = {"snap", "writeOrFail", "see", "put"}
    <3>1. Plan(<<"snap", "writeOrFail", "see", "put">>)
      BY Plans
    <3>2. Elems(<<"snap", "writeOrFail", "see", "put">>) = {"snap", "writeOrFail", "see", "put"}
      BY Listed
    <3> QED BY <3>1, <3>2
  <2>3. Elems(todo'[t]) = {"snap", "writeOrFail", "see", "put"} \cup Elems(Tail(todo[t]))
    <3>1. Head(todo[t]) \notin {"snap", "see"} \cup Early
      BY <1>1 DEF Early
    <3> QED BY <1>1, <2>1, <2>2, <3>1, Core
  <2>4. "clear" \notin Elems(Tail(todo[t]))
    BY <1>1, Popped DEF Control, Lists, Firsts
  <2> QED BY <2>3, <2>4
<1>3. CASE ~cache.trial
  <2>1. Then(t, <<"clear", "see", "put">>)
    BY <1>3, WrittenOut DEF Forget, Set
  <2>2. /\ Plan(<<"clear", "see", "put">>)
        /\ Elems(<<"clear", "see", "put">>) = {"clear", "see", "put"}
    BY Plans, Listed
  <2>3. Elems(todo'[t]) = {"clear", "see", "put"} \cup Elems(Tail(todo[t]))
    BY <1>1, <2>1, <2>2, Core DEF Early
  <2>4. Empty'
    BY <1>1, <1>3 DEF Empty, Forget, Update, Cache
  <2> QED BY <2>3, <2>4
<1> QED BY <1>2, <1>3

\* What is pending stays so until it is done.
LEMMA StillDirty ==
  ASSUME Control, NEW t \in Threads, Posted(t), Step(t), ~fails, ~Snap(t), ~Clear(t), Dirty
  PROVE  Dirty'
<1>1. PICK w \in Threads : Elems(todo[w]) \cap {"snap", "clear"} # {}
  BY DEF Dirty
<1>2. CASE w # t
  BY <1>1, <1>2, Moves DEF Dirty
<1>3. CASE w = t
  <2>1. todo[t] # <<>> /\ Head(todo[t]) \in Elems(todo[t])
    BY <1>1, <1>3, FirstsFirst
  <2>2. Head(todo[t]) \notin {"snap", "clear"}
    BY <2>1, Doing DEF At
  <2>3. Head(todo[t]) \notin Early
    BY <1>1, <1>3, <2>1, <2>2, FirstsFirst DEF At
  <2>4. ~Unmint(t)
    BY <2>1 DEF Posted, Unmint, Update, At
  <2>5. Elems(todo[t]) \ {Head(todo[t])} \subseteq Elems(todo'[t])
    BY <2>1, <2>3, <2>4, Moves
  <2>6. Elems(todo'[t]) \cap {"snap", "clear"} # {}
    BY <1>1, <1>3, <2>2, <2>5
  <2> QED BY <2>6 DEF Dirty
<1> QED BY <1>2, <1>3

\* A step of a thread that leaves the cache and the file alone leaves them fitting.
LEMMA StillFits ==
  ASSUME cache' = cache, Landing' = Landing, Fits
  PROVE  Fits'
BY DEF Fits, Empty, Same

\* As long as there is no race a step of a thread keeps all of it.
LEMMA SettledStep ==
  ASSUME Control, \A u \in Threads : Posted(u), ~raced => Settled, NEW t \in Threads, Step(t),
         ~raced'
  PROVE  Settled'
<1>1. ~raced /\ TypeOK /\ fails' = fails /\ None \notin Threads
  BY KeyKept, IdKept, RacesAssumption DEF Control
<1>2. Settled /\ Running(t) /\ \A u \in Threads \ {t} : todo'[u] = todo[u] /\ call'[u] = call[u]
  BY <1>1, Steps, Moves
<1>3. Alone'
  <2> SUFFICES ASSUME NEW w \in Threads, "clear" \in Elems(todo'[w])
               PROVE  Empty' /\ \A u \in Threads \ {w} : ~Running(u)'
    BY DEF Alone
  <2>1. w = t
    BY <1>2 DEF Settled, Alone
  <2>2. Forget(t)
    BY <2>1, Moves
  <2>3. \A u \in Threads \ {t} : ~Running(u)
    BY <2>2, KeyKept
  <2> QED BY <1>2, <2>1, <2>2, <2>3, Forgotten DEF Running
<1>4. ASSUME ~fails PROVE Dirty' \/ Fits'
  <2>1. Dirty \/ Fits
    BY <1>2, <1>4 DEF Settled
  <2>2. CASE Snap(t)
    <3>1. saver' = t /\ snap'[t] = cache /\ cache' = cache
      BY <1>1, <2>2 DEF Snap, TypeOK
    <3>2. Landing' = cache /\ cache # None
      BY <1>1, <3>1, NoneIsNoRecord DEF Landing, TypeOK
    <3> QED BY <3>1, <3>2 DEF Fits, Same
  <2>3. CASE Clear(t)
    <3>1. "clear" \in Elems(todo[t]) /\ At(t, "clear") /\ disk' = None
          /\ UNCHANGED <<cache, saver>>
      BY <2>3, FirstsFirst DEF Clear
    <3>2. Empty /\ \A u \in Threads \ {t} : ~Running(u)
      BY <1>2, <3>1 DEF Settled, Alone
    <3>3. \A u \in Threads : ~AtWrite(u)
      <4>1. ~AtWrite(t)
        BY <3>1 DEF At, AtWrite, Writes
      <4>2. \A u \in Threads \ {t} : ~AtWrite(u)
        BY <3>2, FirstsFirst
      <4> QED BY <4>1, <4>2
    <3>4. saver = None
      BY <1>1, <3>3 DEF Posted, TypeOK
    <3> QED BY <3>1, <3>2, <3>4 DEF Fits, Landing, Empty
  <2>4. CASE Write(t)
    <3>1. AtWrite(t) /\ ~Snap(t) /\ ~Clear(t)
      BY <2>4, Doing DEF AtWrite, At, Writes
    <3>2. saver = t
      BY <3>1 DEF Posted
    <3>3. disk' = snap[t] /\ saver' = None /\ cache' = cache
      BY <1>4, <2>4 DEF Write, Written
    <3>4. Landing' = Landing
      BY <1>1, <3>2, <3>3 DEF Landing
    <3> QED BY <1>4, <2>1, <3>1, <3>3, <3>4, StillDirty, StillFits
  <2>5. CASE Forget(t)
    BY <2>5, Forgotten DEF Dirty
  <2>6. CASE Merge(t) \/ Anchor(t) \/ Unlease(t) \/ Arm(t)
    <3>1. todo[t] # <<>> /\ Head(todo[t]) \in Changes
      BY <2>6 DEF Merge, Anchor, Unlease, Arm, Update, At, Changes
    <3> QED BY <3>1, Moves DEF Dirty
  <2>7. CASE Stamp(t)
    <3>1. todo[t] # <<>> /\ Head(todo[t]) = "stamp" /\ ~Snap(t) /\ ~Clear(t)
      BY <2>7, Doing DEF Stamp, Update, At
    <3>2. CASE cache.trial
      <4>1. cache' = cache
        BY <1>1, <2>7, <3>2 DEF Stamp, Update, TypeOK, Cache
      <4>2. Landing' = Landing
        BY <2>7 DEF Stamp, Update, mine, Landing
      <4> QED BY <1>4, <2>1, <3>1, <4>1, <4>2, StillDirty, StillFits
    <3>3. CASE ~cache.trial
      <4>1. Then(t, <<"snap", "write", "mint", "current">>)
        BY <2>7, <3>3, WrittenOut DEF Stamp, Save
      <4>2. /\ Plan(<<"snap", "write", "mint", "current">>)
            /\ "snap" \in Elems(<<"snap", "write", "mint", "current">>)
        BY Plans, Listed
      <4>3. "snap" \in Elems(todo'[t])
        BY <3>1, <4>1, <4>2, Core DEF Early
      <4> QED BY <4>3 DEF Dirty
    <3> QED BY <3>2, <3>3
  <2>8. CASE Mint(t)
    <3>1. todo[t] # <<>> /\ Head(todo[t]) = "mint" /\ ~Snap(t) /\ ~Clear(t)
      BY <2>8, Doing DEF Mint, Update, At
    <3>2. CASE cache.ftid # None
      <4>1. cache' = cache /\ Landing' = Landing
        BY <2>8, <3>2 DEF Mint, Update, mine, Landing
      <4> QED BY <1>4, <2>1, <3>1, <4>1, StillDirty, StillFits
    <3>3. CASE cache.ftid = None
      <4>1. Then(t, <<"snap", "writeId">>)
        BY <2>8, <3>3 DEF Mint
      <4>2. Plan(<<"snap", "writeId">>) /\ "snap" \in Elems(<<"snap", "writeId">>)
        BY Plans, Listed
      <4>3. "snap" \in Elems(todo'[t])
        BY <3>1, <4>1, <4>2, Core DEF Early
      <4> QED BY <4>3 DEF Dirty
    <3> QED BY <3>2, <3>3
  <2>9. CASE Unmint(t)
    <3>1. "unmint" \in Elems(todo[t])
      BY <2>9, FirstsFirst DEF Unmint, Update, At
    <3> QED BY <1>4, <3>1 DEF Posted
  <2>10. CASE Return(t)
    <3>1. todo[t] = <<>> /\ UNCHANGED <<cache, saver, disk>> /\ ~Snap(t) /\ ~Clear(t)
      BY <2>10 DEF Return, client, Snap, Clear, At
    <3>2. saver # t
      BY <3>1, FirstsFirst DEF Posted
    <3>3. Landing' = Landing
      BY <1>1, <2>10, <3>1, <3>2 DEF Return, Landing, TypeOK
    <3> QED BY <1>4, <2>1, <3>1, <3>3, StillDirty, StillFits
  <2>11. CASE Ask(t) \/ Serve(t) \/ Reread(t) \/ See(t) \/ Current(t) \/ Grace(t) \/ Put(t)
              \/ HasKey(t) \/ Due(t) \/ Overdue(t) \/ Window(t) \/ Compare(t) \/ Debounce(t)
    <3>1. UNCHANGED <<cache, disk, saver, snap>>
      BY <2>11 DEF Ask, Serve, Reread, See, Current, Sees, Grace, Put, HasKey, Due, Overdue,
                   Window, Compare, Debounce, client, mine
    <3>2. ~Snap(t) /\ ~Clear(t)
      BY <2>11 DEF Ask, Serve, Reread, See, Current, Grace, Put, HasKey, Due, Overdue,
                   Window, Compare, Debounce, At, Snap, Clear
    <3>3. Landing' = Landing
      BY <3>1 DEF Landing
    <3> QED BY <1>4, <2>1, <3>1, <3>2, <3>3, StillDirty, StillFits
  <2> QED BY <2>2, <2>3, <2>4, <2>5, <2>6, <2>7, <2>8, <2>9, <2>10, <2>11 DEF Step
<1> QED BY <1>1, <1>3, <1>4 DEF Settled

\* A day that passes changes nothing a record is compared by.
LEMMA DayFits ==
  ASSUME Control, DayPasses, Fits
  PROVE  Fits'
<1>1. cache \in Cache /\ cache.ping = "recent" /\ cache' = [cache EXCEPT !.ping = "old"]
  BY DEF Control, TypeOK, DayPasses
<1>2. Landing' = Landing
  BY DEF DayPasses, mine, Landing
<1>3. /\ [cache' EXCEPT !.ping = "never"] = [cache EXCEPT !.ping = "never"]
      /\ cache'.ping # "never" /\ cache.ping # "never"
  BY <1>1 DEF Cache
<1>4. Empty => Empty'
  BY <1>1 DEF Empty, Cache
<1> QED BY <1>2, <1>3, <1>4 DEF Fits, Same

\* When all calls have returned the store holds what the cache holds: saves are
\* taken and written under save_mutex_, so that none overtakes another, for any
\* number of threads and calls, as long as saves work and no deactivate() overlaps
\* another call.
THEOREM SavesDoNotOvertake == Spec => []StoreSettles
<1> DEFINE I == ~raced => Settled
           All == \A t \in Threads : Posted(t)
<1>1. Init => I
  <2> SUFFICES ASSUME Init PROVE Settled
    OBVIOUS
  <2>1. \A t \in Threads : Elems(todo[t]) = {}
    BY Listed DEF Init
  <2>2. cache # None
    BY ControlInit, NoneIsNoRecord DEF Control, TypeOK
  <2>3. Landing = disk
    BY DEF Init, Landing
  <2>4. Fits
    <3>1. CASE cache = Fresh /\ disk = None
      BY <2>3, <3>1 DEF Fits, Empty, Fresh
    <3>2. CASE disk = cache
      BY <2>2, <2>3, <3>2 DEF Fits, Same
    <3> QED BY <3>1, <3>2 DEF Init
  <2> QED BY <2>1, <2>4 DEF Settled, Alone
<1>2. Control /\ All /\ I /\ [Next]_vars => I'
  <2> SUFFICES ASSUME Control, All, I, [Next]_vars, ~raced' PROVE Settled'
    OBVIOUS
  <2>1. ASSUME NEW t \in Threads, Step(t) PROVE Settled'
    BY <2>1, SettledStep
  <2>2. ASSUME NEW t \in Threads, NEW c \in DOMAIN Script, Call(t, c) PROVE Settled'
    <3>1. /\ todo'[t] = Script[c] /\ UNCHANGED <<fails, cache, disk, saver, snap>>
          /\ \A u \in Threads \ {t} : todo'[u] = todo[u]
          /\ ~raced /\ ~Running(t) /\ \A u \in Threads : ~Clearing(u)
      BY <2>2, ScriptShape, Cuts DEF Control, Call, client, mine
    <3>2. Settled /\ todo[t] = <<>> /\ Elems(todo[t]) = {}
      BY <3>1, FirstsFirst
    <3>3. \A u \in Threads : "clear" \notin Elems(todo'[u])
      <4>1. "clear" \notin Elems(Script[c])
        BY ScriptShape
      <4>2. ASSUME NEW u \in Threads, "clear" \in Elems(todo[u]) PROVE Clearing(u)
        BY <4>2, FirstsFirst DEF Clearing, Posted, At
      <4> QED BY <3>1, <4>1, <4>2
    <3>4. Dirty => Dirty'
      BY <3>1, <3>2 DEF Dirty
    <3>5. Fits => Fits'
      <4>1. Landing' = Landing
        BY <3>1 DEF Landing
      <4> QED BY <3>1, <4>1, StillFits
    <3> QED BY <3>1, <3>2, <3>3, <3>4, <3>5 DEF Settled, Alone
  <2>3. CASE Decide \/ MinutePasses \/ UNCHANGED vars
    <3>1. UNCHANGED <<todo, call, fails, cache, disk, saver, snap, raced>>
      BY <2>3 DEF Decide, MinutePasses, vars, client, mine, past
    <3>2. Landing' = Landing
      BY <3>1 DEF Landing
    <3>3. Fits => Fits'
      BY <3>1, <3>2, StillFits
    <3> QED BY <3>1, <3>3 DEF Settled, Alone, Dirty, Empty, Running
  <2>4. CASE DayPasses
    <3>1. UNCHANGED <<todo, call, fails, raced>>
      BY <2>4 DEF DayPasses, past
    <3>2. Empty => Empty'
      BY <2>4 DEF Control, TypeOK, DayPasses, Empty, Cache
    <3>3. Fits => Fits'
      BY <2>4, DayFits
    <3> QED BY <3>1, <3>2, <3>3 DEF Settled, Alone, Dirty, Running
  <2> QED BY <2>1, <2>2, <2>3, <2>4 DEF Next
<1>3. Control /\ All /\ I => StoreSettles
  <2> SUFFICES ASSUME Control, All, Settled, Quiet, ~fails
               PROVE  \/ disk # None /\ Same(disk, cache)
                      \/ disk = None /\ Empty
    BY DEF StoreSettles, Empty
  <2>1. \A t \in Threads : Elems(todo[t]) = {} /\ ~AtWrite(t)
    BY FirstsFirst DEF Quiet
  <2>2. saver = None
    BY <2>1 DEF Posted, Control, TypeOK
  <2>3. Fits
    BY <2>1 DEF Settled, Dirty
  <2> QED BY <2>2, <2>3 DEF Fits, Landing
<1> QED BY <1>1, <1>2, <1>3, Controlled, AllPosted, PTL DEF Spec
=============================================================================
