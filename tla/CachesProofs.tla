--------------------------- MODULE CachesProofs ---------------------------
(***************************************************************************)
(* What Caches promises of the entries of the cache, in the process of     *)
(* Portal: every program pays for the entries its writes outdate, so that  *)
(* a stale entry is about to be removed or has an excuse.                  *)
(***************************************************************************)
EXTENDS PortalReadsProofs

-----------------------------------------------------------------------------
(* Programs                                                                *)

(* The steps there are.                                                    *)
Steps == [op : {"hit", "read", "find", "reread", "write", "fill", "claim", "drop", "sweep", "await"},
          of : SUBSET (Tables \cup Entries)]

(* What each kind of step is about.                                        *)
Sane(op, of) ==
    /\ op \in {"hit", "fill", "claim"} => \E e \in Entries : of = {e}
    /\ op \in {"drop", "sweep"} => of \subseteq Entries
    /\ op = "write" => of \subseteq Tables

(* What the writers of T owe: the entries that show it, but for those that *)
(* no handler, or not this one, deletes.                                   *)
Owed(k, T) ==
    {e \in Entries : <<k, e>> \notin Skipped /\ \E t \in T \cap Shows[e] : <<t, e>> \notin Overlooked}

(* Step i of program p replaces or removes entry e, with what was read.    *)
Pays(p, i, e) ==
    /\ e \in p[i].of
    /\ \/ p[i].op \in {"claim", "drop", "sweep"}
       \/ p[i].op = "fill" /\ ~(i > 1 /\ p[i - 1].op = "reread")

(* Between steps i and j an entry is paid.                                 *)
PaidWithin(p, i, j, e) == \E m \in (i + 1)..(j - 1) : Pays(p, m, e)

(* What it replaces or removes.                                            *)
Paid(p) == {e \in Entries : \E m \in 1..Len(p) : Pays(p, m, e)}

(* It has no step at which the handler may leave.                          *)
Straight(p) == \A i \in 1..Len(p) : p[i].op \notin {"hit", "find"}

(* What follows a reading that may pass for no row.                        *)
Retried(p, i) ==
    /\ i + 2 <= Len(p) /\ p[i + 1].op = "fill" /\ p[i + 2].op = "claim"
    /\ p[i + 2].of = p[i + 1].of

(* A program that pays what it owes but for D, and pays it before a step   *)
(* at which it may leave.                                                  *)
Leaving(k, p, D) ==
    /\ p \in Seq(Steps) /\ p # <<>>
    /\ \A i \in 1..Len(p) :
          /\ Sane(p[i].op, p[i].of)
          /\ p[i].op = "reread" => Retried(p, i)
    /\ \A i \in 1..Len(p) : p[i].op = "write" =>
          \A e \in Owed(k, p[i].of) :
             /\ e \in D \/ PaidWithin(p, i, Len(p) + 1, e)
             /\ \A j \in (i + 1)..Len(p) : p[j].op \in {"hit", "find"} => PaidWithin(p, i, j, e)

(* The steps of two programs in a row.                                     *)
LEMMA JoinedSteps ==
    ASSUME NEW k, NEW p, NEW q, NEW D, NEW F, Leaving(k, p, D), Leaving(k, q, F)
    PROVE  LET s == p \o q
           IN  /\ p \in Seq(Steps) /\ q \in Seq(Steps) /\ s \in Seq(Steps)
               /\ Len(s) = Len(p) + Len(q) /\ s # <<>>
               /\ Len(p) \in Nat /\ Len(q) \in Nat
               /\ \A i \in 1..Len(p) : s[i] = p[i]
               /\ \A i \in (Len(p) + 1)..Len(s) : i - Len(p) \in 1..Len(q) /\ s[i] = q[i - Len(p)]
               /\ \A i \in 1..Len(p) : \A e : Pays(p, i, e) <=> Pays(s, i, e)
               /\ \A i \in 1..Len(q) : \A e : Pays(q, i, e) <=> Pays(s, i + Len(p), e)
<1> DEFINE s == p \o q
<1>1. /\ p \in Seq(Steps) /\ q \in Seq(Steps) /\ s \in Seq(Steps)
      /\ Len(s) = Len(p) + Len(q) /\ s # <<>>
      /\ Len(p) \in Nat /\ Len(q) \in Nat
      /\ \A i \in 1..Len(p) : s[i] = p[i]
      /\ \A i \in (Len(p) + 1)..Len(s) : i - Len(p) \in 1..Len(q) /\ s[i] = q[i - Len(p)]
  BY DEF Leaving
<1> HIDE DEF s
<1>2. \A i \in 1..Len(p) : p[i].op = "reread" => i + 1 < Len(p) + 1 /\ i + 2 <= Len(p)
  BY DEF Leaving, Retried
<1>3. \A i \in 1..Len(p) : \A e : Pays(p, i, e) <=> Pays(s, i, e)
  <2> SUFFICES ASSUME NEW i \in 1..Len(p), NEW e PROVE Pays(p, i, e) <=> Pays(s, i, e)
    OBVIOUS
  <2>1. s[i] = p[i] /\ i \in Nat
    BY <1>1
  <2>2. i > 1 => s[i - 1] = p[i - 1]
    <3>1. i > 1 => i - 1 \in 1..Len(p)
      BY <1>1
    <3> QED BY <1>1, <3>1
  <2> QED BY <2>1, <2>2 DEF Pays
<1>4. \A i \in 1..Len(q) : \A e : Pays(q, i, e) <=> Pays(s, i + Len(p), e)
  <2> SUFFICES ASSUME NEW i \in 1..Len(q), NEW e PROVE Pays(q, i, e) <=> Pays(s, i + Len(p), e)
    OBVIOUS
  <2>1. i + Len(p) \in (Len(p) + 1)..Len(s) /\ (i + Len(p)) - Len(p) = i
    BY <1>1
  <2>2. s[i + Len(p)] = q[i]
    BY <1>1, <2>1
  <2>3. i > 1 => s[i + Len(p) - 1] = q[i - 1]
    <3> SUFFICES ASSUME i > 1 PROVE s[i + Len(p) - 1] = q[i - 1]
      OBVIOUS
    <3>1. i + Len(p) - 1 \in (Len(p) + 1)..Len(s) /\ (i + Len(p) - 1) - Len(p) = i - 1
      BY <1>1
    <3> QED BY <1>1, <3>1
  <2>4. i = 1 => ~(i + Len(p) > 1 /\ s[i + Len(p) - 1].op = "reread")
    BY <1>1, <1>2
  <2>5. CASE i > 1
    <3>1. i + Len(p) > 1
      BY <1>1, <2>5
    <3> QED BY <2>2, <2>3, <2>5, <3>1 DEF Pays
  <2>6. CASE i = 1
    BY <1>1, <2>1, <2>2, <2>4, <2>6 DEF Pays
  <2> QED BY <1>1, <2>5, <2>6
<1> QED
  BY <1>1, <1>3, <1>4 DEF s

LEMMA StraightJoined ==
    ASSUME NEW k, NEW p, NEW q, NEW D, NEW F, Leaving(k, p, D), Leaving(k, q, F)
    PROVE  /\ Straight(p) /\ Straight(q) => Straight(p \o q)
           /\ Paid(p) \cup Paid(q) \subseteq Paid(p \o q)
<1> DEFINE s == p \o q
<1>1. /\ Len(s) = Len(p) + Len(q) /\ Len(p) \in Nat /\ Len(q) \in Nat
      /\ \A i \in 1..Len(p) : s[i] = p[i]
      /\ \A i \in (Len(p) + 1)..Len(s) : i - Len(p) \in 1..Len(q) /\ s[i] = q[i - Len(p)]
      /\ \A i \in 1..Len(p) : \A e : Pays(p, i, e) <=> Pays(s, i, e)
      /\ \A i \in 1..Len(q) : \A e : Pays(q, i, e) <=> Pays(s, i + Len(p), e)
  BY JoinedSteps
<1> HIDE DEF s
<1>2. ASSUME Straight(p), Straight(q) PROVE Straight(s)
  <2> SUFFICES ASSUME NEW i \in 1..Len(s) PROVE s[i].op \notin {"hit", "find"}
    BY DEF Straight
  <2>1. i \in 1..Len(p) \/ i \in (Len(p) + 1)..Len(s)
    BY <1>1
  <2> QED BY <1>1, <1>2, <2>1 DEF Straight
<1>3. ASSUME NEW e \in Paid(p) PROVE e \in Paid(s)
  BY <1>1 DEF Paid
<1>4. ASSUME NEW e \in Paid(q) PROVE e \in Paid(s)
  <2>1. PICK m \in 1..Len(q) : Pays(q, m, e)
    BY DEF Paid
  <2>2. m + Len(p) \in 1..Len(s) /\ Pays(s, m + Len(p), e)
    BY <1>1, <2>1
  <2> QED BY <2>2 DEF Paid
<1> QED
  BY <1>2, <1>3, <1>4 DEF s

LEMMA Joined ==
    ASSUME NEW k, NEW p, NEW q, NEW D, NEW F, Leaving(k, p, D), Leaving(k, q, F), D = {} \/ Straight(q)
    PROVE  Leaving(k, p \o q, (D \ Paid(q)) \cup F)
<1> DEFINE s == p \o q
           G == (D \ Paid(q)) \cup F
<1>1. /\ p \in Seq(Steps) /\ q \in Seq(Steps) /\ s \in Seq(Steps)
      /\ Len(s) = Len(p) + Len(q) /\ s # <<>>
      /\ Len(p) \in Nat /\ Len(q) \in Nat
      /\ \A i \in 1..Len(p) : s[i] = p[i]
      /\ \A i \in (Len(p) + 1)..Len(s) : i - Len(p) \in 1..Len(q) /\ s[i] = q[i - Len(p)]
  BY JoinedSteps
<1>3. \A i \in 1..Len(p) : \A e : Pays(p, i, e) <=> Pays(s, i, e)
  BY JoinedSteps
<1>4. \A i \in 1..Len(q) : \A e : Pays(q, i, e) <=> Pays(s, i + Len(p), e)
  BY JoinedSteps
<1> HIDE DEF s, G
<1>2. \A i \in 1..Len(p) : p[i].op = "reread" => i + 1 < Len(p) + 1 /\ i + 2 <= Len(p)
  BY DEF Leaving, Retried
<1>5. \A i \in 1..Len(s) :
          /\ Sane(s[i].op, s[i].of)
          /\ s[i].op = "reread" => Retried(s, i)
  <2> SUFFICES ASSUME NEW i \in 1..Len(s)
               PROVE  /\ Sane(s[i].op, s[i].of)
                      /\ s[i].op = "reread" => Retried(s, i)
    OBVIOUS
  <2>1. CASE i \in 1..Len(p)
    <3>1. s[i] = p[i]
      BY <1>1, <2>1
    <3>2. s[i].op = "reread" => Retried(p, i) /\ i + 2 <= Len(p) /\ i + 1 \in 1..Len(p) /\ i + 2 \in 1..Len(p)
      BY <1>1, <1>2, <2>1, <3>1 DEF Leaving
    <3>3. s[i].op = "reread" => s[i + 1] = p[i + 1] /\ s[i + 2] = p[i + 2]
      BY <1>1, <3>2
    <3>4. Sane(s[i].op, s[i].of)
      BY <2>1, <3>1 DEF Leaving
    <3> QED BY <1>1, <3>2, <3>3, <3>4 DEF Retried
  <2>2. CASE i \in (Len(p) + 1)..Len(s)
    <3> DEFINE j == i - Len(p)
    <3>1. j \in 1..Len(q) /\ s[i] = q[j]
      BY <1>1, <2>2
    <3>2. Sane(s[i].op, s[i].of) /\ (s[i].op = "reread" => Retried(q, j))
      BY <3>1 DEF Leaving
    <3>3. ASSUME s[i].op = "reread" PROVE Retried(s, i)
      <4>1. Retried(q, j) /\ j + 2 <= Len(q)
        BY <3>2, <3>3 DEF Retried
      <4>2. /\ i + 1 \in (Len(p) + 1)..Len(s) /\ (i + 1) - Len(p) = j + 1
            /\ i + 2 \in (Len(p) + 1)..Len(s) /\ (i + 2) - Len(p) = j + 2 /\ i + 2 <= Len(s)
        BY <1>1, <3>1, <4>1
      <4>3. s[i + 1] = q[j + 1] /\ s[i + 2] = q[j + 2]
        BY <1>1, <4>2
      <4> QED BY <4>1, <4>2, <4>3 DEF Retried
    <3> QED BY <3>2, <3>3
  <2> QED BY <1>1, <2>1, <2>2
<1>6. \A i \in 1..Len(p), j \in 1..(Len(p) + 1) : \A e : PaidWithin(p, i, j, e) => PaidWithin(s, i, j, e)
  <2> SUFFICES ASSUME NEW i \in 1..Len(p), NEW j \in 1..(Len(p) + 1), NEW e, PaidWithin(p, i, j, e)
               PROVE  PaidWithin(s, i, j, e)
    OBVIOUS
  <2>1. PICK m \in (i + 1)..(j - 1) : Pays(p, m, e)
    BY DEF PaidWithin
  <2>2. m \in 1..Len(p)
    BY <1>1, <2>1
  <2>3. Pays(s, m, e)
    BY <1>3, <2>1, <2>2
  <2> QED BY <2>1, <2>3 DEF PaidWithin
<1>7. \A i \in 1..Len(q), j \in 1..(Len(q) + 1) : \A e :
         PaidWithin(q, i, j, e) => PaidWithin(s, i + Len(p), j + Len(p), e)
  <2> SUFFICES ASSUME NEW i \in 1..Len(q), NEW j \in 1..(Len(q) + 1), NEW e, PaidWithin(q, i, j, e)
               PROVE  PaidWithin(s, i + Len(p), j + Len(p), e)
    OBVIOUS
  <2>1. PICK m \in (i + 1)..(j - 1) : Pays(q, m, e)
    BY DEF PaidWithin
  <2>2. m \in 1..Len(q)
    BY <1>1, <2>1
  <2>3. Pays(s, m + Len(p), e)
    BY <1>4, <2>1, <2>2
  <2>4. m + Len(p) \in (i + Len(p) + 1)..(j + Len(p) - 1)
    BY <1>1, <2>1, <2>2
  <2> QED BY <2>3, <2>4 DEF PaidWithin
<1>8. ASSUME NEW i \in 1..Len(s), s[i].op = "write", NEW e \in Owed(k, s[i].of)
      PROVE  /\ e \in G \/ PaidWithin(s, i, Len(s) + 1, e)
             /\ \A j \in (i + 1)..Len(s) : s[j].op \in {"hit", "find"} => PaidWithin(s, i, j, e)
  <2>1. CASE i \in 1..Len(p)
    <3>1. s[i] = p[i] /\ e \in Entries
      BY <1>1, <2>1, <1>8 DEF Owed
    <3>2. /\ e \in D \/ PaidWithin(p, i, Len(p) + 1, e)
          /\ \A j \in (i + 1)..Len(p) : p[j].op \in {"hit", "find"} => PaidWithin(p, i, j, e)
      BY <1>8, <2>1, <3>1 DEF Leaving
    <3>3. ASSUME NEW j \in (i + 1)..Len(p), s[j].op \in {"hit", "find"} PROVE PaidWithin(s, i, j, e)
      <4>1. j \in 1..Len(p) /\ j \in 1..(Len(p) + 1) /\ s[j] = p[j]
        BY <1>1, <2>1
      <4> QED BY <1>6, <2>1, <3>2, <3>3, <4>1
    <3>4. \A j \in (i + 1)..Len(s) : j \in (i + 1)..Len(p) \/ j \in (Len(p) + 1)..Len(s)
      BY <1>1, <2>1
    <3>5. CASE PaidWithin(p, i, Len(p) + 1, e)
      <4>1. PaidWithin(s, i, Len(p) + 1, e)
        BY <1>1, <1>6, <2>1, <3>5
      <4>2. \A j \in (Len(p) + 1)..(Len(s) + 1) : PaidWithin(s, i, j, e)
        BY <1>1, <4>1 DEF PaidWithin
      <4>3. \A j \in (Len(p) + 1)..Len(s) : PaidWithin(s, i, j, e)
        BY <1>1, <4>2
      <4>4. PaidWithin(s, i, Len(s) + 1, e)
        <5>1. Len(s) + 1 \in (Len(p) + 1)..(Len(s) + 1)
          BY <1>1
        <5> QED BY <4>2, <5>1
      <4> QED BY <3>3, <3>4, <4>3, <4>4
    <3>6. CASE e \in D
      <4>1. \A j \in (Len(p) + 1)..Len(s) : s[j].op \notin {"hit", "find"}
        BY <1>1, <3>6 DEF Straight
      <4>2. e \in Paid(q) => PaidWithin(s, i, Len(s) + 1, e)
        <5> SUFFICES ASSUME e \in Paid(q) PROVE PaidWithin(s, i, Len(s) + 1, e)
          OBVIOUS
        <5>1. PICK m \in 1..Len(q) : Pays(q, m, e)
          BY DEF Paid
        <5>2. Pays(s, m + Len(p), e) /\ m + Len(p) \in (i + 1)..(Len(s) + 1 - 1)
          BY <1>1, <1>4, <2>1, <5>1
        <5> QED BY <5>2 DEF PaidWithin
      <4> QED BY <3>3, <3>4, <3>6, <4>1, <4>2 DEF G
    <3> QED BY <3>2, <3>5, <3>6
  <2>2. CASE i \in (Len(p) + 1)..Len(s)
    <3> DEFINE h == i - Len(p)
    <3>1. h \in 1..Len(q) /\ s[i] = q[h] /\ h + Len(p) = i
      BY <1>1, <2>2
    <3>2. /\ e \in F \/ PaidWithin(q, h, Len(q) + 1, e)
          /\ \A j \in (h + 1)..Len(q) : q[j].op \in {"hit", "find"} => PaidWithin(q, h, j, e)
      BY <1>8, <3>1 DEF Leaving
    <3>3. PaidWithin(q, h, Len(q) + 1, e) => PaidWithin(s, i, Len(q) + 1 + Len(p), e)
      <4>1. Len(q) + 1 \in 1..(Len(q) + 1)
        BY <1>1
      <4>2. PaidWithin(q, h, Len(q) + 1, e) => PaidWithin(s, h + Len(p), (Len(q) + 1) + Len(p), e)
        BY <1>7, <3>1, <3>2, <4>1
      <4> QED BY <3>1, <4>2
    <3>4. ASSUME NEW j \in (i + 1)..Len(s), s[j].op \in {"hit", "find"} PROVE PaidWithin(s, i, j, e)
      <4>1. j - Len(p) \in (h + 1)..Len(q) /\ s[j] = q[j - Len(p)] /\ (j - Len(p)) + Len(p) = j
            /\ j - Len(p) \in 1..(Len(q) + 1)
        BY <1>1, <2>2, <3>1
      <4>2. PaidWithin(q, h, j - Len(p), e)
        BY <3>2, <3>4, <4>1
      <4> QED BY <1>7, <3>1, <4>1, <4>2
    <3>5. Len(q) + 1 + Len(p) = Len(s) + 1
      BY <1>1
    <3> QED BY <3>2, <3>3, <3>4, <3>5 DEF G
  <2> QED BY <1>1, <2>1, <2>2
<1> QED
  BY <1>1, <1>5, <1>8 DEF Leaving, s, G

(* The step there is of a kind and its argument.                           *)
Fits(op, of) ==
    /\ op \in {"hit", "read", "find", "write", "fill", "claim", "drop", "sweep", "await"}
    /\ of \subseteq Tables \cup Entries /\ Sane(op, of)

LEMMA StepLeaves ==
    ASSUME NEW k, NEW op, NEW of, Fits(op, of)
    PROVE  /\ op # "write" => Leaving(k, Step(op, of), {})
           /\ op = "write" => Leaving(k, Step(op, of), Owed(k, of))
           /\ op \notin {"hit", "find"} => Straight(Step(op, of))
           /\ op \in {"fill", "claim", "drop", "sweep"} => Paid(Step(op, of)) = of
<1> DEFINE s == [op |-> op, of |-> of]
<1>1. s \in Steps /\ s.op = op /\ s.of = of /\ op # "reread" /\ Sane(op, of)
  BY DEF Steps, Fits
<1> HIDE DEF s
<1>2. Step(op, of) = <<s>>
  BY DEF Step, s
<1>3. <<s>> \in Seq(Steps) /\ Len(<<s>>) = 1 /\ <<s>>[1] = s /\ <<s>> # <<>>
  BY <1>1
<1>4. (op # "write" => Leaving(k, <<s>>, {})) /\ (op = "write" => Leaving(k, <<s>>, Owed(k, of)))
  BY <1>1, <1>3 DEF Leaving
<1>5. op \notin {"hit", "find"} => Straight(<<s>>)
  BY <1>1, <1>3 DEF Straight
<1>6. op \in {"fill", "claim", "drop", "sweep"} => \A e : Pays(<<s>>, 1, e) <=> e \in of
  BY <1>1, <1>3 DEF Pays
<1>7. op \in {"fill", "claim", "drop", "sweep"} => of \subseteq Entries
  BY <1>1 DEF Sane
<1>8. op \in {"fill", "claim", "drop", "sweep"} => Paid(<<s>>) = of
  BY <1>1, <1>3, <1>6, <1>7 DEF Paid
<1> QED
  BY <1>2, <1>4, <1>5, <1>8

LEMMA StepsFit ==
  /\ \A e \in Entries : Fits("hit", {e}) /\ Fits("fill", {e}) /\ Fits("claim", {e}) /\ Fits("drop", {e})
  /\ \A T \in SUBSET Tables : Fits("read", T) /\ Fits("find", T) /\ Fits("write", T)
  /\ \A E \in SUBSET Entries : Fits("sweep", E)
  /\ Fits("await", {})
BY DEF Fits, Sane

LEMMA StepsLeave ==
    ASSUME NEW k
    PROVE  /\ \A e \in Entries : /\ Leaving(k, Hit(e), {}) /\ Leaving(k, Fill(e), {})
                                 /\ Leaving(k, Claim(e), {}) /\ Leaving(k, Drop(e), {})
           /\ \A T \in SUBSET Tables : /\ Leaving(k, Read(T), {}) /\ Leaving(k, Find(T), {})
                                       /\ Leaving(k, Write(T), Owed(k, T))
           /\ \A E \in SUBSET Entries : Leaving(k, Sweep(E), {})
           /\ Leaving(k, Await, {})
BY StepLeaves, StepsFit DEF Hit, Fill, Claim, Drop, Read, Find, Write, Sweep, Await

LEMMA StepsPay ==
  /\ \A e \in Entries : /\ Straight(Fill(e)) /\ Straight(Claim(e)) /\ Straight(Drop(e))
                        /\ Paid(Fill(e)) = {e} /\ Paid(Claim(e)) = {e} /\ Paid(Drop(e)) = {e}
  /\ \A E \in SUBSET Entries : Straight(Sweep(E)) /\ Paid(Sweep(E)) = E
  /\ \A T \in SUBSET Tables : Straight(Read(T)) /\ Straight(Write(T))
  /\ Straight(Await)
BY StepLeaves, StepsFit DEF Fill, Claim, Drop, Read, Write, Sweep, Await

LEMMA ShowsAre ==
  /\ Entries = {User, Info, List, Search, OfEnterprise, TotalJob, Fcm, JobEmbedding, EnterpriseEmbedding}
  /\ Shows[User] = {"profile", "roles", "status", "categories"}
  /\ Shows[Info] = {"enterprise", "points", "addresses", "categories"}
  /\ Shows[List] = {"enterprise", "points", "addresses", "categories"}
  /\ Shows[Search] = {"jobs", "addresses", "categories", "enterprise", "points", "tags", "boosts"}
  /\ Shows[OfEnterprise] = {"jobs", "addresses", "categories", "enterprise", "applications", "tags",
                            "boosts"}
  /\ Shows[TotalJob] = {"jobset"} /\ Shows[Fcm] = {"tokens"}
  /\ Shows[JobEmbedding] = {"jobs"} /\ Shows[EnterpriseEmbedding] = {"enterprise"}
BY DEF Shows, Entries, User, Info, List, Search, OfEnterprise, TotalJob, Fcm, JobEmbedding,
       EnterpriseEmbedding

LEMMA TablesAre ==
  {"profile", "roles", "status", "categories", "enterprise", "points", "addresses", "jobs", "tags",
   "boosts", "applications", "jobset", "tokens"} \subseteq Tables
<1>1. \A e \in Entries : Shows[e] \subseteq Tables
  BY DEF Tables
<1> QED
  BY <1>1, ShowsAre

LEMMA OwedFor ==
    ASSUME NEW k
    PROVE  /\ Owed(k, {"profile"}) \subseteq {User} /\ Owed(k, {"roles"}) \subseteq {User}
           /\ Owed(k, {"status"}) = {} /\ Owed(k, {"categories"}) = {} /\ Owed(k, {"points"}) = {}
           /\ Owed(k, {"tags"}) = {} /\ Owed(k, {"addresses"}) \subseteq {Info}
           /\ Owed(k, {"enterprise"}) \subseteq {Info, List, EnterpriseEmbedding}
           /\ Owed(k, {"jobs"}) \subseteq {Search, OfEnterprise, JobEmbedding}
           /\ Owed(k, {"jobs", "jobset"}) \subseteq {Search, OfEnterprise, JobEmbedding, TotalJob}
           /\ Owed(k, {"boosts"}) \subseteq {Search, OfEnterprise}
           /\ Owed(k, {"applications"}) \subseteq {OfEnterprise} /\ Owed(k, {"tokens"}) \subseteq {Fcm}
<1> DEFINE Late(T) == {e \in Entries : \E t \in T \cap Shows[e] : <<t, e>> \notin Overlooked}
<1>1. /\ Late({"profile"}) \subseteq {User} /\ Late({"roles"}) \subseteq {User}
      /\ Late({"jobs"}) \subseteq {Search, OfEnterprise, JobEmbedding}
      /\ Late({"jobs", "jobset"}) \subseteq {Search, OfEnterprise, JobEmbedding, TotalJob}
      /\ Late({"boosts"}) \subseteq {Search, OfEnterprise}
      /\ Late({"applications"}) \subseteq {OfEnterprise} /\ Late({"tokens"}) \subseteq {Fcm}
  BY ShowsAre
<1>2. Late({"status"}) = {}
  BY ShowsAre DEF Overlooked
<1>3. Late({"categories"}) = {}
  BY ShowsAre DEF Overlooked
<1>4. Late({"points"}) = {}
  BY ShowsAre DEF Overlooked
<1>5. Late({"tags"}) = {}
  BY ShowsAre DEF Overlooked, JobLists
<1>6. Late({"addresses"}) \subseteq {Info}
  BY ShowsAre DEF Overlooked
<1>7. Late({"enterprise"}) \subseteq {Info, List, EnterpriseEmbedding}
  BY ShowsAre DEF Overlooked, JobLists
<1>8. \A T : Owed(k, T) \subseteq Late(T)
  BY DEF Owed
<1> HIDE DEF Late
<1> QED
  BY <1>1, <1>2, <1>3, <1>4, <1>5, <1>6, <1>7, <1>8

(* What the handlers owe that delete an entry too early or not at all.     *)
LEMMA OwedBy ==
  /\ Owed("createJob", {"jobs", "jobset"}) \subseteq {JobEmbedding}
  /\ Owed("removeEnterprise", RemovedTables) = {} /\ Owed("cancelEnterprise", RemovedTables) = {}
  /\ Owed("updateRegisterEnterprise", {"enterprise"}) \subseteq {List, EnterpriseEmbedding}
  /\ Owed("updateRegisterActive", {"enterprise"}) \subseteq {List, EnterpriseEmbedding}
  /\ Owed("createEnterprise", {"enterprise"}) \subseteq {List, EnterpriseEmbedding}
  /\ Owed("updateAddress", {"addresses"}) = {} /\ Owed("removeAddresses", {"addresses"}) = {}
  /\ Owed("expireBoosts", {"boosts"}) = {} /\ Owed("expireBoosts", {"jobs"}) \subseteq {JobEmbedding}
  /\ Owed("updateApplicationStatus", {"applications"}) = {}
  /\ Owed("changeStatus", {"jobs"}) \subseteq {Search, OfEnterprise}
<1>1. \A k, T, e : e \in Owed(k, T) => <<k, e>> \notin Skipped
  BY DEF Owed
<1>2. /\ <<"createJob", Search>> \in Skipped /\ <<"createJob", OfEnterprise>> \in Skipped
      /\ <<"createJob", TotalJob>> \in Skipped
  BY DEF Skipped
<1> DEFINE Gone == {Info, List, EnterpriseEmbedding, TotalJob, Search, OfEnterprise, JobEmbedding}
<1>3. /\ \A e \in Gone : <<"removeEnterprise", e>> \in Skipped
      /\ \A e \in Gone : <<"cancelEnterprise", e>> \in Skipped
  BY DEF Skipped
<1>6. \A k, e : e \in Owed(k, RemovedTables) => e \in Gone
  BY ShowsAre DEF Owed, RemovedTables
<1>4. /\ <<"updateRegisterEnterprise", Info>> \in Skipped /\ <<"createEnterprise", Info>> \in Skipped
      /\ <<"updateRegisterActive", Info>> \in Skipped
      /\ <<"updateAddress", Info>> \in Skipped /\ <<"removeAddresses", Info>> \in Skipped
  BY DEF Skipped
<1>5. /\ <<"expireBoosts", Search>> \in Skipped /\ <<"expireBoosts", OfEnterprise>> \in Skipped
      /\ <<"updateApplicationStatus", OfEnterprise>> \in Skipped
      /\ <<"changeStatus", JobEmbedding>> \in Skipped
  BY DEF Skipped, JobLists
<1>7. Owed("removeEnterprise", RemovedTables) = {} /\ Owed("cancelEnterprise", RemovedTables) = {}
  BY <1>1, <1>3, <1>6
<1> HIDE DEF Gone
<1> QED
  BY <1>1, <1>2, <1>4, <1>5, <1>7, OwedFor

(* A program that pays all it owes.                                        *)
Settled(k, p) == Leaving(k, p, {})

(* A call that pays for the entries E.                                     *)
Clears(k, p, E) == Settled(k, p) /\ Straight(p) /\ E \subseteq Paid(p)

LEMMA Wider ==
    ASSUME NEW k, NEW p, NEW D, NEW E, Leaving(k, p, D), D \subseteq E
    PROVE  Leaving(k, p, E)
<1>1. D \subseteq E
  OBVIOUS
<1> QED
  BY <1>1 DEF Leaving

LEMMA ThenSettled ==
    ASSUME NEW k, NEW p, NEW q, Settled(k, p), Settled(k, q)
    PROVE  Settled(k, p \o q)
BY Joined DEF Settled

LEMMA ThenWrites ==
    ASSUME NEW k, NEW p, NEW T \in SUBSET Tables, NEW D, Settled(k, p), Owed(k, T) \subseteq D
    PROVE  Leaving(k, p \o Write(T), D)
<1>1. Leaving(k, p, {}) /\ Leaving(k, Write(T), Owed(k, T))
  BY StepsLeave DEF Settled
<1>2. Leaving(k, p \o Write(T), ({} \ Paid(Write(T))) \cup Owed(k, T))
  BY <1>1, Joined
<1> QED
  BY <1>2, Wider

LEMMA ThenClears ==
    ASSUME NEW k, NEW p, NEW q, NEW D, NEW E, NEW F, Leaving(k, p, D), Clears(k, q, E), D \ E \subseteq F
    PROVE  Leaving(k, p \o q, F)
<1>1. Leaving(k, q, {}) /\ Straight(q) /\ E \subseteq Paid(q)
  BY DEF Clears, Settled
<1>2. Leaving(k, p \o q, (D \ Paid(q)) \cup {})
  BY <1>1, Joined
<1>3. (D \ Paid(q)) \cup {} \subseteq F
  BY <1>1
<1> QED
  BY <1>2, <1>3, Wider

LEMMA BothClear ==
    ASSUME NEW k, NEW p, NEW q, NEW E, NEW F, Clears(k, p, E), Clears(k, q, F)
    PROVE  Clears(k, p \o q, E \cup F)
<1>1. Settled(k, p \o q)
  BY ThenSettled DEF Clears
<1>2. Straight(p \o q) /\ Paid(p) \cup Paid(q) \subseteq Paid(p \o q)
  BY StraightJoined DEF Clears, Settled
<1> QED
  BY <1>1, <1>2 DEF Clears

(* The calls that only read.                                               *)
LEMMA ReadsSettle ==
    ASSUME NEW k
    PROVE  /\ \A e \in Entries : Settled(k, Hit(e)) /\ Settled(k, Fill(e)) /\ Settled(k, Drop(e))
           /\ \A T \in SUBSET Tables : Settled(k, Read(T)) /\ Settled(k, Find(T))
           /\ \A E \in SUBSET Entries : Settled(k, Sweep(E))
           /\ Settled(k, Await)
BY StepsLeave DEF Settled

LEMMA CallsClear ==
    ASSUME NEW k
    PROVE  /\ \A e \in Entries : /\ Clears(k, Fill(e), {e}) /\ Clears(k, Claim(e), {e})
                                 /\ Clears(k, Drop(e), {e})
           /\ \A E \in SUBSET Entries : Clears(k, Sweep(E), E)
           /\ \A T \in SUBSET Tables : Clears(k, Read(T), {})
           /\ Clears(k, Await, {})
BY StepsLeave, StepsPay DEF Clears, Settled

LEMMA NamedClear ==
    ASSUME NEW k
    PROVE  /\ Clears(k, RemoveUserProfile, {User}) /\ Clears(k, CacheUserProfile, {User})
           /\ Clears(k, DeleteEnterpriseInfo, {Info}) /\ Clears(k, RemoveListEnterprise, {List})
           /\ Clears(k, DeleteEnterpriseTotalJob, {TotalJob})
           /\ Clears(k, RemoveEnterpriseJobFilterData, {OfEnterprise})
           /\ Clears(k, RemoveFCMToken, {Fcm}) /\ Clears(k, RemoveAllFCMTokens, {Fcm})
           /\ Clears(k, SweepJobs, {Search, OfEnterprise})
           /\ Clears(k, CreateJobEmbedding, {JobEmbedding})
           /\ Clears(k, DeleteOneJobEmbedding, {JobEmbedding})
           /\ Clears(k, CreateEnterpriseEmbedding, {EnterpriseEmbedding})
           /\ Clears(k, DeleteOneEnterpriseEmbedding, {EnterpriseEmbedding})
           /\ Clears(k, RemoveSearchJobsCache, {Search, OfEnterprise})
           /\ Clears(k, RemoveEnterpriseSearchJobsCache, {OfEnterprise})
<1>1. /\ Clears(k, RemoveUserProfile, {User}) /\ Clears(k, CacheUserProfile, {User})
      /\ Clears(k, DeleteEnterpriseInfo, {Info}) /\ Clears(k, RemoveListEnterprise, {List})
      /\ Clears(k, DeleteEnterpriseTotalJob, {TotalJob})
      /\ Clears(k, RemoveEnterpriseJobFilterData, {OfEnterprise})
      /\ Clears(k, RemoveFCMToken, {Fcm}) /\ Clears(k, RemoveAllFCMTokens, {Fcm})
  BY CallsClear, ShowsAre DEF RemoveUserProfile, CacheUserProfile, DeleteEnterpriseInfo,
     RemoveListEnterprise, DeleteEnterpriseTotalJob, RemoveEnterpriseJobFilterData, RemoveFCMToken,
     RemoveAllFCMTokens
<1>2. Clears(k, RemoveSearchJobsCache, {Search, OfEnterprise})
  BY CallsClear, ShowsAre DEF RemoveSearchJobsCache, JobLists
<1>3. Clears(k, RemoveEnterpriseSearchJobsCache, {OfEnterprise})
  BY CallsClear, ShowsAre DEF RemoveEnterpriseSearchJobsCache
<1>4. Clears(k, SweepJobs, {Search, OfEnterprise} \cup {OfEnterprise})
  BY <1>2, <1>3, BothClear DEF SweepJobs
<1>5. /\ Clears(k, Read({"jobs"}), {}) /\ Clears(k, Fill(JobEmbedding), {JobEmbedding})
      /\ Clears(k, Read({"enterprise"}), {}) /\ Clears(k, Fill(EnterpriseEmbedding), {EnterpriseEmbedding})
      /\ Clears(k, Drop(JobEmbedding), {JobEmbedding})
      /\ Clears(k, Drop(EnterpriseEmbedding), {EnterpriseEmbedding})
  BY CallsClear, ShowsAre, TablesAre
<1>6. Clears(k, CreateJobEmbedding, {} \cup {JobEmbedding})
  BY <1>5, BothClear DEF CreateJobEmbedding, DetailJobById
<1>7. Clears(k, CreateEnterpriseEmbedding, {} \cup {EnterpriseEmbedding})
  BY <1>5, BothClear DEF CreateEnterpriseEmbedding, FindEnterpriseById
<1>8. {Search, OfEnterprise} \cup {OfEnterprise} = {Search, OfEnterprise}
      /\ {} \cup {JobEmbedding} = {JobEmbedding}
      /\ {} \cup {EnterpriseEmbedding} = {EnterpriseEmbedding}
  OBVIOUS
<1> QED
  BY <1>1, <1>2, <1>3, <1>4, <1>5, <1>6, <1>7, <1>8
     DEF DeleteOneJobEmbedding, DeleteOneEnterpriseEmbedding

(* A reading again that fails leaves the SET of what was not read; the SET *)
(* with the roles of the caller's token follows in either case.            *)
LEMMA RefreshedClears ==
    ASSUME NEW k
    PROVE  Clears(k, Refreshed, {User})
<1> DEFINE a == [op |-> "reread", of |-> UserTables]
           b == [op |-> "fill", of |-> {User}]
           c == [op |-> "claim", of |-> {User}]
           s == <<a>> \o <<b>> \o <<c>>
<1>1. UserTables \subseteq Tables /\ User \in Entries
  BY TablesAre, ShowsAre DEF UserTables
<1>2. a \in Steps /\ b \in Steps /\ c \in Steps
  BY <1>1 DEF Steps
<1>3. /\ a.op = "reread" /\ b.op = "fill" /\ b.of = {User} /\ c.op = "claim" /\ c.of = {User}
  OBVIOUS
<1>4. Refreshed = s
  BY DEF Refreshed, Reread, CacheUserProfile, Fill, Claim, Step
<1> HIDE DEF a, b, c
<1>5. s \in Seq(Steps) /\ Len(s) = 3 /\ s # <<>> /\ s[1] = a /\ s[2] = b /\ s[3] = c
  BY <1>2
<1> HIDE DEF s
<1>6. Sane(a.op, a.of) /\ Sane(b.op, b.of) /\ Sane(c.op, c.of)
  BY <1>1, <1>3 DEF Sane
<1>7. \A i \in 1..3 : i = 1 \/ i = 2 \/ i = 3
  OBVIOUS
<1>8. Settled(k, s)
  <2>1. \A i \in 1..Len(s) : s[i].op # "write" /\ Sane(s[i].op, s[i].of)
    BY <1>3, <1>5, <1>6, <1>7
  <2>2. \A i \in 1..Len(s) : s[i].op = "reread" => Retried(s, i)
    <3>1. \A i \in 1..Len(s) : s[i].op = "reread" => i = 1
      BY <1>3, <1>5, <1>7
    <3>2. 1 + 1 = 2 /\ 1 + 2 = 3
      OBVIOUS
    <3>3. 1 + 2 <= Len(s) /\ s[1 + 1] = b /\ s[1 + 2] = c
      BY <1>5, <3>2
    <3>4. Retried(s, 1)
      BY <1>3, <3>3 DEF Retried
    <3> QED BY <3>1, <3>4
  <2> QED BY <1>5, <2>1, <2>2 DEF Settled, Leaving
<1>9. Straight(s)
  BY <1>3, <1>5, <1>7 DEF Straight
<1>10. Pays(s, 3, User)
  BY <1>3, <1>5 DEF Pays
<1>11. User \in Paid(s)
  BY <1>1, <1>5, <1>10 DEF Paid
<1> QED
  BY <1>4, <1>8, <1>9, <1>11 DEF Clears

-----------------------------------------------------------------------------
(* The programs pay what they owe, one by one.                             *)

LEMMA FindsSettle ==
    ASSUME NEW k
    PROVE  /\ \A t \in {"profile", "roles", "status", "categories", "enterprise", "points", "addresses",
                        "jobs", "tags", "boosts", "applications", "jobset", "tokens"} :
                 Settled(k, Find({t})) /\ Settled(k, Read({t}))
           /\ Settled(k, Find({})) /\ Settled(k, Find({"profile", "status"}))
           /\ Settled(k, Find({"profile", "roles"})) /\ Settled(k, Find({"roles", "status"}))
           /\ Settled(k, Find(UserTables)) /\ Settled(k, Read({"enterprise", "points", "addresses"}))
           /\ Settled(k, Read(ListedTables))
<1>1. \A t \in {"profile", "roles", "status", "categories", "enterprise", "points", "addresses",
                "jobs", "tags", "boosts", "applications", "jobset", "tokens"} : {t} \in SUBSET Tables
  BY TablesAre
<1>2. /\ {} \in SUBSET Tables /\ {"profile", "status"} \in SUBSET Tables
      /\ {"profile", "roles"} \in SUBSET Tables /\ {"roles", "status"} \in SUBSET Tables
      /\ UserTables \in SUBSET Tables /\ {"enterprise", "points", "addresses"} \in SUBSET Tables
  BY TablesAre DEF UserTables
<1>3. ListedTables \in SUBSET Tables
  BY ShowsAre DEF ListedTables, Tables
<1> QED
  BY <1>1, <1>2, <1>3, ReadsSettle

LEMMA GetsSettle ==
    ASSUME NEW k
    PROVE  /\ Settled(k, GetUserByAccountId) /\ Settled(k, GetUserByProfileId)
           /\ Settled(k, GetUserByProfileIdAndFavorite)
           /\ Settled(k, GetMe) /\ Settled(k, FindAll) /\ Settled(k, Filter)
           /\ Settled(k, GetJobOfEnterprise) /\ Settled(k, TotalJobsByEnterprise)
           /\ Settled(k, GetTokensByAccountId)
<1>1. \A e \in Entries : Settled(k, Hit(e)) /\ Settled(k, Fill(e))
  BY ReadsSettle
<1>2. /\ User \in Entries /\ Info \in Entries /\ List \in Entries /\ Search \in Entries
      /\ OfEnterprise \in Entries /\ TotalJob \in Entries /\ Fcm \in Entries
  BY ShowsAre
<1>3. Settled(k, GetUserByAccountId)
  BY <1>1, <1>2, FindsSettle, ThenSettled DEF GetUserByAccountId, GetUserProfile, CacheUserProfile
<1>4. Settled(k, GetUserByProfileId) /\ Settled(k, GetUserByProfileIdAndFavorite)
  BY <1>3, FindsSettle, ThenSettled DEF GetUserByProfileId, GetUserByProfileIdAndFavorite
<1>5. Settled(k, ReadEnterprise)
  BY FindsSettle, ThenSettled DEF ReadEnterprise, FindCategories
<1>6. Settled(k, GetMe) /\ Settled(k, FindAll)
  BY <1>1, <1>2, <1>5, ThenSettled
     DEF GetMe, FindAll, GetEnterpriseInfo, CacheEnterpriseInfo, GetListEnterprise, CacheListEnterprise
<1>7. Settled(k, Filter) /\ Settled(k, GetJobOfEnterprise)
  BY <1>1, <1>2, FindsSettle, ThenSettled
     DEF Filter, GetJobOfEnterprise, GetCacheJobFilter, CacheJobFilterData, GetCacheEnterpriseJobFilter,
         CacheEnterpriseJobFilterData
<1>8. Settled(k, TotalJobsByEnterprise)
  BY <1>1, <1>2, FindsSettle, ThenSettled DEF TotalJobsByEnterprise, CountJobs, CacheEnterpriseTotalJob
<1>9. Settled(k, GetTokensByAccountId)
  BY <1>1, <1>2, FindsSettle, ThenSettled DEF GetTokensByAccountId, GetFCMTokens, CacheFCMToken
<1> QED
  BY <1>3, <1>4, <1>6, <1>7, <1>8, <1>9

LEMMA WritesFit ==
  \A t \in {"profile", "roles", "status", "categories", "enterprise", "points", "addresses", "jobs",
            "tags", "boosts", "applications", "tokens"} : {t} \in SUBSET Tables
BY TablesAre

LEMMA UsersSettle ==
    ASSUME NEW k
    PROVE  /\ Settled(k, UpdateUser) /\ Settled(k, UpdatePersonalProfile)
           /\ Settled(k, UpdateCandidateProfile) /\ Settled(k, UpdateRoles)
           /\ Settled(k, UpdateUserStatus) /\ Settled(k, UpdateCategory)
<1>1. /\ Leaving(k, Find({"profile", "roles"}) \o Write({"profile"}), {User})
      /\ Leaving(k, Find({"profile"}) \o Write({"profile"}), {User})
      /\ Leaving(k, Find({"roles", "status"}) \o Write({"roles"}), {User})
      /\ Leaving(k, Find({"profile", "status"}) \o Write({"status"}), {})
      /\ Leaving(k, Find({"categories"}) \o Write({"categories"}), {})
  BY FindsSettle, WritesFit, OwedFor, ThenWrites
<1>2. Settled(k, Find({"profile"}) \o Find({"categories"}))
  BY FindsSettle, ThenSettled
<1>3. Leaving(k, Find({"profile"}) \o Find({"categories"}) \o Write({"profile"}), {User})
  BY <1>2, WritesFit, OwedFor, ThenWrites
<1>4. /\ Clears(k, CacheUserProfile, {User}) /\ Clears(k, Refreshed, {User})
      /\ Clears(k, RemoveUserProfile, {User}) /\ {User} \ {User} \subseteq {}
  BY NamedClear, RefreshedClears
<1>5. Leaving(k, UpdateUser, {})
  BY <1>1, <1>4, ThenClears DEF UpdateUser
<1>6. Leaving(k, UpdatePersonalProfile, {})
  BY <1>1, <1>4, ThenClears DEF UpdatePersonalProfile
<1>7. Leaving(k, UpdateCandidateProfile, {})
  BY <1>3, <1>4, ThenClears DEF UpdateCandidateProfile
<1>8. Leaving(k, UpdateRoles, {})
  BY <1>1, <1>4, ThenClears DEF UpdateRoles
<1> QED
  BY <1>1, <1>5, <1>6, <1>7, <1>8 DEF Settled, UpdateUserStatus, UpdateCategory

LEMMA DevicesSettle ==
    ASSUME NEW k
    PROVE  /\ Settled(k, CreateToken) /\ Settled(k, UpdateToken) /\ Settled(k, DeleteTokens)
           /\ Settled(k, DeleteTokenWithoutAccountId)
<1>1. Leaving(k, Find({"tokens"}) \o Write({"tokens"}), {Fcm})
  BY FindsSettle, WritesFit, OwedFor, ThenWrites
<1>2. Leaving(k, Write({"tokens"}), {Fcm})
  BY StepsLeave, WritesFit, OwedFor, Wider
<1>3. /\ Clears(k, RemoveFCMToken, {Fcm}) /\ Clears(k, RemoveAllFCMTokens, {Fcm})
      /\ {Fcm} \ {Fcm} \subseteq {}
  BY NamedClear
<1>4. Leaving(k, CreateToken, {}) /\ Leaving(k, UpdateToken, {})
  BY <1>1, <1>3, ThenClears DEF CreateToken, UpdateToken
<1>5. Leaving(k, DeleteTokens, {})
  BY <1>2, <1>3, ThenClears DEF DeleteTokens
<1>6. Leaving(k, DeleteTokenWithoutAccountId, {})
  BY <1>2, <1>3, ThenClears DEF DeleteTokenWithoutAccountId
<1> QED
  BY <1>4, <1>5, <1>6 DEF Settled

LEMMA TagsSettle ==
    ASSUME NEW k
    PROVE  /\ Settled(k, UpdateTag) /\ Settled(k, RemoveTag) /\ Settled(k, RemoveTags)
           /\ Settled(k, UpdateBoostLimit) /\ Settled(k, UpdateEnterprisePayment)
<1>1. /\ Leaving(k, Find({"tags"}) \o Write({"tags"}), {})
      /\ Leaving(k, Find({"points"}) \o Write({"points"}), {})
  BY FindsSettle, WritesFit, OwedFor, ThenWrites
<1>2. Settled(k, RemoveListEnterprise)
  BY NamedClear DEF Clears
<1>3. Settled(k, Find({"points"}) \o RemoveListEnterprise)
  BY <1>2, FindsSettle, ThenSettled
<1>4. Leaving(k, UpdateEnterprisePayment, {})
  BY <1>3, WritesFit, OwedFor, ThenWrites DEF UpdateEnterprisePayment
<1> QED
  BY <1>1, <1>4 DEF Settled, UpdateTag, RemoveTag, RemoveTags, UpdateBoostLimit

LEMMA EnterpriseSettles ==
    ASSUME NEW k
    PROVE  /\ Settled(k, UpdatePartialInfoActive) /\ Settled(k, Approve) /\ Settled(k, Block)
           /\ Settled(k, UpdateCompanyAddress)
           /\ Settled(k, UpdateActive) /\ Settled(k, UpdateInactive)
<1> DEFINE A == CreateEnterpriseEmbedding
           B == DeleteOneEnterpriseEmbedding
<1>1. /\ Clears(k, DeleteEnterpriseInfo, {Info}) /\ Clears(k, RemoveListEnterprise, {List})
      /\ Clears(k, A, {EnterpriseEmbedding}) /\ Clears(k, B, {EnterpriseEmbedding})
      /\ Clears(k, Await, {})
  BY NamedClear, CallsClear
<1> HIDE DEF A, B
<1>2. /\ Settled(k, DeleteEnterpriseInfo) /\ Settled(k, RemoveListEnterprise) /\ Settled(k, A)
      /\ Settled(k, B) /\ Settled(k, Await)
  BY <1>1 DEF Clears
<1>3. ASSUME NEW embedding, Clears(k, embedding, {EnterpriseEmbedding})
      PROVE  Settled(k, Saved(embedding))
  <2>1. Leaving(k, Write({"enterprise"}), {Info, List, EnterpriseEmbedding})
    BY StepsLeave, WritesFit, OwedFor, Wider
  <2>2. Leaving(k, Write({"enterprise"}) \o DeleteEnterpriseInfo, {List, EnterpriseEmbedding})
    BY <1>1, <2>1, ThenClears
  <2>3. Leaving(k, Write({"enterprise"}) \o DeleteEnterpriseInfo \o embedding, {List})
    BY <1>3, <2>2, ThenClears
  <2>4. Leaving(k, Saved(embedding), {})
    BY <1>1, <2>3, ThenClears DEF Saved
  <2> QED BY <2>4 DEF Settled
<1>4. Settled(k, Saved(A)) /\ Settled(k, Saved(B))
  BY <1>1, <1>3
<1>5. Settled(k, UpdateRoles)
  BY UsersSettle
<1>6. ASSUME NEW embedding, Settled(k, Saved(embedding))
      PROVE  Settled(k, Review(embedding))
  <2>1. Settled(k, Find({"enterprise"}) \o Find({"enterprise"}))
    BY FindsSettle, ThenSettled
  <2>2. Settled(k, Find({"enterprise"}) \o Find({"enterprise"}) \o Saved(embedding))
    BY <1>6, <2>1, ThenSettled
  <2>3. Settled(k, Find({"enterprise"}) \o Find({"enterprise"}) \o Saved(embedding) \o UpdateRoles)
    BY <1>5, <2>2, ThenSettled
  <2> QED BY <1>2, <2>3, ThenSettled DEF Review
<1>7. Settled(k, Approve) /\ Settled(k, Block)
  BY <1>4, <1>6 DEF Approve, Block, A, B
<1>8. Settled(k, UpdatePartialInfoActive)
  <2>1. Settled(k, Read({"enterprise"})) /\ Settled(k, Find({}))
    BY FindsSettle
  <2>2. Settled(k, Read({"enterprise"}) \o RemoveListEnterprise \o Await \o Find({}))
    BY <1>2, <2>1, ThenSettled
  <2>3. Settled(k, Read({"enterprise"}) \o RemoveListEnterprise \o Await \o Find({}) \o A \o Saved(A))
    BY <1>2, <1>4, <2>2, ThenSettled
  <2> QED BY <1>2, <2>3, ThenSettled DEF UpdatePartialInfoActive, A
<1>9. Settled(k, UpdateCompanyAddress)
  <2>1. Leaving(k, Find({"addresses"}) \o Write({"addresses"}), {Info})
    BY FindsSettle, WritesFit, OwedFor, ThenWrites
  <2>2. Leaving(k, Find({"addresses"}) \o Write({"addresses"}) \o A, {Info})
    BY <1>1, <2>1, ThenClears
  <2>3. Leaving(k, UpdateCompanyAddress, {})
    BY <1>1, <2>2, ThenClears DEF UpdateCompanyAddress, A
  <2> QED BY <2>3 DEF Settled
<1>10. Settled(k, Update(A)) /\ Settled(k, Update(B))
  BY <1>4, FindsSettle, ThenSettled DEF Update
<1>11. Settled(k, UpdateActive) /\ Settled(k, UpdateInactive)
  BY <1>10 DEF UpdateActive, UpdateInactive, A, B
<1> QED
  BY <1>7, <1>8, <1>9, <1>11

LEMMA RegistrationsSettle ==
  /\ Settled("createEnterprise", CreateEnterprise) /\ Settled("removeEnterprise", RemoveEnterprise)
  /\ Settled("cancelEnterprise", CancelEnterprise)
  /\ Settled("updateRegisterEnterprise", UpdateRegisterEnterprise)
  /\ Settled("updateRegisterActive", UpdateRegisterActive)
  /\ Settled("updateAddress", UpdateAddress) /\ Settled("removeAddresses", RemoveAddresses)
<1> DEFINE E == Find({"enterprise"}) \o Write({"enterprise"})
<1>1. /\ Leaving("createEnterprise", E, {List, EnterpriseEmbedding})
      /\ Leaving("updateRegisterEnterprise", E, {List, EnterpriseEmbedding})
      /\ Leaving("updateRegisterActive", E, {List, EnterpriseEmbedding})
  BY FindsSettle, WritesFit, OwedBy, ThenWrites
<1>r. RemovedTables \in SUBSET Tables
  BY TablesAre DEF RemovedTables
<1>c. Leaving("cancelEnterprise", Find({"enterprise"}) \o Write(RemovedTables), {})
  BY <1>r, FindsSettle, OwedBy, ThenWrites
<1> HIDE DEF E
<1>2. /\ Leaving("updateAddress", Find({"addresses"}) \o Write({"addresses"}), {})
      /\ Leaving("removeAddresses", Find({"addresses"}) \o Write({"addresses"}), {})
  BY FindsSettle, WritesFit, OwedBy, ThenWrites
<1>3. \A k : /\ Clears(k, RemoveListEnterprise, {List}) /\ Clears(k, Await, {})
             /\ Clears(k, DeleteEnterpriseInfo, {Info})
             /\ Clears(k, CreateEnterpriseEmbedding, {EnterpriseEmbedding})
             /\ Clears(k, DeleteOneEnterpriseEmbedding, {EnterpriseEmbedding})
  BY NamedClear, CallsClear
<1>4. Settled("createEnterprise", CreateEnterprise)
  <2>1. Leaving("createEnterprise", E \o RemoveListEnterprise, {EnterpriseEmbedding})
    BY <1>1, <1>3, ThenClears
  <2>2. Leaving("createEnterprise", CreateEnterprise, {})
    BY <1>3, <2>1, ThenClears DEF CreateEnterprise, E
  <2> QED BY <2>2 DEF Settled
<1>5. /\ Settled("updateRegisterEnterprise", UpdateRegisterEnterprise)
      /\ Settled("updateRegisterActive", UpdateRegisterActive)
  <2>1. ASSUME NEW k, Leaving(k, E, {List, EnterpriseEmbedding}), NEW embedding,
               Clears(k, embedding, {EnterpriseEmbedding})
        PROVE  Settled(k, UpdateRegister(embedding))
    <3>1. Leaving(k, E \o RemoveListEnterprise, {EnterpriseEmbedding})
      BY <1>3, <2>1, ThenClears
    <3>2. Leaving(k, E \o RemoveListEnterprise \o Await, {EnterpriseEmbedding})
      BY <1>3, <3>1, ThenClears
    <3>3. Leaving(k, UpdateRegister(embedding), {})
      BY <2>1, <3>2, ThenClears DEF UpdateRegister, E
    <3> QED BY <3>3 DEF Settled
  <2> QED
    BY <1>1, <1>3, <2>1 DEF UpdateRegisterEnterprise, UpdateRegisterActive
<1>6. Settled("removeEnterprise", RemoveEnterprise)
  <2> DEFINE k == "removeEnterprise"
             D == Find({"enterprise"}) \o DeleteEnterpriseInfo \o RemoveListEnterprise \o Await
                    \o DeleteOneEnterpriseEmbedding
  <2>1. /\ Settled(k, Find({"enterprise"})) /\ Settled(k, DeleteEnterpriseInfo)
        /\ Settled(k, RemoveListEnterprise) /\ Settled(k, Await)
        /\ Settled(k, DeleteOneEnterpriseEmbedding)
    BY <1>3, FindsSettle DEF Clears
  <2>2. Settled(k, D)
    BY <2>1, ThenSettled
  <2> HIDE DEF D
  <2>3. Leaving(k, D \o Write(RemovedTables), {})
    BY <1>r, <2>2, OwedBy, ThenWrites
  <2> QED BY <2>3 DEF Settled, RemoveEnterprise, D
<1> QED
  BY <1>2, <1>c, <1>4, <1>5, <1>6 DEF Settled, CancelEnterprise, UpdateAddress, RemoveAddresses

LEMMA JobsSettle ==
    ASSUME NEW k
    PROVE  /\ Settled(k, UpdateJob) /\ Settled(k, DeleteJob) /\ Settled(k, CloseJob)
           /\ Settled(k, OpenJob) /\ Settled(k, BoostJob) /\ Settled(k, ExpireJobs)
           /\ Settled(k, ApplyJob)
<1> DEFINE W == Find({"jobs"}) \o Write({"jobs"})
           All == {Search, OfEnterprise, JobEmbedding}
<1>1. /\ Leaving(k, W, All)
      /\ Leaving(k, Find({"jobs"}) \o Write({"jobs", "jobset"}), All \cup {TotalJob})
      /\ Leaving(k, Read({"jobs"}) \o Write({"jobs"}), All)
      /\ Leaving(k, Find({"applications"}) \o Write({"applications"}), {OfEnterprise})
  <2>1. {"jobs", "jobset"} \in SUBSET Tables
    BY TablesAre
  <2> QED BY <2>1, FindsSettle, WritesFit, OwedFor, ThenWrites
<1>2. /\ Clears(k, SweepJobs, {Search, OfEnterprise}) /\ Clears(k, Await, {})
      /\ Clears(k, CreateJobEmbedding, {JobEmbedding})
      /\ Clears(k, DeleteOneJobEmbedding, {JobEmbedding})
      /\ Clears(k, DeleteEnterpriseTotalJob, {TotalJob})
      /\ Clears(k, RemoveSearchJobsCache, {Search, OfEnterprise})
      /\ Clears(k, RemoveEnterpriseSearchJobsCache, {OfEnterprise})
      /\ Clears(k, RemoveEnterpriseJobFilterData, {OfEnterprise})
  BY NamedClear, CallsClear
<1> HIDE DEF W
<1>3. Settled(k, UpdateJob) /\ Settled(k, OpenJob)
  <2>1. Leaving(k, W \o CreateJobEmbedding, {Search, OfEnterprise})
    BY <1>1, <1>2, ThenClears
  <2>2. Leaving(k, W \o CreateJobEmbedding \o SweepJobs, {})
    BY <1>2, <2>1, ThenClears
  <2> QED BY <2>2 DEF Settled, UpdateJob, OpenJob, W
<1>4. Settled(k, DeleteJob)
  <2> DEFINE V == Find({"jobs"}) \o Write({"jobs", "jobset"})
  <2>1. Leaving(k, V \o DeleteOneJobEmbedding, {Search, OfEnterprise, TotalJob})
    BY <1>1, <1>2, ThenClears
  <2> HIDE DEF V
  <2>2. Leaving(k, V \o DeleteOneJobEmbedding \o SweepJobs, {TotalJob})
    BY <1>2, <2>1, ThenClears
  <2>3. Leaving(k, V \o DeleteOneJobEmbedding \o SweepJobs \o DeleteEnterpriseTotalJob, {})
    BY <1>2, <2>2, ThenClears
  <2> QED BY <2>3 DEF Settled, DeleteJob, V
<1>5. Settled(k, CloseJob)
  <2>1. Leaving(k, W \o DeleteOneJobEmbedding, {Search, OfEnterprise})
    BY <1>1, <1>2, ThenClears
  <2>2. Leaving(k, W \o DeleteOneJobEmbedding \o SweepJobs, {})
    BY <1>2, <2>1, ThenClears
  <2>3. Leaving(k, W \o DeleteOneJobEmbedding \o SweepJobs \o Await, {})
    BY <1>2, <2>2, ThenClears
  <2> QED BY <2>3 DEF Settled, CloseJob, W
<1>6. Settled(k, BoostJob)
  <2>0. {"boosts"} \in SUBSET Tables
    BY WritesFit
  <2>1. Leaving(k, Write({"boosts"}), {Search, OfEnterprise}) /\ Straight(Write({"boosts"}))
    <3>1. Leaving(k, Write({"boosts"}), Owed(k, {"boosts"})) /\ Straight(Write({"boosts"}))
      BY <2>0, StepsLeave, StepsPay
    <3>2. Owed(k, {"boosts"}) \subseteq {Search, OfEnterprise}
      BY OwedFor
    <3> QED BY <3>1, <3>2, Wider
  <2>2. Leaving(k, W \o Write({"boosts"}), (All \ Paid(Write({"boosts"}))) \cup {Search, OfEnterprise})
    BY <1>1, <2>1, Joined
  <2>3. Leaving(k, W \o Write({"boosts"}), All)
    BY <2>2, Wider
  <2>4. Leaving(k, W \o Write({"boosts"}) \o CreateJobEmbedding, {Search, OfEnterprise})
    BY <1>2, <2>3, ThenClears
  <2>5. Leaving(k, W \o Write({"boosts"}) \o CreateJobEmbedding \o RemoveEnterpriseSearchJobsCache,
                {Search})
    BY <1>2, <2>4, ThenClears
  <2>6. Leaving(k, W \o Write({"boosts"}) \o CreateJobEmbedding \o RemoveEnterpriseSearchJobsCache
                     \o RemoveSearchJobsCache, {})
    BY <1>2, <2>5, ThenClears
  <2> QED BY <2>6 DEF Settled, BoostJob, W
<1>7. Settled(k, ExpireJobs)
  <2> DEFINE V == Read({"jobs"}) \o Write({"jobs"})
  <2>1. Clears(k, DeleteManyJobEmbedding, {JobEmbedding})
    BY <1>2 DEF DeleteManyJobEmbedding, DeleteOneJobEmbedding
  <2>2. Leaving(k, V \o DeleteManyJobEmbedding, {Search, OfEnterprise})
    BY <1>1, <2>1, ThenClears
  <2> HIDE DEF V
  <2>3. Leaving(k, V \o DeleteManyJobEmbedding \o RemoveEnterpriseSearchJobsCache, {Search})
    BY <1>2, <2>2, ThenClears
  <2>4. Leaving(k, V \o DeleteManyJobEmbedding \o RemoveEnterpriseSearchJobsCache
                     \o RemoveSearchJobsCache, {})
    BY <1>2, <2>3, ThenClears
  <2>5. Settled(k, DeleteManyJobEmbedding) /\ Settled(k, Await) /\ Settled(k, CreateJobEmbedding)
    BY <1>2, <2>1 DEF Clears
  <2>6. Settled(k, V \o DeleteManyJobEmbedding \o RemoveEnterpriseSearchJobsCache
                     \o RemoveSearchJobsCache \o DeleteManyJobEmbedding \o Await)
    BY <2>4, <2>5, ThenSettled DEF Settled
  <2> QED BY <2>5, <2>6, ThenSettled DEF ExpireJobs, V
<1>8. Settled(k, ApplyJob)
  <2>1. Leaving(k, Find({"applications"}) \o Write({"applications"}) \o RemoveEnterpriseJobFilterData, {})
    BY <1>1, <1>2, ThenClears
  <2>2. Leaving(k, ApplyJob, {})
    BY <1>2, <2>1, ThenClears DEF ApplyJob
  <2> QED BY <2>2 DEF Settled
<1> QED
  BY <1>3, <1>4, <1>5, <1>6, <1>7, <1>8

LEMMA JobsSettleBut ==
  /\ Settled("createJob", CreateJob) /\ Settled("changeStatus", ChangeStatus)
  /\ Settled("expireBoosts", ExpireBoosts)
  /\ Settled("updateApplicationStatus", UpdateApplicationStatus)
<1>1. \A k : /\ Clears(k, SweepJobs, {Search, OfEnterprise}) /\ Clears(k, Await, {})
             /\ Clears(k, CreateJobEmbedding, {JobEmbedding})
             /\ Clears(k, DeleteManyJobEmbedding, {JobEmbedding})
             /\ Clears(k, DeleteEnterpriseTotalJob, {TotalJob})
             /\ Clears(k, RemoveSearchJobsCache, {Search, OfEnterprise})
             /\ Clears(k, RemoveEnterpriseSearchJobsCache, {OfEnterprise})
  BY NamedClear, CallsClear DEF DeleteManyJobEmbedding, DeleteOneJobEmbedding
<1>2. \A k : /\ Settled(k, SweepJobs) /\ Settled(k, DeleteEnterpriseTotalJob)
             /\ Settled(k, RemoveSearchJobsCache) /\ Settled(k, RemoveEnterpriseSearchJobsCache)
             /\ Settled(k, DeleteManyJobEmbedding)
  BY <1>1 DEF Clears
<1>3. Settled("createJob", CreateJob)
  <2> DEFINE V == GetEnterpriseByAccountId \o DeleteEnterpriseTotalJob \o SweepJobs
  <2>1. Settled("createJob", V)
    BY <1>2, FindsSettle, ThenSettled DEF GetEnterpriseByAccountId
  <2> HIDE DEF V
  <2>2. {"jobs", "jobset"} \in SUBSET Tables
    BY TablesAre
  <2>3. Leaving("createJob", V \o Write({"jobs", "jobset"}), {JobEmbedding})
    BY <2>1, <2>2, OwedBy, ThenWrites
  <2>4. Leaving("createJob", V \o Write({"jobs", "jobset"}) \o CreateJobEmbedding, {})
    BY <1>1, <2>3, ThenClears
  <2> QED BY <2>4 DEF Settled, CreateJob, V
<1>4. Settled("changeStatus", ChangeStatus)
  <2>1. Leaving("changeStatus", Find({"jobs"}) \o Write({"jobs"}), {Search, OfEnterprise})
    BY FindsSettle, WritesFit, OwedBy, ThenWrites
  <2>2. Leaving("changeStatus", ChangeStatus, {})
    BY <1>1, <2>1, ThenClears DEF ChangeStatus
  <2> QED BY <2>2 DEF Settled
<1>5. Settled("expireBoosts", ExpireBoosts)
  <2> DEFINE V == Read({"boosts"}) \o RemoveEnterpriseSearchJobsCache \o RemoveSearchJobsCache
                    \o DeleteManyJobEmbedding
  <2>1. Settled("expireBoosts", V)
    BY <1>2, FindsSettle, ThenSettled
  <2> HIDE DEF V
  <2>2. Leaving("expireBoosts", V \o Write({"boosts"}), {})
    BY <2>1, WritesFit, OwedBy, ThenWrites
  <2>3. Leaving("expireBoosts", V \o Write({"boosts"}) \o Write({"jobs"}), {JobEmbedding})
    BY <2>2, WritesFit, OwedBy, ThenWrites DEF Settled
  <2>4. Leaving("expireBoosts", V \o Write({"boosts"}) \o Write({"jobs"}) \o Await, {JobEmbedding})
    BY <1>1, <2>3, ThenClears
  <2>5. Leaving("expireBoosts", V \o Write({"boosts"}) \o Write({"jobs"}) \o Await \o CreateJobEmbedding, {})
    BY <1>1, <2>4, ThenClears
  <2> QED BY <2>5 DEF Settled, ExpireBoosts, V
<1>6. Leaving("updateApplicationStatus", UpdateApplicationStatus, {})
  BY FindsSettle, WritesFit, OwedBy, ThenWrites DEF UpdateApplicationStatus
<1> QED
  BY <1>3, <1>4, <1>5, <1>6 DEF Settled

(* Every handler pays what it owes before it can leave.                    *)
LEMMA ProgramsSettle ==
    ASSUME NEW k \in DOMAIN Program
    PROVE  Settled(k, Program[k])
BY GetsSettle, UsersSettle, DevicesSettle, TagsSettle, EnterpriseSettles, RegistrationsSettle,
   JobsSettle, JobsSettleBut DEF Program

-----------------------------------------------------------------------------
(* What a handler owes at a step                                           *)

(* The entries handler k has outdated and not paid for before its step i.  *)
Owes(k, i) ==
    {e \in Entries : \E j \in 1..(i - 1) : /\ Program[k][j].op = "write"
                                           /\ e \in Owed(k, Program[k][j].of)
                                           /\ ~PaidWithin(Program[k], j, i, e)}

LEMMA ProgramFacts ==
    ASSUME NEW k \in DOMAIN Program
    PROVE  /\ Program[k] \in Seq(Steps) /\ Len(Program[k]) \in Nat \ {0}
           /\ \A i \in 1..Len(Program[k]) :
                 /\ Program[k][i] \in Steps /\ Sane(Program[k][i].op, Program[k][i].of)
                 /\ Program[k][i].op = "reread" => Retried(Program[k], i)
           /\ \A i \in 1..Len(Program[k]) : Program[k][i].op = "write" =>
                 \A e \in Owed(k, Program[k][i].of) :
                    /\ PaidWithin(Program[k], i, Len(Program[k]) + 1, e)
                    /\ \A j \in (i + 1)..Len(Program[k]) :
                          Program[k][j].op \in {"hit", "find"} => PaidWithin(Program[k], i, j, e)
<1> DEFINE p == Program[k]
<1>1. Leaving(k, p, {})
  BY ProgramsSettle DEF Settled
<1> HIDE DEF p
<1>2. p \in Seq(Steps) /\ p # <<>>
  BY <1>1 DEF Leaving
<1>3. Len(p) \in Nat \ {0} /\ \A i \in 1..Len(p) : p[i] \in Steps
  BY <1>2
<1>4. \A i \in 1..Len(p) : Sane(p[i].op, p[i].of) /\ (p[i].op = "reread" => Retried(p, i))
  BY <1>1 DEF Leaving
<1>5. \A i \in 1..Len(p) : p[i].op = "write" =>
         \A e \in Owed(k, p[i].of) :
            /\ PaidWithin(p, i, Len(p) + 1, e)
            /\ \A j \in (i + 1)..Len(p) : p[j].op \in {"hit", "find"} => PaidWithin(p, i, j, e)
  BY <1>1 DEF Leaving
<1> QED
  BY <1>2, <1>3, <1>4, <1>5 DEF p

(* Nothing is owed at the start, where the handler may leave and at the    *)
(* end; otherwise what is owed stays so until it is paid.                  *)
LEMMA OwesFacts ==
    ASSUME NEW k \in DOMAIN Program, NEW i \in 1..Len(Program[k])
    PROVE  /\ Owes(k, 1) = {} /\ Owes(k, Len(Program[k]) + 1) = {}
           /\ Program[k][i].op \in {"hit", "find"} => Owes(k, i) = {}
           /\ \A e \in Owes(k, i) : e \in Owes(k, i + 1) \/ Pays(Program[k], i, e)
           /\ Program[k][i].op = "write" => Owed(k, Program[k][i].of) \subseteq Owes(k, i + 1)
           /\ Program[k][i].op = "reread" => Owes(k, i) \subseteq Owes(k, i + 2)
<1> DEFINE p == Program[k]
<1>1. Len(p) \in Nat \ {0} /\ i \in Nat
  BY ProgramFacts
<1>2. Owes(k, 1) = {}
  BY DEF Owes
<1>3. Owes(k, Len(p) + 1) = {}
  <2> SUFFICES ASSUME NEW e \in Owes(k, Len(p) + 1) PROVE FALSE
    OBVIOUS
  <2>1. PICK j \in 1..(Len(p) + 1 - 1) : /\ p[j].op = "write" /\ e \in Owed(k, p[j].of)
                                         /\ ~PaidWithin(p, j, Len(p) + 1, e)
    BY DEF Owes
  <2>2. j \in 1..Len(p)
    BY <1>1, <2>1
  <2> QED BY <2>1, <2>2, ProgramFacts
<1>4. ASSUME p[i].op \in {"hit", "find"} PROVE Owes(k, i) = {}
  <2> SUFFICES ASSUME NEW e \in Owes(k, i) PROVE FALSE
    OBVIOUS
  <2>1. PICK j \in 1..(i - 1) : p[j].op = "write" /\ e \in Owed(k, p[j].of) /\ ~PaidWithin(p, j, i, e)
    BY DEF Owes
  <2>2. j \in 1..Len(p) /\ i \in (j + 1)..Len(p)
    BY <1>1, <2>1
  <2> QED BY <1>4, <2>1, <2>2, ProgramFacts
<1>5. ASSUME NEW e \in Owes(k, i), ~Pays(p, i, e) PROVE e \in Owes(k, i + 1)
  <2>1. PICK j \in 1..(i - 1) : p[j].op = "write" /\ e \in Owed(k, p[j].of) /\ ~PaidWithin(p, j, i, e)
    BY DEF Owes
  <2>2. \A m \in (j + 1)..(i + 1 - 1) : m \in (j + 1)..(i - 1) \/ m = i
    BY <1>1, <2>1
  <2>3. ~PaidWithin(p, j, i + 1, e)
    BY <1>5, <2>1, <2>2 DEF PaidWithin
  <2>4. j \in 1..(i + 1 - 1) /\ e \in Entries
    BY <1>1, <2>1 DEF Owes
  <2> QED BY <2>1, <2>3, <2>4 DEF Owes
<1>6. ASSUME p[i].op = "write", NEW e \in Owed(k, p[i].of) PROVE e \in Owes(k, i + 1)
  <2>1. i \in 1..(i + 1 - 1) /\ e \in Entries /\ ~PaidWithin(p, i, i + 1, e)
    BY <1>1 DEF PaidWithin, Owed
  <2> QED BY <1>6, <2>1 DEF Owes
<1>7. ASSUME p[i].op = "reread", NEW e \in Owes(k, i) PROVE e \in Owes(k, i + 2)
  <2>1. PICK j \in 1..(i - 1) : p[j].op = "write" /\ e \in Owed(k, p[j].of) /\ ~PaidWithin(p, j, i, e)
    BY DEF Owes
  <2>2. Retried(p, i)
    BY <1>7, ProgramFacts
  <2>3. i + 1 > 1 /\ (i + 1) - 1 = i
    BY <1>1
  <2>4. ~Pays(p, i, e) /\ ~Pays(p, i + 1, e)
    BY <1>7, <2>2, <2>3 DEF Pays, Retried
  <2>5. \A m \in (j + 1)..(i + 2 - 1) : m \in (j + 1)..(i - 1) \/ m = i \/ m = i + 1
    BY <1>1, <2>1
  <2>6. ~PaidWithin(p, j, i + 2, e)
    BY <2>1, <2>4, <2>5 DEF PaidWithin
  <2>7. j \in 1..(i + 2 - 1) /\ e \in Entries
    BY <1>1, <2>1 DEF Owes
  <2> QED BY <2>1, <2>6, <2>7 DEF Owes
<1> QED
  BY <1>2, <1>3, <1>4, <1>5, <1>6, <1>7

(* What is owed is paid by a step to come.                                 *)
LEMMA OwesAhead ==
    ASSUME NEW k \in DOMAIN Program, NEW i \in 1..Len(Program[k])
    PROVE  Owes(k, i) \subseteq AheadFrom[k][i]
<1> DEFINE p == Program[k]
<1>1. Len(p) \in Nat \ {0} /\ i \in Nat
  BY ProgramFacts
<1>2. SUFFICES ASSUME NEW e \in Owes(k, i) PROVE e \in AheadFrom[k][i]
  OBVIOUS
<1>3. PICK j \in 1..(i - 1) : p[j].op = "write" /\ e \in Owed(k, p[j].of) /\ ~PaidWithin(p, j, i, e)
  BY DEF Owes
<1>4. j \in 1..Len(p)
  BY <1>1, <1>3
<1>5. PaidWithin(p, j, Len(p) + 1, e)
  BY <1>3, <1>4, ProgramFacts
<1>6. PICK m \in (j + 1)..(Len(p) + 1 - 1) : Pays(p, m, e)
  BY <1>5 DEF PaidWithin
<1>7. m \in i..Len(p)
  BY <1>1, <1>3, <1>4, <1>6 DEF PaidWithin
<1>8. e \in p[m].of /\ p[m].op \in {"fill", "claim", "drop", "sweep"}
  BY <1>6 DEF Pays
<1>9. e \in Later(k, i, {"fill", "claim", "drop", "sweep"})
  BY <1>7, <1>8 DEF Later
<1>10. i \in 1..(Len(p) + 1)
  BY <1>1
<1> QED
  BY <1>9, <1>10 DEF AheadFrom, From

(* What is of interest to a step to come, is so until that step.           *)
LEMMA NeededFacts ==
    ASSUME NEW k \in DOMAIN Program, NEW i \in 1..Len(Program[k])
    PROVE  /\ NeededFrom[k][Len(Program[k]) + 1] = {}
           /\ Program[k][i].op \notin {"fill", "claim"} => NeededFrom[k][i] \subseteq NeededFrom[k][i + 1]
           /\ Program[k][i].op = "reread" => NeededFrom[k][i] \subseteq NeededFrom[k][i + 2]
<1> DEFINE p == Program[k]
           L(x) == Later(k, x, {"fill", "claim"})
<1>1. Len(p) \in Nat \ {0} /\ i \in Nat /\ i <= Len(p)
  BY ProgramFacts
<1>2. \A x \in 1..(Len(p) + 1) : NeededFrom[k][x] = UNION {Shows[e] : e \in L(x)}
  BY DEF NeededFrom, From
<1>3. L(Len(p) + 1) = {}
  BY <1>1 DEF Later
<1>4. \A x, e : e \in L(x) <=> \E m \in x..Len(p) : p[m].op \in {"fill", "claim"} /\ e \in p[m].of
  BY DEF Later
<1> HIDE DEF L
<1>5. NeededFrom[k][Len(p) + 1] = {}
  BY <1>1, <1>2, <1>3
<1>6. ASSUME p[i].op \notin {"fill", "claim"} PROVE NeededFrom[k][i] \subseteq NeededFrom[k][i + 1]
  <2>1. L(i) \subseteq L(i + 1)
    <3> SUFFICES ASSUME NEW e \in L(i) PROVE e \in L(i + 1)
      OBVIOUS
    <3>1. PICK m \in i..Len(p) : p[m].op \in {"fill", "claim"} /\ e \in p[m].of
      BY <1>4
    <3>2. m \in (i + 1)..Len(p)
      BY <1>1, <1>6, <3>1
    <3> QED BY <1>4, <3>1, <3>2
  <2>2. i \in 1..(Len(p) + 1) /\ i + 1 \in 1..(Len(p) + 1)
    BY <1>1
  <2> QED BY <1>2, <2>1, <2>2
<1>7. ASSUME p[i].op = "reread" PROVE NeededFrom[k][i] \subseteq NeededFrom[k][i + 2]
  <2>0. i + 2 <= Len(p) /\ p[i + 1].op = "fill" /\ p[i + 2].op = "claim" /\ p[i + 2].of = p[i + 1].of
    BY <1>7, ProgramFacts DEF Retried
  <2>1. L(i) \subseteq L(i + 2)
    <3> SUFFICES ASSUME NEW e \in L(i) PROVE e \in L(i + 2)
      OBVIOUS
    <3>1. PICK m \in i..Len(p) : p[m].op \in {"fill", "claim"} /\ e \in p[m].of
      BY <1>4
    <3>2. m \in (i + 2)..Len(p) \/ m = i + 1
      BY <1>1, <1>7, <3>1
    <3>3. i + 2 \in (i + 2)..Len(p)
      BY <1>1, <2>0
    <3> QED BY <1>4, <2>0, <3>1, <3>2, <3>3
  <2>2. i \in 1..(Len(p) + 1) /\ i + 2 \in 1..(Len(p) + 1)
    BY <1>1, <2>0
  <2> QED BY <1>2, <2>1, <2>2
<1> QED
  BY <1>5, <1>6, <1>7

-----------------------------------------------------------------------------
(* Where the handlers are, and what they hold                              *)

Placed(r) ==
    IF pc[r] = "running" THEN kind[r] \in DOMAIN Program /\ at[r] \in 1..Len(Program[kind[r]])
    ELSE at[r] = 0

PlaceInv ==
    /\ at \in [Requests -> Nat] /\ lacks = [r \in Requests |-> lacks[r]]
    /\ \A r \in Requests : Placed(r) /\ lacks[r] \subseteq Needed(r)

(* What handler r owes now.                                                *)
Debt(r) == IF at[r] = 0 THEN {} ELSE Owes(kind[r], at[r])

(* Nothing moved but handler r.                                            *)
OthersWait(r) ==
    \A x \in Requests \ {r} : pc'[x] = pc[x] /\ kind'[x] = kind[x] /\ at'[x] = at[x]

LEMMA WaitingFacts ==
    ASSUME NEW r \in Requests, OthersWait(r), NEW x \in Requests \ {r}
    PROVE  Debt(x)' = Debt(x) /\ Needed(x)' = Needed(x) /\ (Placed(x) => Placed(x)')
BY DEF OthersWait, Debt, Needed, Placed

LEMMA RunningFacts ==
    ASSUME ControlInv, PlaceInv, NEW r \in Requests, pc[r] = "running"
    PROVE  /\ kind[r] \in DOMAIN Program /\ at[r] \in 1..Len(Program[kind[r]]) /\ at[r] # 0
           /\ at[r] \in Nat /\ Len(Program[kind[r]]) \in Nat
           /\ Debt(r) = Owes(kind[r], at[r]) /\ Needed(r) = NeededFrom[kind[r]][at[r]]
           /\ NextStep(r) \in Steps /\ Sane(NextStep(r).op, NextStep(r).of)
           /\ lacks[r] \subseteq NeededFrom[kind[r]][at[r]]
<1>1. kind[r] \in DOMAIN Program /\ at[r] \in 1..Len(Program[kind[r]])
  BY DEF PlaceInv, Placed
<1>2. Len(Program[kind[r]]) \in Nat \ {0}
  BY <1>1, ProgramFacts
<1>3. at[r] # 0 /\ at[r] \in Nat
  BY <1>1, <1>2
<1>4. NextStep(r) \in Steps /\ Sane(NextStep(r).op, NextStep(r).of)
  BY <1>1, ProgramFacts DEF NextStep
<1>5. lacks[r] \subseteq Needed(r)
  BY DEF PlaceInv
<1> QED
  BY <1>1, <1>2, <1>3, <1>4, <1>5 DEF Debt, Needed

(* A handler that goes on owes and needs what its next step does; at the   *)
(* end of its program that is nothing.                                     *)
LEMMA AdvanceFacts ==
    ASSUME ControlInv, PlaceInv, NEW r \in Requests, pc[r] = "running", Advances(r)
    PROVE  /\ at' \in [Requests -> Nat] /\ OthersWait(r) /\ Placed(r)'
           /\ Debt(r)' = Owes(kind[r], at[r] + 1)
           /\ Needed(r)' = NeededFrom[kind[r]][at[r] + 1]
<1>0. pc = [x \in Requests |-> pc[x]] /\ kind = [x \in Requests |-> kind[x]] /\ at \in [Requests -> Nat]
  BY DEF ControlInv, PlaceInv
<1>1. /\ kind[r] \in DOMAIN Program /\ at[r] \in 1..Len(Program[kind[r]]) /\ at[r] # 0
      /\ at[r] \in Nat /\ Len(Program[kind[r]]) \in Nat
  BY RunningFacts
<1>2. CASE at[r] = Len(Program[kind[r]])
  <2>1. Ends(r, "done") /\ at' = [at EXCEPT ![r] = 0]
    BY <1>2 DEF Advances, Answers
  <2>2. /\ at'[r] = 0 /\ pc'[r] = "done" /\ at' \in [Requests -> Nat]
        /\ \A x \in Requests \ {r} : pc'[x] = pc[x] /\ kind'[x] = kind[x] /\ at'[x] = at[x]
    BY <1>0, <2>1 DEF Ends
  <2>3. Owes(kind[r], at[r] + 1) = {} /\ NeededFrom[kind[r]][at[r] + 1] = {}
    BY <1>1, <1>2, OwesFacts, NeededFacts
  <2> QED BY <2>2, <2>3 DEF OthersWait, Placed, Debt, Needed
<1>3. CASE at[r] # Len(Program[kind[r]])
  <2>1. pc' = pc /\ kind' = kind /\ at' = [at EXCEPT ![r] = @ + 1]
    BY <1>3 DEF Advances, Stays, handlers
  <2>2. at'[r] = at[r] + 1 /\ at' \in [Requests -> Nat] /\ \A x \in Requests \ {r} : at'[x] = at[x]
    BY <1>0, <1>1, <2>1
  <2>3. at[r] + 1 \in 1..Len(Program[kind[r]]) /\ at[r] + 1 # 0
    BY <1>1, <1>3
  <2> QED BY <1>1, <2>1, <2>2, <2>3 DEF OthersWait, Placed, Debt, Needed
<1> QED
  BY <1>2, <1>3

LEMMA AnswerFacts ==
    ASSUME ControlInv, PlaceInv, NEW r \in Requests, NEW how, how # "running",
           pc' = [pc EXCEPT ![r] = how], kind' = [kind EXCEPT ![r] = None], at' = [at EXCEPT ![r] = 0]
    PROVE  /\ at' \in [Requests -> Nat] /\ OthersWait(r) /\ Placed(r)'
           /\ Debt(r)' = {} /\ Needed(r)' = {}
<1>1. /\ at'[r] = 0 /\ pc'[r] = how /\ at' \in [Requests -> Nat]
      /\ \A x \in Requests \ {r} : pc'[x] = pc[x] /\ kind'[x] = kind[x] /\ at'[x] = at[x]
  BY DEF ControlInv, PlaceInv
<1> QED
  BY <1>1 DEF OthersWait, Placed, Debt, Needed

(* What a step of handler r must show for where the handlers are.          *)
LEMMA PlaceKept ==
    ASSUME PlaceInv, NEW r \in Requests, at' \in [Requests -> Nat], OthersWait(r), Placed(r)',
           lacks' = [x \in Requests |-> lacks'[x]],
           \A x \in Requests \ {r} : lacks'[x] \subseteq Needed(x),
           lacks'[r] \subseteq Needed(r)'
    PROVE  PlaceInv'
<1> SUFFICES ASSUME NEW x \in Requests PROVE Placed(x)' /\ lacks'[x] \subseteq Needed(x)'
  BY DEF PlaceInv
<1>1. CASE x = r
  BY <1>1
<1>2. CASE x # r
  <2>1. Placed(x)
    BY DEF PlaceInv
  <2> QED BY <1>2, <2>1, WaitingFacts
<1> QED
  BY <1>1, <1>2

LEMMA PlaceHandlers ==
    ASSUME ControlInv, PlaceInv, NEW r \in Requests, CacheSteps(r)
    PROVE  PlaceInv'
<1> DEFINE k == kind[r]
           i == at[r]
<1>0. lacks = [x \in Requests |-> lacks[x]] /\ \A x \in Requests : lacks[x] \subseteq Needed(x)
  BY DEF PlaceInv
<1>1. ASSUME pc[r] = "running", Advances(r), lacks' = [lacks EXCEPT ![r] = lacks'[r]],
             lacks'[r] \subseteq NeededFrom[k][i + 1]
      PROVE  PlaceInv'
  <2>1. /\ at' \in [Requests -> Nat] /\ OthersWait(r) /\ Placed(r)'
        /\ Needed(r)' = NeededFrom[k][i + 1]
    BY <1>1, AdvanceFacts
  <2>2. /\ lacks' = [x \in Requests |-> lacks'[x]]
        /\ \A x \in Requests \ {r} : lacks'[x] \subseteq Needed(x)
    BY <1>0, <1>1
  <2>3. lacks'[r] \subseteq Needed(r)'
    BY <1>1, <2>1
  <2> QED BY <2>1, <2>2, <2>3, PlaceKept
<1>2. ASSUME NEW L, pc[r] = "running", Advances(r), Holds(L, r) PROVE PlaceInv'
  <2>1. lacks' = [lacks EXCEPT ![r] = L \cap NeededFrom[k][i + 1]]
    BY <1>2 DEF Holds
  <2>2. lacks'[r] = L \cap NeededFrom[k][i + 1] /\ lacks' = [lacks EXCEPT ![r] = lacks'[r]]
    BY <1>0, <2>1
  <2> QED BY <1>1, <1>2, <2>2
<1>3. ASSUME pc[r] = "running", Advances(r), NextStep(r).op \notin {"fill", "claim"}
      PROVE  lacks[r] \subseteq NeededFrom[k][i + 1]
  <2>1. k \in DOMAIN Program /\ i \in 1..Len(Program[k]) /\ lacks[r] \subseteq NeededFrom[k][i]
    BY <1>3, RunningFacts
  <2>2. NeededFrom[k][i] \subseteq NeededFrom[k][i + 1]
    BY <1>3, <2>1, NeededFacts DEF NextStep
  <2> QED BY <2>1, <2>2
<1>4. ASSUME pc[r] = "running", Advances(r), NextStep(r).op \notin {"fill", "claim"}, lacks' = lacks
      PROVE  PlaceInv'
  <2>1. lacks' = [lacks EXCEPT ![r] = lacks'[r]]
    BY <1>0, <1>4
  <2> QED BY <1>1, <1>3, <1>4, <2>1
<1>5. ASSUME NEW how \in {"done", "rejected"}, Leaves(r, how) PROVE PlaceInv'
  <2>1. /\ pc' = [pc EXCEPT ![r] = how] /\ kind' = [kind EXCEPT ![r] = None]
        /\ at' = [at EXCEPT ![r] = 0] /\ how # "running"
    BY <1>5 DEF Leaves, Answers, Ends
  <2>2. at' \in [Requests -> Nat] /\ OthersWait(r) /\ Placed(r)'
    BY <2>1, AnswerFacts
  <2>3. lacks' = [lacks EXCEPT ![r] = {}]
    BY <1>5 DEF Leaves
  <2>4. /\ lacks' = [x \in Requests |-> lacks'[x]] /\ lacks'[r] = {}
        /\ \A x \in Requests \ {r} : lacks'[x] \subseteq Needed(x)
    BY <1>0, <2>3
  <2> QED BY <2>2, <2>4, PlaceKept
<1>6. CASE Begin(r)
  <2>1. PICK q \in mix[r] \cap DOMAIN Program :
           /\ Starts(r, q, "running") /\ at' = [at EXCEPT ![r] = 1]
           /\ lacks' = [lacks EXCEPT ![r] = NeededFrom[q][1]]
    BY <1>6 DEF Begin
  <2>2. /\ pc'[r] = "running" /\ kind'[r] = q /\ at'[r] = 1 /\ at' \in [Requests -> Nat]
        /\ \A x \in Requests \ {r} : pc'[x] = pc[x] /\ kind'[x] = kind[x] /\ at'[x] = at[x]
    BY <2>1 DEF Starts, ControlInv, PlaceInv
  <2>3. /\ lacks' = [x \in Requests |-> lacks'[x]] /\ lacks'[r] = NeededFrom[q][1]
        /\ \A x \in Requests \ {r} : lacks'[x] \subseteq Needed(x)
    BY <1>0, <2>1
  <2>4. 1 \in 1..Len(Program[q])
    BY ProgramFacts
  <2>5. Placed(r)' /\ Needed(r)' = NeededFrom[q][1] /\ OthersWait(r)
    BY <2>2, <2>4 DEF Placed, Needed, OthersWait
  <2> QED BY <2>2, <2>3, <2>5, PlaceKept
<1>7. CASE GetCached(r)
  <2>1. pc[r] = "running" /\ NextStep(r).op = "hit"
    BY <1>7 DEF GetCached, At
  <2>2. Leaves(r, "done") \/ (Advances(r) /\ lacks' = lacks)
    BY <1>7 DEF GetCached
  <2> QED BY <1>4, <1>5, <2>1, <2>2
<1>8. CASE Reads(r)
  BY <1>2, <1>8 DEF Reads, At
<1>9. CASE TurnedAway(r)
  BY <1>5, <1>9 DEF TurnedAway
<1>10. CASE RereadFails(r)
  <2>1. /\ pc[r] = "running" /\ Program[k][i].op = "reread" /\ at' = [at EXCEPT ![r] = @ + 2]
        /\ UNCHANGED <<pc, kind, lacks>>
    BY <1>10 DEF RereadFails, At, NextStep
  <2>2. /\ k \in DOMAIN Program /\ i \in 1..Len(Program[k]) /\ i \in Nat /\ Len(Program[k]) \in Nat
        /\ lacks[r] \subseteq NeededFrom[k][i]
    BY <2>1, RunningFacts
  <2>3. i + 2 <= Len(Program[k]) /\ NeededFrom[k][i] \subseteq NeededFrom[k][i + 2]
    BY <2>1, <2>2, ProgramFacts, NeededFacts DEF Retried
  <2>4. /\ at'[r] = i + 2 /\ at' \in [Requests -> Nat]
        /\ \A x \in Requests \ {r} : pc'[x] = pc[x] /\ kind'[x] = kind[x] /\ at'[x] = at[x]
    BY <2>1, <2>2 DEF PlaceInv
  <2>5. i + 2 # 0 /\ i + 2 \in 1..Len(Program[k])
    BY <2>2, <2>3
  <2>6. Placed(r)' /\ Needed(r)' = NeededFrom[k][i + 2] /\ OthersWait(r)
    BY <2>1, <2>2, <2>4, <2>5 DEF Placed, Needed, OthersWait
  <2>7. /\ lacks' = [x \in Requests |-> lacks'[x]] /\ lacks'[r] \subseteq Needed(r)'
        /\ \A x \in Requests \ {r} : lacks'[x] \subseteq Needed(x)
    BY <1>0, <2>1, <2>2, <2>3, <2>6
  <2> QED BY <2>4, <2>6, <2>7, PlaceKept
<1>11. CASE Writes(r)
  <2>1. /\ pc[r] = "running" /\ NextStep(r).op = "write" /\ Advances(r)
        /\ lacks' = [x \in Requests |->
                       IF x = r THEN lacks[x] ELSE lacks[x] \cup (Of(r) \cap Needed(x))]
    BY <1>11 DEF Writes, At
  <2>2. lacks[r] \subseteq NeededFrom[k][i + 1]
    BY <1>3, <2>1
  <2>3. /\ at' \in [Requests -> Nat] /\ OthersWait(r) /\ Placed(r)'
        /\ Needed(r)' = NeededFrom[k][i + 1]
    BY <2>1, AdvanceFacts
  <2>4. /\ lacks' = [x \in Requests |-> lacks'[x]] /\ lacks'[r] \subseteq Needed(r)'
        /\ \A x \in Requests \ {r} : lacks'[x] \subseteq Needed(x)
    BY <1>0, <2>1, <2>2, <2>3
  <2> QED BY <2>3, <2>4, PlaceKept
<1>12. CASE Fills(r)
  BY <1>2, <1>12 DEF Fills, At
<1>13. CASE Claims(r)
  BY <1>2, <1>13 DEF Claims, At
<1>14. CASE Drops(r) \/ SweepStarts(r) \/ Awaits(r)
  <2>1. /\ pc[r] = "running" /\ NextStep(r).op \in {"drop", "sweep", "await"}
        /\ Advances(r) /\ lacks' = lacks
    BY <1>14 DEF Drops, SweepStarts, Awaits, At
  <2> QED BY <1>4, <2>1
<1>15. CASE SweepScan(r) \/ SweepDelete(r)
  BY <1>15 DEF SweepScan, SweepDelete, handlers, PlaceInv, Placed, Needed
<1>16. CASE HandlerFails(r)
  <2>1. /\ pc' = [pc EXCEPT ![r] = "failed"] /\ kind' = [kind EXCEPT ![r] = None]
        /\ at' = [at EXCEPT ![r] = 0] /\ lacks' = [lacks EXCEPT ![r] = {}] /\ "failed" # "running"
    BY <1>16 DEF HandlerFails, Breaks
  <2>2. at' \in [Requests -> Nat] /\ OthersWait(r) /\ Placed(r)'
    BY <2>1, AnswerFacts
  <2>3. /\ lacks' = [x \in Requests |-> lacks'[x]] /\ lacks'[r] = {}
        /\ \A x \in Requests \ {r} : lacks'[x] \subseteq Needed(x)
    BY <1>0, <2>1
  <2> QED BY <2>2, <2>3, PlaceKept
<1> QED
  BY <1>6, <1>7, <1>8, <1>9, <1>10, <1>11, <1>12, <1>13, <1>14, <1>15, <1>16 DEF CacheSteps

(* The steps that run none of the handlers of Caches.                      *)
AsideOfCaches ==
    /\ UNCHANGED cacheVars
    /\ \A x \in Requests : (pc[x] = "running" \/ pc'[x] = "running") => pc'[x] = pc[x] /\ kind'[x] = kind[x]

LEMMA CachesCases ==
    ASSUME ControlInv, [Next]_vars
    PROVE  \/ \E r \in Requests : CacheSteps(r)
           \/ \E e \in Entries : Expire(e)
           \/ AsideOfCaches
           \/ Crash
<1>0. /\ \A S \in {CatalogLabels, ListingLabels, RankingLabels} : "running" \notin S
      /\ "running" \notin Ended \cup {"new"}
  BY DEF CatalogLabels, ListingLabels, RankingLabels, Ended
<1>1. ASSUME NEW r \in Requests, NEW S \in {CatalogLabels, ListingLabels, RankingLabels},
             StepOf(r, S), UNCHANGED cacheVars
      PROVE  AsideOfCaches
  <2>1. CASE Moved(r, S)
    BY <1>0, <1>1, <2>1 DEF Moved, AsideOfCaches, ControlInv
  <2>2. CASE pc' = pc /\ kind' = kind
    BY <1>1, <2>2 DEF AsideOfCaches
  <2> QED BY <1>1, <2>1, <2>2 DEF StepOf
<1>2. ASSUME NEW r \in Requests, CatalogSteps(r) \/ ListingSteps(r) \/ RankingSteps(r), UNCHANGED cacheVars
      PROVE  AsideOfCaches
  BY <1>1, <1>2, CatalogControl, ListingControl, RankingControl
<1>3. CASE UNCHANGED vars
  BY <1>3 DEF vars, handlers, AsideOfCaches
<1> QED
  BY <1>2, <1>3 DEF Next

LEMMA PlaceStep == ControlInv /\ PlaceInv /\ [Next]_vars => PlaceInv'
<1> SUFFICES ASSUME ControlInv, PlaceInv, [Next]_vars PROVE PlaceInv'
  OBVIOUS
<1>1. ASSUME NEW e \in Entries, Expire(e) PROVE PlaceInv'
  BY <1>1 DEF Expire, handlers, PlaceInv, Placed, Needed
<1>2. CASE AsideOfCaches
  <2>1. at' = at /\ lacks' = lacks
    BY <1>2 DEF AsideOfCaches, cacheVars
  <2>2. ASSUME NEW x \in Requests PROVE Placed(x)' /\ lacks'[x] \subseteq Needed(x)'
    <3>1. Placed(x) /\ lacks[x] \subseteq Needed(x)
      BY DEF PlaceInv
    <3>2. CASE pc[x] = "running" \/ pc'[x] = "running"
      BY <1>2, <2>1, <3>1, <3>2 DEF AsideOfCaches, Placed, Needed
    <3>3. CASE pc[x] # "running" /\ pc'[x] # "running"
      BY <2>1, <3>1, <3>3 DEF Placed, Needed
    <3> QED BY <3>2, <3>3
  <2> QED BY <2>1, <2>2 DEF PlaceInv
<1>3. CASE Crash
  <2>1. /\ at' = [r \in Requests |-> 0] /\ lacks' = [r \in Requests |-> {}]
        /\ pc' = [r \in Requests |-> IF Live(r) THEN "dead" ELSE pc[r]]
    BY <1>3 DEF Crash, Crashes, CacheCrash
  <2>2. \A r \in Requests : pc'[r] # "running"
    BY <2>1 DEF Live, Ended
  <2> QED BY <2>1, <2>2 DEF PlaceInv, Placed, Needed
<1> QED
  BY <1>1, <1>2, <1>3, PlaceHandlers, CachesCases

LEMMA PlaceInvariant == Spec => []PlaceInv
<1>1. Init => PlaceInv
  BY DEF Init, HandlersInit, CacheInit, PlaceInv, Placed, Needed
<1> QED
  BY <1>1, PlaceStep, ControlInvariant, PTL DEF Spec

-----------------------------------------------------------------------------
(* What is stored                                                          *)

(* A deletion by prefix, before and after its SCAN.                        *)
Sweeping == [place : Nat, under : SUBSET Entries, found : {None} \cup SUBSET Entries]

StoreInv ==
    /\ cache = [e \in Entries |-> cache[e]]
    /\ \A e \in Entries : cache[e] # None => cache[e] \subseteq Shows[e]
    /\ excused \subseteq Entries \X Tables

SweepInv ==
    /\ sweeps \in [Requests -> SUBSET Sweeping]
    /\ \A r \in Requests : \A b \in sweeps[r] : b.found # None => b.found \subseteq b.under

LEMMA ShownTables == \A e \in Entries : Shows[e] \subseteq Tables
BY DEF Tables

LEMMA FoundFacts ==
    ASSUME StoreInv, NEW E \in SUBSET Entries
    PROVE  UNION {{e} \X cache[e] : e \in Found(E)} \subseteq Entries \X Tables
<1>1. ASSUME NEW e \in Found(E) PROVE {e} \X cache[e] \subseteq Entries \X Tables
  <2>1. e \in Entries /\ cache[e] # None
    BY DEF Found
  <2>2. cache[e] \subseteq Tables
    BY <2>1, ShownTables DEF StoreInv
  <2> QED BY <2>1, <2>2
<1> QED
  BY <1>1

LEMMA AheadEntries ==
    ASSUME ControlInv, PlaceInv, NEW r \in Requests
    PROVE  Ahead(r) \subseteq Entries
<1>1. CASE pc[r] # "running"
  BY <1>1 DEF PlaceInv, Placed, Ahead
<1>2. CASE pc[r] = "running"
  <2> DEFINE k == kind[r]
             i == at[r]
  <2>1. k \in DOMAIN Program /\ i \in 1..Len(Program[k]) /\ i # 0 /\ i \in Nat /\ Len(Program[k]) \in Nat
    BY <1>2, RunningFacts
  <2>2. i \in 1..(Len(Program[k]) + 1)
    BY <2>1
  <2>3. Ahead(r) = Later(k, i, {"fill", "claim", "drop", "sweep"})
    BY <2>1, <2>2 DEF Ahead, AheadFrom, From
  <2>4. ASSUME NEW m \in i..Len(Program[k]), Program[k][m].op \in {"fill", "claim", "drop", "sweep"}
        PROVE  Program[k][m].of \subseteq Entries
    <3>1. m \in 1..Len(Program[k])
      BY <2>1
    <3>2. Sane(Program[k][m].op, Program[k][m].of)
      BY <2>1, <3>1, ProgramFacts
    <3> QED BY <2>4, <3>2 DEF Sane
  <2> QED BY <2>3, <2>4 DEF Later
<1> QED
  BY <1>1, <1>2

LEMMA StoreFacts ==
    ASSUME StoreInv, NEW e \in Entries, NEW L, Store(e, L)
    PROVE  StoreInv'
<1>1. /\ cache' = [cache EXCEPT ![e] = L \cap Shows[e]]
      /\ excused' = Forget({e}) \cup ({e} \X (L \cap Shows[e]))
  BY DEF Store
<1>2. cache' = [x \in Entries |-> cache'[x]] /\ \A x \in Entries : cache'[x] # None => cache'[x] \subseteq Shows[x]
  BY <1>1 DEF StoreInv
<1>3. excused' \subseteq Entries \X Tables
  BY <1>1, ShownTables DEF StoreInv, Forget
<1> QED
  BY <1>2, <1>3 DEF StoreInv

LEMMA RemoveFacts ==
    ASSUME StoreInv, NEW E, Remove(E)
    PROVE  StoreInv' /\ \A e \in Entries : cache'[e] = IF e \in E THEN None ELSE cache[e]
<1>1. /\ cache' = [e \in Entries |-> IF e \in E THEN None ELSE cache[e]]
      /\ excused' = {p \in excused : p[1] \notin E}
  BY DEF Remove, Forget
<1>2. cache' = [x \in Entries |-> cache'[x]] /\ \A x \in Entries : cache'[x] # None => cache'[x] \subseteq Shows[x]
  BY <1>1 DEF StoreInv
<1>3. excused' \subseteq Entries \X Tables
  BY <1>1 DEF StoreInv
<1> QED
  BY <1>1, <1>2, <1>3 DEF StoreInv

LEMMA StoreStep == ControlInv /\ PlaceInv /\ StoreInv /\ SweepInv /\ [Next]_vars => StoreInv'
<1> SUFFICES ASSUME ControlInv, PlaceInv, StoreInv, SweepInv, [Next]_vars PROVE StoreInv'
  OBVIOUS
<1>1. ASSUME NEW r \in Requests, CacheSteps(r) PROVE StoreInv'
  <2>1. CASE Begin(r) \/ GetCached(r) \/ Reads(r) \/ TurnedAway(r) \/ RereadFails(r) \/ SweepStarts(r)
               \/ SweepScan(r) \/ Awaits(r)
    <3>1. UNCHANGED <<cache, excused>>
      BY <2>1 DEF Begin, GetCached, Reads, TurnedAway, RereadFails, SweepStarts, SweepScan, Awaits
    <3> QED BY <3>1 DEF StoreInv
  <2>2. CASE Writes(r)
    <3> DEFINE T == Of(r)
    <3>1. /\ cache' = [e \in Entries |-> IF cache[e] = None THEN None ELSE cache[e] \cup (T \cap Shows[e])]
          /\ excused' = excused \cup {p \in LeftStale(kind[r], T) :
                                        cache[p[1]] # None /\ p[2] \in Shows[p[1]]}
          /\ pc[r] = "running" /\ NextStep(r).op = "write"
      BY <2>2 DEF Writes, At
    <3>2. T \subseteq Tables
      BY <3>1, RunningFacts DEF Sane, Of
    <3> HIDE DEF T
    <3>3. /\ cache' = [x \in Entries |-> cache'[x]]
          /\ \A x \in Entries : cache'[x] # None => cache'[x] \subseteq Shows[x]
      BY <3>1 DEF StoreInv
    <3>4. LeftStale(kind[r], T) \subseteq Entries \X Tables
      BY <3>2 DEF LeftStale
    <3>5. excused' \subseteq Entries \X Tables
      BY <3>1, <3>4 DEF StoreInv
    <3> QED BY <3>3, <3>5 DEF StoreInv
  <2>3. CASE Fills(r) \/ Claims(r)
    <3>1. pc[r] = "running" /\ NextStep(r).op \in {"fill", "claim"} /\ \E e \in Of(r) : \E L : Store(e, L)
      BY <2>3 DEF Fills, Claims, At
    <3>2. Of(r) \subseteq Entries
      BY <3>1, RunningFacts DEF Sane, Of
    <3> QED BY <3>1, <3>2, StoreFacts
  <2>4. CASE Drops(r) \/ SweepDelete(r)
    <3>1. \E E : Remove(E)
      BY <2>4 DEF Drops, SweepDelete
    <3> QED BY <3>1, RemoveFacts
  <2>5. CASE HandlerFails(r)
    <3>1. /\ excused' = excused \cup UNION {{e} \X cache[e] : e \in Found(Ahead(r))}
          /\ cache' = cache
      BY <2>5 DEF HandlerFails
    <3>2. UNION {{e} \X cache[e] : e \in Found(Ahead(r))} \subseteq Entries \X Tables
      BY AheadEntries, FoundFacts
    <3> QED BY <3>1, <3>2 DEF StoreInv
  <2> QED BY <1>1, <2>1, <2>2, <2>3, <2>4, <2>5 DEF CacheSteps
<1>2. ASSUME NEW e \in Entries, Expire(e) PROVE StoreInv'
  BY <1>2, RemoveFacts DEF Expire
<1>3. CASE AsideOfCaches
  BY <1>3 DEF AsideOfCaches, cacheVars, StoreInv
<1>4. CASE Crash
  <2>1. cache' = cache /\ excused' = UNION {{e} \X cache[e] : e \in Found(Entries)}
    BY <1>4 DEF Crash, CacheCrash
  <2> QED BY <2>1, FoundFacts DEF StoreInv
<1> QED
  BY <1>1, <1>2, <1>3, <1>4, CachesCases

LEMMA SweepStep == ControlInv /\ PlaceInv /\ StoreInv /\ SweepInv /\ [Next]_vars => SweepInv'
<1> SUFFICES ASSUME ControlInv, PlaceInv, StoreInv, SweepInv, [Next]_vars PROVE SweepInv'
  OBVIOUS
<1>1. ASSUME NEW r \in Requests, CacheSteps(r) PROVE SweepInv'
  <2>1. CASE SweepStarts(r)
    <3> DEFINE b == [place |-> at[r], under |-> Of(r), found |-> None]
    <3>1. sweeps' = [sweeps EXCEPT ![r] = @ \cup {b}] /\ pc[r] = "running" /\ NextStep(r).op = "sweep"
      BY <2>1 DEF SweepStarts, At
    <3>2. Of(r) \subseteq Entries /\ at[r] \in Nat
      BY <3>1, RunningFacts DEF Sane, Of
    <3>3. b \in Sweeping /\ b.found = None
      BY <3>2 DEF Sweeping
    <3> HIDE DEF b
    <3> QED BY <3>1, <3>3 DEF SweepInv
  <2>2. CASE SweepScan(r)
    <3>1. PICK b \in {x \in sweeps[r] : x.found = None} :
             sweeps' = [sweeps EXCEPT ![r] =
                          (@ \ {b}) \cup (IF Found(b.under) = {} THEN {}
                                          ELSE {[b EXCEPT !.found = Found(b.under)]})]
      BY <2>2 DEF SweepScan
    <3> DEFINE c == [b EXCEPT !.found = Found(b.under)]
    <3>2. b \in Sweeping
      BY DEF SweepInv
    <3>3. c \in Sweeping /\ c.found = Found(b.under) /\ c.under = b.under
      BY <3>2 DEF Sweeping, Found
    <3>4. c.found \subseteq c.under
      BY <3>3 DEF Found
    <3> HIDE DEF c
    <3>5. \E S \in {{}, {c}} : sweeps' = [sweeps EXCEPT ![r] = (@ \ {b}) \cup S]
      BY <3>1 DEF c
    <3> QED BY <3>3, <3>4, <3>5 DEF SweepInv
  <2>3. CASE SweepDelete(r)
    BY <2>3 DEF SweepDelete, SweepInv
  <2>4. CASE \/ Begin(r) \/ GetCached(r) \/ Reads(r) \/ TurnedAway(r) \/ RereadFails(r) \/ Writes(r)
             \/ Fills(r) \/ Claims(r) \/ Drops(r) \/ Awaits(r) \/ HandlerFails(r)
    <3>1. sweeps' = sweeps
      BY <2>4 DEF Begin, GetCached, Reads, TurnedAway, RereadFails, Writes, Fills, Claims, Drops, Awaits,
                  HandlerFails
    <3> QED BY <3>1 DEF SweepInv
  <2> QED BY <1>1, <2>1, <2>2, <2>3, <2>4 DEF CacheSteps
<1>2. ASSUME NEW e \in Entries, Expire(e) PROVE SweepInv'
  BY <1>2 DEF Expire, SweepInv
<1>3. CASE AsideOfCaches
  BY <1>3 DEF AsideOfCaches, cacheVars, SweepInv
<1>4. CASE Crash
  BY <1>4 DEF Crash, CacheCrash, SweepInv
<1> QED
  BY <1>1, <1>2, <1>3, <1>4, CachesCases

LEMMA StoreInvariant == Spec => [](StoreInv /\ SweepInv)
<1>1. Init => StoreInv /\ SweepInv
  BY DEF Init, CacheInit, StoreInv, SweepInv
<1> QED
  BY <1>1, StoreStep, SweepStep, ControlInvariant, PlaceInvariant, PTL DEF Spec

-----------------------------------------------------------------------------
(* Stale entries                                                           *)

(* What the deletions that handler r began will remove.                    *)
Swept(r) == {e \in Entries : \E b \in sweeps[r] : e \in b.under /\ (b.found = None \/ e \in b.found)}

(* A stale entry has an excuse, or a handler that owes its deletion.       *)
Owing(e) == \E r \in Requests : e \in Debt(r) \/ e \in Swept(r)
StaleInv == \A e \in Entries : cache[e] # None => \A t \in cache[e] : <<e, t>> \in excused \/ Owing(e)

CacheInv == ControlInv /\ PlaceInv /\ StoreInv /\ SweepInv

(* A step of r that leaves what is stored and what is swept.               *)
LEMMA StaleKept ==
    ASSUME StaleInv, NEW r \in Requests, OthersWait(r), UNCHANGED <<cache, excused>>,
           \A x \in Requests : Swept(x) \subseteq Swept(x)',
           \A e \in Debt(r) : e \in Debt(r)'
    PROVE  StaleInv'
<1> SUFFICES ASSUME NEW e \in Entries, cache[e] # None, NEW t \in cache[e], <<e, t>> \notin excused
             PROVE  Owing(e)'
  BY DEF StaleInv
<1>1. PICK x \in Requests : e \in Debt(x) \/ e \in Swept(x)
  BY DEF StaleInv, Owing
<1>2. CASE e \in Swept(x)
  BY <1>2 DEF Owing
<1>3. CASE e \in Debt(x)
  <2>1. e \in Debt(x)'
    BY <1>3, WaitingFacts
  <2> QED BY <2>1 DEF Owing
<1> QED
  BY <1>1, <1>2, <1>3

(* A step that removes or replaces entry e, and may change nothing else of *)
(* what is owed.                                                           *)
LEMMA StalePaid ==
    ASSUME StaleInv, NEW r \in Requests, OthersWait(r), NEW E,
           \A e \in Entries \ E : cache'[e] = cache[e],
           \A e \in Entries \ E : \A t : <<e, t>> \in excused => <<e, t>> \in excused',
           \A e \in Entries \cap E : cache'[e] # None => \A t \in cache'[e] : <<e, t>> \in excused',
           \A x \in Requests : \A e \in Swept(x) \ E : e \in Swept(x)',
           \A e \in Debt(r) \ E : e \in Debt(r)'
    PROVE  StaleInv'
<1> SUFFICES ASSUME NEW e \in Entries, cache'[e] # None, NEW t \in cache'[e], <<e, t>> \notin excused'
             PROVE  Owing(e)'
  BY DEF StaleInv
<1>0. e \notin E /\ cache[e] # None /\ t \in cache[e] /\ <<e, t>> \notin excused
  OBVIOUS
<1>1. PICK x \in Requests : e \in Debt(x) \/ e \in Swept(x)
  BY <1>0 DEF StaleInv, Owing
<1>2. CASE e \in Swept(x)
  BY <1>0, <1>2 DEF Owing
<1>3. CASE e \in Debt(x)
  <2>1. e \in Debt(x)'
    BY <1>0, <1>3, WaitingFacts
  <2> QED BY <2>1 DEF Owing
<1> QED
  BY <1>1, <1>2, <1>3

(* What a handler that goes on owes: what it did but for what it paid.     *)
LEMMA DebtAdvances ==
    ASSUME CacheInv, NEW r \in Requests, pc[r] = "running", Advances(r)
    PROVE  /\ OthersWait(r)
           /\ \A e \in Debt(r) : e \in Debt(r)' \/ e \in Of(r)
           /\ NextStep(r).op \notin {"fill", "claim", "drop", "sweep"} => \A e \in Debt(r) : e \in Debt(r)'
           /\ NextStep(r).op = "write" => Owed(kind[r], Of(r)) \subseteq Debt(r)'
<1> DEFINE k == kind[r]
           i == at[r]
<1>1. k \in DOMAIN Program /\ i \in 1..Len(Program[k]) /\ Debt(r) = Owes(k, i)
  BY RunningFacts DEF CacheInv
<1>2. OthersWait(r) /\ Debt(r)' = Owes(k, i + 1)
  BY AdvanceFacts DEF CacheInv
<1>3. \A e \in Owes(k, i) : e \in Owes(k, i + 1) \/ Pays(Program[k], i, e)
  BY <1>1, OwesFacts
<1>4. \A e : Pays(Program[k], i, e) =>
         e \in Of(r) /\ NextStep(r).op \in {"fill", "claim", "drop", "sweep"}
  BY DEF Pays, Of, NextStep
<1>5. NextStep(r).op = "write" => Owed(k, Of(r)) \subseteq Owes(k, i + 1)
  BY <1>1, OwesFacts DEF Of, NextStep
<1> QED
  BY <1>1, <1>2, <1>3, <1>4, <1>5

LEMMA StaleHandlers ==
    ASSUME CacheInv, StaleInv, NEW r \in Requests, CacheSteps(r)
    PROVE  StaleInv'
<1>0. ControlInv /\ PlaceInv /\ StoreInv /\ SweepInv
  BY DEF CacheInv
<1>1. ASSUME sweeps' = sweeps PROVE \A x \in Requests : Swept(x)' = Swept(x)
  BY <1>1 DEF Swept
<1>2. ASSUME pc[r] = "running", Advances(r), UNCHANGED <<cache, excused, sweeps>>,
             NextStep(r).op \notin {"fill", "claim", "drop", "sweep"}
      PROVE  StaleInv'
  BY <1>1, <1>2, DebtAdvances, StaleKept
<1>3. ASSUME NEW how \in {"done", "rejected"}, Leaves(r, how), UNCHANGED <<cache, excused, sweeps>>,
             pc[r] = "running", NextStep(r).op \in {"hit", "find"}
      PROVE  StaleInv'
  <2>1. /\ pc' = [pc EXCEPT ![r] = how] /\ kind' = [kind EXCEPT ![r] = None]
        /\ at' = [at EXCEPT ![r] = 0] /\ how # "running"
    BY <1>3 DEF Leaves, Answers, Ends
  <2>2. OthersWait(r)
    BY <1>0, <2>1, AnswerFacts
  <2>3. kind[r] \in DOMAIN Program /\ at[r] \in 1..Len(Program[kind[r]]) /\ Debt(r) = Owes(kind[r], at[r])
    BY <1>0, <1>3, RunningFacts
  <2>4. Debt(r) = {}
    BY <1>3, <2>3, OwesFacts DEF NextStep
  <2> QED BY <1>1, <1>3, <2>2, <2>4, StaleKept
<1>4. CASE Begin(r)
  <2>1. PICK q \in mix[r] \cap DOMAIN Program : Starts(r, q, "running") /\ at' = [at EXCEPT ![r] = 1]
    BY <1>4 DEF Begin
  <2>2. /\ UNCHANGED <<cache, sweeps, excused>> /\ pc[r] = "new"
        /\ \A x \in Requests \ {r} : pc'[x] = pc[x] /\ kind'[x] = kind[x] /\ at'[x] = at[x]
    BY <1>0, <1>4, <2>1 DEF Begin, Starts, MayRun, ControlInv, PlaceInv
  <2>3. OthersWait(r) /\ Placed(r)
    BY <1>0, <2>2 DEF OthersWait, PlaceInv
  <2>4. Debt(r) = {}
    BY <2>2, <2>3 DEF Debt, Placed
  <2> QED BY <1>1, <2>2, <2>3, <2>4, StaleKept
<1>5. CASE GetCached(r)
  BY <1>2, <1>3, <1>5 DEF GetCached, At
<1>6. CASE Reads(r)
  BY <1>2, <1>6 DEF Reads, At
<1>7. CASE TurnedAway(r)
  BY <1>3, <1>7 DEF TurnedAway, At
<1>8. CASE RereadFails(r)
  <2> DEFINE k == kind[r]
             i == at[r]
  <2>1. /\ pc[r] = "running" /\ Program[k][i].op = "reread" /\ at' = [at EXCEPT ![r] = @ + 2]
        /\ UNCHANGED <<pc, kind, cache, excused, sweeps>>
    BY <1>8 DEF RereadFails, At, NextStep
  <2>2. k \in DOMAIN Program /\ i \in 1..Len(Program[k]) /\ i \in Nat /\ Debt(r) = Owes(k, i)
    BY <1>0, <2>1, RunningFacts
  <2>3. Owes(k, i) \subseteq Owes(k, i + 2)
    BY <2>1, <2>2, OwesFacts
  <2>4. at'[r] = i + 2 /\ i + 2 # 0 /\ \A x \in Requests \ {r} : at'[x] = at[x]
    BY <1>0, <2>1, <2>2 DEF PlaceInv
  <2>5. Debt(r)' = Owes(k, i + 2) /\ OthersWait(r)
    BY <2>1, <2>4 DEF Debt, OthersWait
  <2> QED BY <1>1, <2>1, <2>2, <2>3, <2>5, StaleKept
<1>9. CASE Writes(r)
  <2> DEFINE k == kind[r]
             T == Of(r)
  <2>1. /\ cache' = [e \in Entries |-> IF cache[e] = None THEN None ELSE cache[e] \cup (T \cap Shows[e])]
        /\ excused' = excused \cup {p \in LeftStale(k, T) : cache[p[1]] # None /\ p[2] \in Shows[p[1]]}
        /\ pc[r] = "running" /\ NextStep(r).op = "write" /\ Advances(r) /\ sweeps' = sweeps
    BY <1>9 DEF Writes, At
  <2>2. OthersWait(r) /\ (\A e \in Debt(r) : e \in Debt(r)') /\ Owed(k, T) \subseteq Debt(r)'
    BY <2>1, DebtAdvances
  <2> HIDE DEF T, k
  <2>3. SUFFICES ASSUME NEW e \in Entries, cache'[e] # None, NEW t \in cache'[e], <<e, t>> \notin excused'
                 PROVE  Owing(e)'
    BY DEF StaleInv
  <2>4. cache[e] # None /\ (t \in cache[e] \/ t \in T \cap Shows[e]) /\ <<e, t>> \notin excused
    BY <2>1, <2>3
  <2>5. CASE t \in cache[e]
    <3>1. PICK x \in Requests : e \in Debt(x) \/ e \in Swept(x)
      BY <2>4, <2>5 DEF StaleInv, Owing
    <3>2. e \in Debt(x)' \/ e \in Swept(x)'
      BY <1>1, <2>1, <2>2, <3>1, WaitingFacts
    <3> QED BY <3>2 DEF Owing
  <2>6. CASE t \in T \cap Shows[e]
    <3>1. <<e, t>> \notin LeftStale(k, T)
      BY <2>1, <2>3, <2>4, <2>6
    <3>2. <<t, e>> \notin Overlooked /\ <<k, e>> \notin Skipped
      BY <2>6, <3>1 DEF LeftStale
    <3>3. e \in Owed(k, T)
      BY <2>6, <3>2 DEF Owed
    <3> QED BY <2>2, <3>3 DEF Owing
  <2> QED BY <2>4, <2>5, <2>6
<1>10. CASE Fills(r) \/ Claims(r)
  <2>1. /\ pc[r] = "running" /\ NextStep(r).op \in {"fill", "claim"} /\ Advances(r) /\ sweeps' = sweeps
        /\ \E e \in Of(r) : \E L : Store(e, L)
    BY <1>10 DEF Fills, Claims, At
  <2>2. PICK e \in Of(r) : \E L : Store(e, L)
    BY <2>1
  <2>3. PICK L : Store(e, L)
    BY <2>2
  <2>4. Of(r) = {e} /\ e \in Entries
    BY <1>0, <2>1, RunningFacts DEF Sane, Of
  <2>5. /\ cache' = [cache EXCEPT ![e] = L \cap Shows[e]]
        /\ excused' = {p \in excused : p[1] \notin {e}} \cup ({e} \X (L \cap Shows[e]))
    BY <2>3 DEF Store, Forget
  <2>6. /\ \A x \in Entries \ {e} : cache'[x] = cache[x]
        /\ \A x \in Entries \ {e} : \A t : <<x, t>> \in excused => <<x, t>> \in excused'
        /\ cache'[e] = L \cap Shows[e] /\ \A t \in L \cap Shows[e] : <<e, t>> \in excused'
    BY <1>0, <2>4, <2>5 DEF StoreInv
  <2>7. OthersWait(r) /\ \A x \in Debt(r) \ {e} : x \in Debt(r)'
    BY <2>1, <2>4, DebtAdvances
  <2>8. \A x \in Requests : \A y \in Swept(x) \ {e} : y \in Swept(x)'
    BY <1>1, <2>1
  <2>9. \A x \in Entries \cap {e} : cache'[x] # None => \A t \in cache'[x] : <<x, t>> \in excused'
    BY <2>6
  <2> QED BY <2>6, <2>7, <2>8, <2>9, StalePaid
<1>11. ASSUME NEW E, Remove(E), OthersWait(r),
              \A x \in Requests : \A e \in Swept(x) \ E : e \in Swept(x)',
              \A e \in Debt(r) \ E : e \in Debt(r)'
       PROVE  StaleInv'
  <2>1. \A e \in Entries : cache'[e] = IF e \in E THEN None ELSE cache[e]
    BY <1>0, <1>11, RemoveFacts
  <2>2. excused' = {p \in excused : p[1] \notin E}
    BY <1>11 DEF Remove, Forget
  <2>3. \A e \in Entries \ E : \A t : <<e, t>> \in excused => <<e, t>> \in excused'
    BY <2>2
  <2>4. \A e \in Entries \cap E : cache'[e] # None => \A t \in cache'[e] : <<e, t>> \in excused'
    BY <2>1
  <2>5. \A e \in Entries \ E : cache'[e] = cache[e]
    BY <2>1
  <2> QED BY <1>11, <2>3, <2>4, <2>5, StalePaid
<1>12. CASE Drops(r)
  <2>1. pc[r] = "running" /\ Advances(r) /\ Remove(Of(r)) /\ sweeps' = sweeps
    BY <1>12 DEF Drops, At
  <2>2. OthersWait(r) /\ \A e \in Debt(r) \ Of(r) : e \in Debt(r)'
    BY <2>1, DebtAdvances
  <2> QED BY <1>1, <1>11, <2>1, <2>2
<1>13. CASE SweepStarts(r)
  <2> DEFINE b == [place |-> at[r], under |-> Of(r), found |-> None]
  <2>1. /\ sweeps' = [sweeps EXCEPT ![r] = @ \cup {b}] /\ UNCHANGED <<cache, excused>>
        /\ pc[r] = "running" /\ NextStep(r).op = "sweep" /\ Advances(r)
    BY <1>13 DEF SweepStarts, At
  <2>2. /\ OthersWait(r) /\ \A e \in Debt(r) : e \in Debt(r)' \/ e \in Of(r)
    BY <2>1, DebtAdvances
  <2>3. b.under = Of(r) /\ b.found = None
    OBVIOUS
  <2> HIDE DEF b
  <2>4. sweeps'[r] = sweeps[r] \cup {b} /\ \A x \in Requests \ {r} : sweeps'[x] = sweeps[x]
    BY <1>0, <2>1 DEF SweepInv
  <2>5. \A x \in Requests : Swept(x) \subseteq Swept(x)'
    BY <2>4 DEF Swept
  <2>6. \A e \in Entries \cap Of(r) : e \in Swept(r)'
    BY <2>3, <2>4 DEF Swept
  <2>7. SUFFICES ASSUME NEW e \in Entries, cache[e] # None, NEW t \in cache[e], <<e, t>> \notin excused
                 PROVE  Owing(e)'
    BY <2>1 DEF StaleInv
  <2>8. PICK x \in Requests : e \in Debt(x) \/ e \in Swept(x)
    BY <2>7 DEF StaleInv, Owing
  <2>9. \E y \in Requests : e \in Debt(y)' \/ e \in Swept(y)'
    BY <2>2, <2>5, <2>6, <2>8, WaitingFacts
  <2> QED BY <2>9 DEF Owing
<1>14. CASE SweepScan(r)
  <2>1. PICK b \in {x \in sweeps[r] : x.found = None} :
           /\ sweeps' = [sweeps EXCEPT ![r] =
                          (@ \ {b}) \cup (IF Found(b.under) = {} THEN {}
                                          ELSE {[b EXCEPT !.found = Found(b.under)]})]
           /\ UNCHANGED <<handlers, cache, at, excused>>
    BY <1>14 DEF SweepScan
  <2> DEFINE c == [b EXCEPT !.found = Found(b.under)]
  <2>2. b \in Sweeping
    BY <1>0 DEF SweepInv
  <2>3. c.found = Found(b.under) /\ c.under = b.under
    BY <2>2 DEF Sweeping
  <2> HIDE DEF c
  <2>4. /\ sweeps'[r] = (sweeps[r] \ {b}) \cup (IF Found(b.under) = {} THEN {} ELSE {c})
        /\ \A x \in Requests \ {r} : sweeps'[x] = sweeps[x]
    BY <1>0, <2>1 DEF SweepInv, c
  <2>5. ASSUME NEW x \in Requests, NEW e \in Swept(x), cache[e] # None PROVE e \in Swept(x)'
    <3>1. PICK a \in sweeps[x] : e \in a.under /\ (a.found = None \/ e \in a.found)
      BY DEF Swept
    <3>2. e \in Entries
      BY DEF Swept
    <3>3. CASE x # r \/ a # b
      <4>1. a \in sweeps'[x]
        BY <2>4, <3>1, <3>3
      <4> QED BY <3>1, <3>2, <4>1 DEF Swept
    <3>4. CASE x = r /\ a = b
      <4>1. e \in Found(b.under)
        BY <2>5, <3>1, <3>4 DEF Found
      <4>2. c \in sweeps'[x] /\ e \in c.under /\ e \in c.found
        BY <2>3, <2>4, <3>1, <3>4, <4>1
      <4> QED BY <3>2, <4>2 DEF Swept
    <3> QED BY <3>3, <3>4
  <2>6. SUFFICES ASSUME NEW e \in Entries, cache[e] # None, NEW t \in cache[e], <<e, t>> \notin excused
                 PROVE  Owing(e)'
    BY <2>1 DEF StaleInv
  <2>7. PICK x \in Requests : e \in Debt(x) \/ e \in Swept(x)
    BY <2>6 DEF StaleInv, Owing
  <2>8. Debt(x)' = Debt(x)
    BY <2>1 DEF handlers, Debt
  <2> QED BY <2>5, <2>6, <2>7, <2>8 DEF Owing
<1>15. CASE SweepDelete(r)
  <2>1. PICK b \in {x \in sweeps[r] : x.found # None} :
           /\ Remove(b.found) /\ sweeps' = [sweeps EXCEPT ![r] = @ \ {b}]
           /\ UNCHANGED <<handlers, at>>
    BY <1>15 DEF SweepDelete
  <2>2. /\ sweeps'[r] = sweeps[r] \ {b} /\ \A x \in Requests \ {r} : sweeps'[x] = sweeps[x]
    BY <1>0, <2>1 DEF SweepInv
  <2>3. ASSUME NEW x \in Requests, NEW e \in Swept(x) \ b.found PROVE e \in Swept(x)'
    <3>1. PICK a \in sweeps[x] : e \in a.under /\ (a.found = None \/ e \in a.found)
      BY DEF Swept
    <3>2. a # b
      BY <2>1, <2>3, <3>1
    <3>3. a \in sweeps'[x] /\ e \in Entries
      BY <2>2, <3>1, <3>2 DEF Swept
    <3> QED BY <3>1, <3>3 DEF Swept
  <2>4. OthersWait(r) /\ Debt(r)' = Debt(r)
    BY <2>1 DEF handlers, OthersWait, Debt
  <2> QED BY <1>11, <2>1, <2>3, <2>4
<1>16. CASE Awaits(r)
  BY <1>2, <1>16 DEF Awaits, At
<1>17. CASE HandlerFails(r)
  <2>1. /\ pc' = [pc EXCEPT ![r] = "failed"] /\ kind' = [kind EXCEPT ![r] = None]
        /\ at' = [at EXCEPT ![r] = 0] /\ "failed" # "running" /\ pc[r] = "running"
        /\ excused' = excused \cup UNION {{e} \X cache[e] : e \in Found(Ahead(r))}
        /\ UNCHANGED <<cache, sweeps>>
    BY <1>17 DEF HandlerFails, Breaks
  <2>2. OthersWait(r)
    BY <1>0, <2>1, AnswerFacts
  <2>3. Debt(r) \subseteq Ahead(r)
    <3>1. /\ kind[r] \in DOMAIN Program /\ at[r] \in 1..Len(Program[kind[r]]) /\ at[r] # 0
          /\ Debt(r) = Owes(kind[r], at[r])
      BY <1>0, <2>1, RunningFacts
    <3> QED BY <3>1, OwesAhead DEF Ahead
  <2>4. SUFFICES ASSUME NEW e \in Entries, cache[e] # None, NEW t \in cache[e], <<e, t>> \notin excused'
                 PROVE  Owing(e)'
    BY <2>1 DEF StaleInv
  <2>5. e \notin Ahead(r) /\ <<e, t>> \notin excused
    <3>1. e \in Found(Ahead(r)) => <<e, t>> \in excused'
      BY <2>1, <2>4
    <3> QED BY <2>1, <2>4, <3>1 DEF Found
  <2>6. PICK x \in Requests : e \in Debt(x) \/ e \in Swept(x)
    BY <2>4, <2>5 DEF StaleInv, Owing
  <2>7. e \in Debt(x)' \/ e \in Swept(x)'
    BY <1>1, <2>1, <2>2, <2>3, <2>5, <2>6, WaitingFacts
  <2> QED BY <2>7 DEF Owing
<1> QED
  BY <1>4, <1>5, <1>6, <1>7, <1>8, <1>9, <1>10, <1>12, <1>13, <1>14, <1>15, <1>16, <1>17 DEF CacheSteps

LEMMA StaleStep == CacheInv /\ StaleInv /\ [Next]_vars => StaleInv'
<1> SUFFICES ASSUME CacheInv, StaleInv, [Next]_vars PROVE StaleInv'
  OBVIOUS
<1>0. ControlInv /\ PlaceInv /\ StoreInv /\ SweepInv
  BY DEF CacheInv
<1>1. ASSUME NEW e \in Entries, Expire(e) PROVE StaleInv'
  <2>1. Remove({e}) /\ UNCHANGED <<handlers, at, sweeps>>
    BY <1>1 DEF Expire
  <2>2. excused' = {p \in excused : p[1] \notin {e}}
    BY <2>1 DEF Remove, Forget
  <2>3. \A x \in Entries : cache'[x] = IF x \in {e} THEN None ELSE cache[x]
    BY <1>0, <2>1, RemoveFacts
  <2>4. \A x \in Requests : Debt(x)' = Debt(x) /\ Swept(x)' = Swept(x)
    BY <2>1 DEF handlers, Debt, Swept
  <2>5. SUFFICES ASSUME NEW x \in Entries, cache'[x] # None, NEW t \in cache'[x], <<x, t>> \notin excused'
                 PROVE  Owing(x)'
    BY DEF StaleInv
  <2>6. x # e /\ cache[x] # None /\ t \in cache[x] /\ <<x, t>> \notin excused
    BY <2>2, <2>3, <2>5
  <2>7. PICK y \in Requests : x \in Debt(y) \/ x \in Swept(y)
    BY <2>6 DEF StaleInv, Owing
  <2> QED BY <2>4, <2>7 DEF Owing
<1>2. CASE AsideOfCaches
  <2>1. UNCHANGED <<cache, excused, at, sweeps>>
    BY <1>2 DEF AsideOfCaches, cacheVars
  <2>2. ASSUME NEW x \in Requests PROVE Debt(x)' = Debt(x)
    <3>1. CASE pc[x] = "running"
      BY <1>2, <2>1, <3>1 DEF AsideOfCaches, Debt
    <3>2. CASE pc[x] # "running"
      BY <1>0, <2>1, <3>2 DEF PlaceInv, Placed, Debt
    <3> QED BY <3>1, <3>2
  <2>3. \A x \in Requests : Swept(x)' = Swept(x)
    BY <2>1 DEF Swept
  <2> QED BY <2>1, <2>2, <2>3 DEF StaleInv, Owing
<1>3. CASE Crash
  <2>1. cache' = cache /\ excused' = UNION {{e} \X cache[e] : e \in Found(Entries)}
    BY <1>3 DEF Crash, CacheCrash
  <2>2. SUFFICES ASSUME NEW e \in Entries, cache[e] # None, NEW t \in cache[e] PROVE <<e, t>> \in excused'
    BY <2>1 DEF StaleInv
  <2>3. e \in Found(Entries)
    BY <2>2 DEF Found
  <2> QED BY <2>1, <2>3
<1> QED
  BY <1>0, <1>1, <1>2, <1>3, StaleHandlers, CachesCases

LEMMA StaleInvariant == Spec => [](CacheInv /\ StaleInv)
<1>1. Init => StaleInv
  BY DEF Init, CacheInit, StaleInv
<1>2. ControlInv /\ PlaceInv /\ StoreInv /\ SweepInv => CacheInv
  BY DEF CacheInv
<1> QED
  BY <1>1, <1>2, StaleStep, ControlInvariant, PlaceInvariant, StoreInvariant, PTL DEF Spec

(* An entry of Redis or of the recommendation system is stale only while   *)
(* its deletion is on the way, or for one of the known reasons: the calls  *)
(* of CacheService that follow the writes of the handlers are complete but *)
(* for those of Overlooked and Skipped, in whatever order the handlers and *)
(* their deletions by prefix go on, fail or end.                           *)
THEOREM EntriesStaleForReasons == Spec => []StaleOnlyIfRaced
<1>1. CacheInv /\ StaleInv => StaleOnlyIfRaced
  <2> SUFFICES ASSUME CacheInv, StaleInv, NEW e \in Entries, cache[e] # None, NEW t \in cache[e],
                      <<e, t>> \notin excused
               PROVE  Coming(e)
    BY DEF StaleOnlyIfRaced
  <2>1. PICK r \in Requests : e \in Debt(r) \/ e \in Swept(r)
    BY DEF StaleInv, Owing
  <2>2. CASE e \in Swept(r)
    BY <2>2 DEF Swept, Coming
  <2>3. CASE e \in Debt(r)
    <3>1. pc[r] = "running"
      BY <2>3 DEF CacheInv, PlaceInv, Placed, Debt
    <3>2. /\ kind[r] \in DOMAIN Program /\ at[r] \in 1..Len(Program[kind[r]]) /\ at[r] # 0
          /\ Debt(r) = Owes(kind[r], at[r])
      BY <3>1, RunningFacts DEF CacheInv
    <3>3. e \in Ahead(r)
      BY <2>3, <3>2, OwesAhead DEF Ahead
    <3> QED BY <3>3 DEF Coming
  <2> QED BY <2>1, <2>2, <2>3
<1> QED
  BY <1>1, StaleInvariant, PTL

-----------------------------------------------------------------------------
(* Types                                                                   *)

(* Every variable of Portal keeps its type: what a handler of any part     *)
(* holds, stores, relates, pages through or sums up is what its tables may *)
(* hold, and a request runs only the handlers it was sent to.              *)
THEOREM TypeCorrect == Spec => []TypeOK
<1>1. CacheInv => CacheTypeOK
  BY DEF CacheInv, PlaceInv, StoreInv, SweepInv, CacheTypeOK
<1>2. CatalogInv => CatalogTypeOK
  <2> SUFFICES ASSUME CatalogInv PROVE CatalogTypeOK
    OBVIOUS
  <2>1. /\ parent \in [Categories -> Categories \cup {None, Unborn, Removed}]
        /\ profile \in [industry : Choice, majority : Choice]
        /\ websites \subseteq (Requests \cup {Old}) \X Links
        /\ \A c \in {profile.industry, profile.majority} \ {None} : Exists(c)
    BY DEF CatalogInv, RowsShape, Referenced
  <2>2. /\ related.favorites \cup related.wishes \subseteq Candidates
        /\ related.jobs \subseteq Requests \cup {Old} /\ related.tags \subseteq Names
        /\ related.views \subseteq Candidates \X Requests
    BY DEF CatalogInv, RelatedShape, RelatedRecord
  <2>3. \A r \in Requests : asked[r].category \in Choice /\ asked[r].parent \in Choice
    BY DEF CatalogInv, RelatedShape, AskedRecord
  <2> QED BY <2>1, <2>2, <2>3 DEF CatalogTypeOK
<1>3. WalkInv => ListingTypeOK
  BY DEF WalkInv, ListingShape, ListingTypeOK, WalkRecord, Answer
<1>4. RankingInv => RankingTypeOK
  BY DEF RankingInv, RankingTypeOK, EstimateRecord
<1>5. ControlInv => \A r \in Requests : kind[r] = None \/ kind[r] \in mix[r]
  BY DEF ControlInv
<1>6. ControlInv /\ CacheInv /\ CatalogInv /\ WalkInv /\ RankingInv => TypeOK
  BY <1>1, <1>2, <1>3, <1>4, <1>5 DEF TypeOK
<1> QED
  BY <1>6, ControlInvariant, StaleInvariant, CatalogInvariant, WalkInvariant, RankingInvariant, PTL
=============================================================================
