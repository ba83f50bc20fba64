------------------------------ MODULE QueueFacts ------------------------------
(* Facts about sequences used as queues, for the proofs of Recovery (the     *)
(* audit chain and its trail) and of LeaderServices (the synchronizations).  *)
EXTENDS Naturals, Sequences, SequencesExt, TLAPS

LEMMA AppendFacts ==
    ASSUME NEW S, NEW s \in Seq(S), NEW e \in S
    PROVE  /\ Append(s, e) \in Seq(S) /\ Append(s, e) # <<>>
           /\ Len(s) \in Nat /\ Len(Append(s, e)) = Len(s) + 1
           /\ DOMAIN s = 1..Len(s) /\ DOMAIN Append(s, e) = 1..(Len(s) + 1)
           /\ \A i \in DOMAIN s : Append(s, e)[i] = s[i]
           /\ Append(s, e)[Len(s) + 1] = e
OBVIOUS

LEMMA SetFacts ==
    ASSUME NEW S, NEW s \in Seq(S)
    PROVE  /\ ToSet(s) \subseteq S /\ \A e : e \in ToSet(s) <=> \E i \in DOMAIN s : s[i] = e
           /\ s # <<>> => Last(s) \in ToSet(s)
BY DEF ToSet, Last

LEMMA AppendSet ==
    ASSUME NEW S, NEW s \in Seq(S), NEW e \in S
    PROVE  ToSet(Append(s, e)) = ToSet(s) \union {e} /\ Last(Append(s, e)) = e
<1>1. ToSet(Append(s, e)) = {Append(s, e)[i] : i \in 1..(Len(s) + 1)}
  BY AppendFacts DEF ToSet
<1>2. ToSet(s) = {s[i] : i \in 1..Len(s)}
  BY AppendFacts DEF ToSet
<1>3. \A i \in 1..(Len(s) + 1) : i \in 1..Len(s) \/ i = Len(s) + 1
  BY AppendFacts
<1>4. \A i \in 1..Len(s) : i \in 1..(Len(s) + 1)
  BY AppendFacts
<1>5. Len(s) + 1 \in 1..(Len(s) + 1)
  BY AppendFacts
<1> QED BY <1>1, <1>2, <1>3, <1>4, <1>5, AppendFacts DEF Last

LEMMA TailFacts ==
    ASSUME NEW S, NEW s \in Seq(S), s # <<>>
    PROVE  /\ Tail(s) \in Seq(S) /\ Len(s) \in Nat \ {0} /\ DOMAIN s = 1..Len(s)
           /\ DOMAIN Tail(s) = 1..(Len(s) - 1) /\ Len(Tail(s)) = Len(s) - 1
           /\ \A i \in 1..(Len(s) - 1) : Tail(s)[i] = s[i + 1]
           /\ Head(s) = s[1] /\ Head(s) \in S
OBVIOUS

LEMMA TailSet ==
    ASSUME NEW S, NEW s \in Seq(S), s # <<>>
    PROVE  /\ ToSet(s) = ToSet(Tail(s)) \union {Head(s)}
           /\ Tail(s) # <<>> => Last(Tail(s)) = Last(s)
<1>0. Tail(s) \in Seq(S) /\ DOMAIN Tail(s) = 1..(Len(s) - 1)
  BY TailFacts
<1>1. ASSUME NEW e \in ToSet(s) PROVE e \in ToSet(Tail(s)) \union {Head(s)}
  <2>1. PICK i \in 1..Len(s) : s[i] = e
    BY SetFacts, TailFacts
  <2>2. CASE i = 1
    BY <2>1, <2>2, TailFacts
  <2>3. CASE i # 1
    <3>1. i - 1 \in 1..(Len(s) - 1) /\ Tail(s)[i - 1] = e
      BY <2>1, <2>3, TailFacts
    <3>2. PICK j \in DOMAIN Tail(s) : Tail(s)[j] = e
      BY <1>0, <3>1
    <3> QED BY <1>0, <3>2, SetFacts
  <2> QED BY <2>2, <2>3
<1>2. ASSUME NEW e \in ToSet(Tail(s)) PROVE e \in ToSet(s)
  <2>1. PICK i \in 1..(Len(s) - 1) : Tail(s)[i] = e
    BY <1>0, SetFacts
  <2>2. i + 1 \in 1..Len(s) /\ s[i + 1] = e
    BY <2>1, TailFacts
  <2> QED BY <2>2, SetFacts, TailFacts
<1>3. Head(s) \in ToSet(s)
  BY SetFacts, TailFacts
<1>5. ToSet(s) = ToSet(Tail(s)) \union {Head(s)}
  BY <1>1, <1>2, <1>3
<1>6. Tail(s) # <<>> => Last(Tail(s)) = Last(s)
  BY TailFacts DEF Last
<1> QED BY <1>5, <1>6
=============================================================================
