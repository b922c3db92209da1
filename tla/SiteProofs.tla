------------------------------ MODULE SiteProofs ------------------------------
(***************************************************************************)
(* Proofs about what stands behind an organisation's site: LeadIntake,     *)
(* EditorHistory and OrgDomains, each for every value of its constants,    *)
(* and MCSites, which puts them side by side.                              *)
(***************************************************************************)
EXTENDS MCSites, SequenceTheorems, TLAPS

-----------------------------------------------------------------------------
(* Sequences.                                                              *)

LEMMA FrontAppend ==
  ASSUME NEW S, NEW s \in Seq(S), NEW c \in S
  PROVE  Front(Append(s, c)) = s /\ Last(Append(s, c)) = c
<1>1. /\ Len(s) \in Nat /\ Len(Append(s, c)) = Len(s) + 1 /\ (Len(s) + 1) - 1 = Len(s)
      /\ Append(s, c)[Len(s) + 1] = c
  BY AppendProperties, LenProperties
<1>2. Append(s, c) = s \o <<c>> /\ <<c>> \in Seq(S)
  BY AppendIsConcat
<1>3. Front(Append(s, c)) = SubSeq(s \o <<c>>, 1, Len(s))
  BY <1>1, <1>2 DEF Front
<1>4. SubSeq(s \o <<c>>, 1, Len(s)) = s
  <2>1. CASE s = <<>>
    <3>1. Len(s) \in Int /\ 1 \in Int /\ Len(s) < 1
      BY <2>1, EmptySeq
    <3>2. SubSeq(s \o <<c>>, 1, Len(s)) = <<>>
      BY <3>1, SubSeqEmpty
    <3> QED BY <2>1, <3>2
  <2>2. CASE s # <<>>
    <3>1. 1 \in 1..Len(s) /\ Len(s) \in 1..Len(s)
      BY <2>2, EmptySeq
    <3>2. SubSeq(s \o <<c>>, 1, Len(s)) = SubSeq(s, 1, Len(s))
      BY <1>2, <3>1, SubSeqOfConcat1
    <3> QED BY <3>2, SubSeqFull
  <2> QED BY <2>1, <2>2
<1> QED BY <1>1, <1>3, <1>4 DEF Last

LEMMA FrontFacts ==
  ASSUME NEW S, NEW s \in Seq(S), s # <<>>
  PROVE  \E t \in Seq(S), d \in S : s = Append(t, d) /\ Front(s) = t /\ Last(s) = d
<1>1. PICK t \in Seq(S), d \in S : s = Append(t, d)
  BY SequenceEmptyOrAppend
<1>2. Front(Append(t, d)) = t /\ Last(Append(t, d)) = d
  BY FrontAppend
<1> QED BY <1>1, <1>2

LEMMA ReverseFacts ==
  ASSUME NEW S, NEW s \in Seq(S)
  PROVE  /\ Reverse(s) \in Seq(S) /\ Len(Reverse(s)) = Len(s)
         /\ \A i \in 1..Len(s) : Reverse(s)[i] = s[Len(s) - i + 1]
<1>1. Len(s) \in Nat /\ \A i \in 1..Len(s) : s[Len(s) - i + 1] \in S
  BY ElementOfSeq, LenProperties
<1>2. Reverse(s) \in [1..Len(s) -> S]
  BY <1>1 DEF Reverse
<1>3. Reverse(s) \in Seq(S)
  BY <1>1, <1>2, SeqDef
<1>4. Len(Reverse(s)) = Len(s)
  BY <1>1, <1>2, <1>3, LenProperties
<1> QED BY <1>3, <1>4 DEF Reverse

LEMMA ReverseAppend ==
  ASSUME NEW S, NEW r \in Seq(S), NEW c \in S
  PROVE  Reverse(Append(r, c)) = <<c>> \o Reverse(r)
<1> DEFINE n == Len(r)  a == Append(r, c)  f == Reverse(a)  g == <<c>> \o Reverse(r)
<1>1. n \in Nat
  BY LenProperties
<1>2. a \in Seq(S) /\ Len(a) = n + 1 /\ a[n + 1] = c /\ \A i \in 1..n : a[i] = r[i]
  BY AppendProperties
<1> HIDE DEF a
<1>3. /\ f \in Seq(S) /\ Len(f) = Len(a)
      /\ \A i \in 1..Len(a) : f[i] = a[Len(a) - i + 1]
  BY <1>2, ReverseFacts
<1>4. /\ Reverse(r) \in Seq(S) /\ Len(Reverse(r)) = n
      /\ \A i \in 1..n : Reverse(r)[i] = r[n - i + 1]
  BY ReverseFacts
<1>5. <<c>> \in Seq(S) /\ Len(<<c>>) = 1 /\ <<c>>[1] = c
  OBVIOUS
<1>6. /\ g \in Seq(S) /\ Len(g) = Len(<<c>>) + Len(Reverse(r))
      /\ \A i \in 1..(Len(<<c>>) + Len(Reverse(r))) :
           g[i] = IF i <= Len(<<c>>) THEN <<c>>[i] ELSE Reverse(r)[i - Len(<<c>>)]
  BY <1>4, <1>5, ConcatProperties
<1> HIDE DEF f, g, n
<1>7. Len(f) = n + 1 /\ Len(g) = n + 1
  BY <1>1, <1>2, <1>3, <1>4, <1>5, <1>6
<1>8. ASSUME NEW i \in 1..Len(f) PROVE f[i] = g[i]
  <2>1. CASE i = 1
    <3>1. f[i] = a[n + 1]
      BY <1>1, <1>2, <1>3, <1>7, <2>1
    <3>2. g[i] = <<c>>[1]
      BY <1>1, <1>4, <1>5, <1>6, <2>1
    <3> QED BY <1>2, <1>5, <3>1, <3>2
  <2>2. CASE i # 1
    <3>1. /\ i - 1 \in 1..n /\ n - (i - 1) + 1 \in 1..n
          /\ n - (i - 1) + 1 = Len(a) - i + 1
      BY <1>1, <1>2, <1>7, <2>2
    <3>2. f[i] = r[n - (i - 1) + 1]
      BY <1>2, <1>3, <3>1
    <3>3. g[i] = Reverse(r)[i - 1]
      BY <1>1, <1>4, <1>5, <1>6, <1>7, <2>2
    <3> QED BY <1>4, <3>1, <3>2, <3>3
  <2> QED BY <2>1, <2>2
<1>9. f = g
  BY <1>3, <1>6, <1>7, <1>8, SeqEqual
<1> QED BY <1>9 DEF f, g, a

LEMMA FunSeq ==
  ASSUME NEW S, NEW n \in Nat, NEW f \in [1..n -> S]
  PROVE  f \in Seq(S) /\ Len(f) = n /\ DOMAIN f = 1..n
<1>1. f \in Seq(S)
  BY SeqDef
<1> QED BY <1>1, LenProperties

Former(i, j) == IF j < i THEN j ELSE j + 1

LEMMA RemoveAtFacts ==
  ASSUME NEW S, NEW s \in Seq(S), NEW i \in 1..Len(s)
  PROVE  /\ RemoveAt(s, i) \in Seq(S) /\ Len(RemoveAt(s, i)) = Len(s) - 1
         /\ \A j \in 1..(Len(s) - 1) :
              Former(i, j) \in 1..Len(s) \ {i} /\ RemoveAt(s, i)[j] = s[Former(i, j)]
<1> DEFINE n == Len(s)
           rest == RemoveAt(s, i)
           a == SubSeq(s, 1, i - 1)
           b == SubSeq(s, i + 1, n)
<1>1. n \in Nat /\ i \in 1..n
  BY LenProperties
<1>2. \A j \in 1..n : s[j] \in S
  BY <1>1, ElementOfSeq
<1>3. /\ a \in Seq(S) /\ Len(a) = i - 1
      /\ \A j \in 1..(i - 1) : a[j] = s[j]
  <2>1. /\ 1 \in Int /\ i - 1 \in Int /\ \A j \in 1..(i - 1) : s[j] \in S
    BY <1>1, <1>2
  <2>2. /\ a \in Seq(S)
        /\ Len(a) = IF 1 <= i - 1 THEN (i - 1) - 1 + 1 ELSE 0
        /\ \A j \in 1..((i - 1) - 1 + 1) : a[j] = s[1 + j - 1]
    BY <2>1, SubSeqProperties
  <2> HIDE DEF a
  <2>3. Len(a) = i - 1
    BY <1>1, <2>2
  <2>4. ASSUME NEW j \in 1..(i - 1) PROVE a[j] = s[j]
    <3>1. j \in 1..((i - 1) - 1 + 1) /\ 1 + j - 1 = j
      BY <1>1
    <3> QED BY <2>2, <3>1
  <2> QED BY <2>2, <2>3, <2>4
<1>4. /\ b \in Seq(S) /\ Len(b) = n - i
      /\ \A j \in 1..(n - i) : b[j] = s[i + j]
  <2>1. /\ i + 1 \in Int /\ n \in Int /\ \A j \in (i + 1)..n : s[j] \in S
    BY <1>1, <1>2
  <2>2. /\ b \in Seq(S)
        /\ Len(b) = IF i + 1 <= n THEN n - (i + 1) + 1 ELSE 0
        /\ \A j \in 1..(n - (i + 1) + 1) : b[j] = s[(i + 1) + j - 1]
    BY <2>1, SubSeqProperties
  <2> HIDE DEF b
  <2> HIDE DEF n
  <2>3. Len(b) = n - i
    <3>1. n \in Int /\ i \in Int /\ i <= n
      BY <1>1
    <3>2. (IF i + 1 <= n THEN n - (i + 1) + 1 ELSE 0) = n - i
      BY <3>1
    <3> QED BY <2>2, <3>2
  <2>4. ASSUME NEW j \in 1..(n - i) PROVE b[j] = s[i + j]
    <3>1. j \in 1..(n - (i + 1) + 1) /\ (i + 1) + j - 1 = i + j
      BY <1>1
    <3> QED BY <2>2, <3>1
  <2> QED BY <2>2, <2>3, <2>4
<1>5. rest = a \o b
  BY DEF RemoveAt
<1> HIDE DEF a, b, rest
<1>6. /\ rest \in Seq(S) /\ Len(rest) = Len(a) + Len(b)
      /\ \A j \in 1..(Len(a) + Len(b)) :
           rest[j] = IF j <= Len(a) THEN a[j] ELSE b[j - Len(a)]
  BY <1>3, <1>4, <1>5, ConcatProperties
<1> HIDE DEF n
<1>7. Len(rest) = n - 1
  BY <1>1, <1>3, <1>4, <1>6
<1>8. \A j \in 1..(n - 1) :
        rest[j] = IF j <= i - 1 THEN a[j] ELSE b[j - (i - 1)]
  <2>1. Len(a) + Len(b) = n - 1 /\ Len(a) = i - 1
    BY <1>1, <1>3, <1>4
  <2> QED BY <1>6, <2>1
<1>9. ASSUME NEW j \in 1..(n - 1)
      PROVE  Former(i, j) \in 1..n \ {i} /\ rest[j] = s[Former(i, j)]
  <2>1. CASE j < i
    <3>1. Former(i, j) = j /\ j \in 1..(i - 1)
      BY <1>1, <2>1 DEF Former
    <3>2. rest[j] = a[j]
      BY <1>1, <1>8, <3>1
    <3> QED BY <1>1, <1>3, <3>1, <3>2
  <2>2. CASE ~(j < i)
    <3>1. Former(i, j) = j + 1 /\ j - (i - 1) \in 1..(n - i) /\ i + (j - (i - 1)) = j + 1
      BY <1>1, <2>2 DEF Former
    <3>2. rest[j] = b[j - (i - 1)]
      BY <1>1, <1>8, <2>2
    <3>3. b[j - (i - 1)] = s[j + 1]
      BY <1>4, <3>1
    <3> QED BY <1>1, <2>2, <3>1, <3>2, <3>3
  <2> QED BY <2>1, <2>2
<1> QED BY <1>6, <1>7, <1>9 DEF n, rest

\* The same, entry by entry.
LEMMA RemoveAtEntry ==
  ASSUME NEW S, NEW s \in Seq(S), NEW i \in 1..Len(s), NEW j \in 1..(Len(s) - 1)
  PROVE  Former(i, j) \in 1..Len(s) \ {i} /\ RemoveAt(s, i)[j] = s[Former(i, j)]
<1>1. \A k \in 1..(Len(s) - 1) :
        Former(i, k) \in 1..Len(s) \ {i} /\ RemoveAt(s, i)[k] = s[Former(i, k)]
  BY ONLY s \in Seq(S), i \in 1..Len(s), RemoveAtFacts
<1> QED BY <1>1

-----------------------------------------------------------------------------
(* LeadIntake: types, and each lead once.  A step changes one worker, and  *)
(* the rest of the state within its types.                                 *)

\* A worker has its type, and a lead while it ingests one.
Able(k) == /\ k \in Worker
           /\ k.at \in {"check", "find", "store"} => k.lead \in Leadgens

LEMMA AbleNow == ASSUME LeadTypeOK, NEW w \in Workers PROVE Able(worker[w])
BY DEF LeadTypeOK, Able

\* The types of workers, from those of each worker.
AllAble == worker \in [Workers -> Worker] /\ \A w \in Workers : Able(worker[w])

LEMMA AtRestAble == Able(AtRest)
BY DEF AtRest, Worker, Steps, Errands, Able

LEMMA PutAble ==
  ASSUME LeadTypeOK, NEW w \in Workers, NEW new, Able(new), worker' = [worker EXCEPT ![w] = new]
  PROVE  AllAble'
<1>1. new \in Worker
  BY DEF Able
<1>2. worker' \in [Workers -> Worker]
  BY <1>1 DEF LeadTypeOK
<1>3. \A v \in Workers : worker'[v] = new \/ worker'[v] = worker[v]
  BY DEF LeadTypeOK
<1>4. \A v \in Workers : Able(worker'[v])
  BY <1>3, AbleNow
<1> QED BY <1>2, <1>4 DEF AllAble

\* A worker goes on to a step at which it needs no lead, or at which it has one.
LEMMA GoAble ==
  ASSUME LeadTypeOK, NEW w \in Workers, NEW step \in Steps, Go(w, step),
         step \in {"check", "find", "store"} => worker[w].at \in {"check", "find", "store"}
  PROVE  AllAble'
<1> DEFINE new == [worker[w] EXCEPT !.at = step]
<1>1. Able(worker[w])
  BY AbleNow
<1>2. Able(new)
  BY <1>1 DEF Worker, Able
<1>3. worker' = [worker EXCEPT ![w] = new]
  BY DEF Go, LeadTypeOK
<1> HIDE DEF new
<1> QED BY <1>2, <1>3, PutAble

LEMMA BeginAble ==
  ASSUME LeadTypeOK, NEW w \in Workers, NEW new, Able(new), Begin(w, new)
  PROVE  AllAble'
BY PutAble DEF Begin

LEMMA RestAble == ASSUME LeadTypeOK, NEW w \in Workers, Rest(w) PROVE AllAble'
BY PutAble, AtRestAble DEF Rest

LEMMA ProceedAble == ASSUME LeadTypeOK, NEW w \in Workers, Proceed(w) PROVE AllAble'
BY RestAble, GoAble DEF Proceed, Steps

\* A sync starts on a list of leads, or passes some of it over.
LEMMA ListAble ==
  ASSUME LeadTypeOK, NEW w \in Workers, NEW list \in SUBSET Leadgens,
         worker' = [worker EXCEPT ![w].at = "pick", ![w].todo = list]
  PROVE  AllAble'
<1> DEFINE new == [worker[w] EXCEPT !.at = "pick", !.todo = list]
<1>1. Able(worker[w])
  BY AbleNow
<1>2. Able(new)
  BY <1>1 DEF Worker, Steps, Able
<1>3. worker' = [worker EXCEPT ![w] = new]
  BY DEF LeadTypeOK
<1> HIDE DEF new
<1> QED BY <1>2, <1>3, PutAble

LEMMA PickAble == ASSUME LeadTypeOK, NEW w \in Workers, Pick(w) PROVE AllAble'
<1>1. PICK l \in worker[w].todo :
        worker' = [worker EXCEPT ![w].at = "check", ![w].lead = l, ![w].todo = @ \ {l}]
  BY Zenon DEF Pick
<1> DEFINE new == [worker[w] EXCEPT !.at = "check", !.lead = l, !.todo = @ \ {l}]
<1>2. Able(worker[w])
  BY AbleNow
<1>3. Able(new)
  BY <1>2 DEF Worker, Steps, Able
<1>4. worker' = [worker EXCEPT ![w] = new]
  BY <1>1 DEF LeadTypeOK
<1> HIDE DEF new
<1> QED BY <1>3, <1>4, PutAble

LEMMA OverlookAble ==
  ASSUME LeadTypeOK, NEW w \in Workers, NEW F \in SUBSET worker[w].todo,
         worker' = [worker EXCEPT ![w].todo = @ \ F]
  PROVE  AllAble'
<1> DEFINE new == [worker[w] EXCEPT !.todo = @ \ F]
<1>1. Able(worker[w])
  BY AbleNow
<1>2. Able(new)
  BY <1>1 DEF Worker, Able
<1>3. worker' = [worker EXCEPT ![w] = new]
  BY DEF LeadTypeOK
<1> HIDE DEF new
<1> QED BY <1>2, <1>3, PutAble

\* The syncs of a connection that is deleted have nothing to mark any more.
LEMMA UnlinkAble ==
  ASSUME LeadTypeOK, NEW w \in Workers, NEW new, Able(new), Unlink(w, new)
  PROVE  AllAble' /\ mirror' = "none"
<1>1. ASSUME NEW v \in Workers PROVE Able([worker[v] EXCEPT !.errand = "orphan"])
  <2>1. Able(worker[v])
    BY AbleNow
  <2> QED BY <2>1 DEF Worker, Errands, Able
<1>2. \A v \in Workers : Able(worker'[v])
  BY <1>1, AbleNow DEF Unlink
<1>3. worker' \in [Workers -> Worker]
  <2>1. \A v \in Workers : worker'[v] \in Worker
    BY <1>2 DEF Able
  <2> QED BY <2>1 DEF Unlink
<1> QED BY <1>2, <1>3 DEF AllAble, Unlink

\* What a worker starts with.
LEMMA ErrandsAble ==
  /\ \A l \in Leadgens : Able([at |-> "check", errand |-> "notice", lead |-> l, todo |-> {}])
  /\ Able([AtRest EXCEPT !.at = "subscribe", !.errand = "sync"])
  /\ Able([AtRest EXCEPT !.at = "subscribe", !.errand = "connect"])
  /\ Able([AtRest EXCEPT !.at = "page", !.errand = "connect"])
  /\ Able([AtRest EXCEPT !.at = "unmirror"])
  /\ Able([AtRest EXCEPT !.at = "unpage"])
BY DEF AtRest, Worker, Steps, Errands, Able

LEMMA MirroredTyped ==
  ASSUME LeadTypeOK, NEW s \in {"connected", "error"}, Mirrored(s)
  PROVE  mirror' \in {"none", "connected", "error"}
BY DEF Mirrored

\* The types of all the rest.
RestTypes ==
  /\ submitted \subseteq Leadgens /\ listed \subseteq Leadgens /\ notices \subseteq submitted
  /\ subscribed \in BOOLEAN /\ page \in BOOLEAN
  /\ mirror \in {"none", "connected", "error"}
  /\ warned \subseteq Leadgens /\ stops \in 0..MaxStops
  /\ leads \in [Leadgens -> Nat]

LEMMA LeadTypes == (LeadTypeOK <=> RestTypes /\ AllAble)
BY DEF LeadTypeOK, RestTypes, AllAble, Able

LEMMA LeadTypesNext == RestTypes' /\ AllAble' => LeadTypeOK'
BY DEF LeadTypeOK, RestTypes, AllAble, Able

LEMMA WorkerStepTyped ==
  ASSUME LeadTypeOK, NEW w \in Workers, WorkerStep(w)
  PROVE  LeadTypeOK'
<1> USE DEF meta, forms, links, logs
<1> SUFFICES RestTypes' /\ AllAble'
  BY LeadTypesNext
<1>0. RestTypes
  BY LeadTypes
<1>1. CASE Check(w)
  BY <1>0, <1>1, ProceedAble, GoAble DEF Check, RestTypes, Steps
<1>2. CASE Find(w)
  BY <1>0, <1>2, ProceedAble, GoAble DEF Find, RestTypes, Steps
<1>3. CASE Store(w)
  <2>1. leads' \in [Leadgens -> Nat]
    BY <1>0, <1>3 DEF Store, RestTypes
  <2> QED BY <1>0, <1>3, <2>1, ProceedAble DEF Store, RestTypes
<1>4. CASE Miss(w)
  <2>1. worker[w].lead \in Leadgens
    BY <1>4, AbleNow DEF Miss, Able
  <2> QED BY <1>0, <1>4, <2>1, ProceedAble DEF Miss, RestTypes
<1>5. CASE Subscribe(w)
  BY <1>0, <1>5, GoAble DEF Subscribe, Steps, RestTypes
<1>6. CASE List(w)
  <2> DEFINE list == submitted \cap listed
  <2>1. worker' = [worker EXCEPT ![w].at = "pick", ![w].todo = list]
    BY <1>6, Zenon DEF List
  <2>2. list \in SUBSET Leadgens
    BY <1>0 DEF RestTypes
  <2>3. AllAble'
    BY <2>1, <2>2, ListAble
  <2>4. UNCHANGED <<submitted, listed, notices, subscribed, page, mirror, leads, stops>> /\ warned' \subseteq warned
    BY <1>6 DEF List
  <2> QED BY <1>0, <2>3, <2>4 DEF RestTypes
<1>7. CASE Overlook(w)
  <2>1. worker[w].todo \subseteq Leadgens
    BY AbleNow DEF Able, Worker
  <2> QED BY <1>0, <1>7, <2>1, OverlookAble DEF Overlook, RestTypes
<1>8. CASE Pick(w)
  <2>1. UNCHANGED <<submitted, listed, notices, subscribed, page, mirror, leads, warned, stops>>
    BY <1>8, Zenon DEF Pick
  <2> QED BY <1>0, <1>8, <2>1, PickAble DEF RestTypes
<1>9. CASE Finish(w)
  BY <1>0, <1>9, RestAble, MirroredTyped DEF Finish, RestTypes
<1>10. CASE Refuse(w)
  BY <1>0, <1>10, RestAble, MirroredTyped DEF Refuse, RestTypes
<1>11. CASE SavePage(w)
  BY <1>0, <1>11, GoAble DEF SavePage, RestTypes, Steps
<1>12. CASE Mirror(w)
  BY <1>0, <1>12, GoAble DEF Mirror, RestTypes, Steps
<1>13. CASE Unmirror(w)
  BY <1>0, <1>13, UnlinkAble, AtRestAble DEF Unmirror, RestTypes
<1>14. CASE Unpage(w)
  BY <1>0, <1>14, RestAble DEF Unpage, RestTypes
<1> QED BY <1>1, <1>2, <1>3, <1>4, <1>5, <1>6, <1>7, <1>8, <1>9, <1>10, <1>11, <1>12, <1>13,
           <1>14 DEF WorkerStep

\* Work that begins or is cut off, and what Meta does.
LEMMA LeadStepTyped == LeadTypeOK /\ [LeadNext]_leadVars => LeadTypeOK'
<1> USE DEF meta, forms, links, logs
<1> SUFFICES ASSUME LeadTypeOK, [LeadNext]_leadVars PROVE LeadTypeOK'
  OBVIOUS
<1>0. RestTypes /\ AllAble
  BY LeadTypes
<1>1. ASSUME NEW l \in Leadgens, Submit(l) \/ Relist(l) PROVE RestTypes' /\ AllAble'
  <2>1. UNCHANGED worker
    BY <1>1 DEF Submit, Relist
  <2>2. AllAble'
    BY <1>0, <2>1 DEF AllAble
  <2> QED BY <1>0, <1>1, <2>2 DEF Submit, Relist, RestTypes
<1>2. ASSUME NEW w \in Workers, NEW l \in Leadgens, Notice(w, l) PROVE RestTypes' /\ AllAble'
  BY <1>0, <1>2, BeginAble, ErrandsAble DEF Notice, RestTypes
<1>3. ASSUME NEW w \in Workers, Sweep(w) \/ SyncNow(w) PROVE RestTypes' /\ AllAble'
  BY <1>0, <1>3, BeginAble, ErrandsAble DEF Sweep, SyncNow, RestTypes
<1>4. ASSUME NEW w \in Workers, ConnectPage(w) PROVE RestTypes' /\ AllAble'
  BY <1>0, <1>4, BeginAble, ErrandsAble DEF ConnectPage, RestTypes
<1>5. ASSUME NEW w \in Workers, ConnectWithToken(w) PROVE RestTypes' /\ AllAble'
  BY <1>0, <1>5, BeginAble, ErrandsAble DEF ConnectWithToken, RestTypes
<1>6. ASSUME NEW w \in Workers, Disconnect(w) PROVE RestTypes' /\ AllAble'
  BY <1>0, <1>6, BeginAble, ErrandsAble DEF Disconnect, RestTypes
<1>7. ASSUME NEW w \in Workers, DisconnectMirror(w) PROVE RestTypes' /\ AllAble'
  BY <1>0, <1>7, UnlinkAble, ErrandsAble DEF DisconnectMirror, RestTypes
<1>8. ASSUME NEW w \in Workers, Stop(w) PROVE RestTypes' /\ AllAble'
  BY <1>0, <1>8, RestAble, LeadAssumption DEF Stop, RestTypes
<1>9. CASE UNCHANGED leadVars
  <2>1. UNCHANGED worker
    BY <1>9 DEF leadVars
  <2>2. AllAble'
    BY ONLY <1>0, <2>1 DEF AllAble, Able
  <2>3. RestTypes'
    BY <1>0, <1>9 DEF leadVars, RestTypes
  <2> QED BY <2>2, <2>3, LeadTypesNext
<1> QED BY <1>1, <1>2, <1>3, <1>4, <1>5, <1>6, <1>7, <1>8, <1>9, LeadTypesNext, WorkerStepTyped
        DEF LeadNext

LEMMA LeadInitTyped == LeadInit => LeadTypeOK
<1> SUFFICES ASSUME LeadInit PROVE LeadTypeOK
  OBVIOUS
<1>1. AllAble
  BY AtRestAble DEF LeadInit, AllAble, Able
<1>2. RestTypes
  <2>1. leads \in [Leadgens -> Nat]
    BY DEF LeadInit
  <2>2. stops \in 0..MaxStops
    BY LeadAssumption DEF LeadInit
  <2> QED BY <2>1, <2>2 DEF LeadInit, RestTypes
<1> QED BY <1>1, <1>2, LeadTypes

\* Behaviours, fair or not.
LeadRuns == LeadInit /\ [][LeadNext]_leadVars

(* Connections, their workers and the rows of leads keep their types, and  *)
(* Meta notifies only of leads that it has.                                *)
THEOREM LeadTypeCorrect == LeadSpec => []LeadTypeOK
BY LeadInitTyped, LeadStepTyped, PTL DEF LeadSpec

LEMMA StepOnce ==
  ASSUME LeadTypeOK, OnceEach, [LeadNext]_leadVars
  PROVE  OnceEach'
<1>1. ASSUME NEW w \in Workers, Store(w) PROVE OnceEach'
  BY <1>1 DEF Store, OnceEach, LeadTypeOK
<1>2. CASE UNCHANGED leads
  BY <1>2 DEF OnceEach
<1>3. (\E w \in Workers : Store(w)) \/ UNCHANGED leads
  <2>1. ASSUME NEW w \in Workers, WorkerStep(w) \/ Stop(w) PROVE Store(w) \/ UNCHANGED leads
    BY <2>1, Zenon DEF WorkerStep, Check, Find, Miss, Subscribe, List, Overlook, Pick, Finish, Refuse,
         SavePage, Mirror, Unmirror, Unpage, Stop
  <2>2. ASSUME NEW w \in Workers,
               \/ \E l \in Leadgens : Notice(w, l)
               \/ Sweep(w) \/ SyncNow(w)
               \/ ConnectPage(w) \/ ConnectWithToken(w) \/ Disconnect(w) \/ DisconnectMirror(w)
        PROVE  UNCHANGED leads
    BY <2>2 DEF Notice, Sweep, SyncNow, ConnectPage, ConnectWithToken, Disconnect, DisconnectMirror
  <2>3. ASSUME NEW l \in Leadgens, Submit(l) \/ Relist(l) PROVE UNCHANGED leads
    BY <2>3 DEF Submit, Relist
  <2>4. CASE UNCHANGED leadVars
    BY <2>4 DEF leadVars
  <2> QED BY <2>1, <2>2, <2>3, <2>4 DEF LeadNext
<1> QED BY <1>1, <1>2, <1>3

LEMMA RunsStoreOnce == LeadRuns => []OnceEach
<1>1. LeadInit => OnceEach
  BY DEF LeadInit, OnceEach
<1>2. LeadTypeOK /\ OnceEach /\ [LeadNext]_leadVars => OnceEach'
  BY StepOnce
<1> QED BY <1>1, <1>2, LeadInitTyped, LeadStepTyped, PTL DEF LeadRuns

(* Whatever the number of workers and however they overlap, no lead is in  *)
(* the CRM twice.                                                          *)
THEOREM OnceEachAlways == LeadSpec => []OnceEach
BY RunsStoreOnce, PTL DEF LeadSpec, LeadRuns

-----------------------------------------------------------------------------
(* EditorHistory: the stacks are sequences of whatever has been a document *)
(* (what SelectSeq leaves of the pages plays no part).                     *)

History == \E S : undoStack \in Seq(S) /\ redoStack \in Seq(S) /\ config \in S

LEMMA StepHistory == History /\ [EditorNext]_editorVars => History'
<1> SUFFICES ASSUME History, [EditorNext]_editorVars PROVE History'
  OBVIOUS
<1>1. PICK S : undoStack \in Seq(S) /\ redoStack \in Seq(S) /\ config \in S
  BY DEF History
<1> DEFINE T == S \cup {config'}
<1>2. /\ undoStack \in Seq(T) /\ redoStack \in Seq(T) /\ config \in T /\ config' \in T
      /\ <<>> \in Seq(T)
  BY <1>1, SeqMonotonic, EmptySeq
<1> HIDE DEF T
<1>3. CASE PushUndo
  <2>1. undoStack' \in Seq(T)
    <3>1. CASE Len(undoStack) < MaxUndo
      BY <1>2, <1>3, <3>1, AppendProperties DEF PushUndo
    <3>2. CASE ~(Len(undoStack) < MaxUndo)
      <4>1. undoStack # <<>>
        BY <1>2, <3>2, EmptySeq, UndoAssumption
      <4> QED BY <1>2, <1>3, <3>2, <4>1, HeadTailProperties, AppendProperties DEF PushUndo
    <3> QED BY <3>1, <3>2
  <2> QED BY <1>2, <1>3, <2>1 DEF PushUndo, History
<1>4. CASE Undo
  BY <1>2, <1>4, FrontFacts, AppendProperties DEF Undo, History
<1>5. CASE Redo
  BY <1>2, <1>5, FrontFacts, AppendProperties DEF Redo, History
<1>6. CASE SetConfig
  BY <1>2, <1>6 DEF SetConfig, History
<1>7. CASE UNCHANGED <<undoStack, redoStack>>
  BY <1>2, <1>7 DEF History
<1> QED BY <1>3, <1>4, <1>5, <1>6, <1>7 DEF EditorNext, editorVars, ReworkBlocks, MutateBlocks,
           AddPage, RemovePage, SetActivePage, SetLook, PreviewTheme

LEMMA HistoryInvariant == EditorSpec => []History
<1>1. EditorInit => History
  <2> SUFFICES ASSUME EditorInit PROVE History
    OBVIOUS
  <2>1. <<>> \in Seq({config}) /\ config \in {config}
    BY EmptySeq
  <2> QED BY <2>1 DEF EditorInit, History
<1> QED BY <1>1, StepHistory, PTL DEF EditorSpec

LEMMA StepBounded ==
  ASSUME History, HistoryBounded, [EditorNext]_editorVars
  PROVE  HistoryBounded'
<1>1. PICK S : undoStack \in Seq(S) /\ redoStack \in Seq(S) /\ config \in S
  BY DEF History
<1>2. Len(undoStack) \in Nat /\ Len(redoStack) \in Nat /\ MaxUndo \in Nat \ {0} /\ Len(<<>>) = 0
  BY <1>1, LenProperties, EmptySeq, UndoAssumption
<1>3. CASE PushUndo
  <2>1. Len(redoStack') = 0
    BY <1>2, <1>3 DEF PushUndo
  <2>2. CASE Len(undoStack) < MaxUndo
    <3>1. Len(undoStack') = Len(undoStack) + 1
      BY <1>1, <1>3, <2>2, AppendProperties DEF PushUndo
    <3> QED BY <1>2, <2>1, <2>2, <3>1 DEF HistoryBounded
  <2>3. CASE ~(Len(undoStack) < MaxUndo)
    <3>1. undoStack # <<>>
      BY <1>2, <2>3
    <3>2. Tail(undoStack) \in Seq(S) /\ Len(Tail(undoStack)) = Len(undoStack) - 1
      BY <1>1, <3>1, HeadTailProperties
    <3>3. Len(undoStack') = Len(undoStack) - 1 + 1
      BY <1>1, <1>3, <2>3, <3>2, AppendProperties DEF PushUndo
    <3> QED BY <1>2, <2>1, <3>3 DEF HistoryBounded
  <2> QED BY <2>2, <2>3
<1>4. CASE Undo
  <2>1. Len(undoStack') = Len(undoStack) - 1 /\ Len(redoStack') = Len(redoStack) + 1
    <3>1. PICK t \in Seq(S), d \in S : undoStack = Append(t, d) /\ Front(undoStack) = t
      BY <1>1, <1>4, FrontFacts DEF Undo
    <3>2. Len(undoStack) = Len(t) + 1 /\ Len(t) \in Nat
      BY <3>1, AppendProperties, LenProperties
    <3> QED BY <1>1, <1>4, <3>1, <3>2, AppendProperties DEF Undo
  <2> QED BY <1>2, <2>1 DEF HistoryBounded
<1>5. CASE Redo
  <2>1. Len(redoStack') = Len(redoStack) - 1 /\ Len(undoStack') = Len(undoStack) + 1
    <3>1. PICK t \in Seq(S), d \in S : redoStack = Append(t, d) /\ Front(redoStack) = t
      BY <1>1, <1>5, FrontFacts DEF Redo
    <3>2. Len(redoStack) = Len(t) + 1 /\ Len(t) \in Nat
      BY <3>1, AppendProperties, LenProperties
    <3> QED BY <1>1, <1>5, <3>1, <3>2, AppendProperties DEF Redo
  <2> QED BY <1>2, <2>1 DEF HistoryBounded
<1>6. CASE SetConfig
  BY <1>2, <1>6 DEF SetConfig, HistoryBounded
<1>7. CASE UNCHANGED <<undoStack, redoStack>>
  BY <1>7 DEF HistoryBounded
<1> QED BY <1>3, <1>4, <1>5, <1>6, <1>7 DEF EditorNext, editorVars, ReworkBlocks, MutateBlocks,
           AddPage, RemovePage, SetActivePage, SetLook, PreviewTheme

(* For every MAX_UNDO, what can be undone and what can be redone is never  *)
(* more than MAX_UNDO documents together.                                  *)
THEOREM HistoryBoundedAlways == EditorSpec => []HistoryBounded
<1>1. EditorInit => HistoryBounded
  BY EmptySeq, UndoAssumption DEF EditorInit, HistoryBounded
<1>2. History /\ HistoryBounded /\ [EditorNext]_editorVars => HistoryBounded'
  BY StepBounded
<1> QED BY <1>1, <1>2, HistoryInvariant, PTL DEF EditorSpec

Joined(u, c, r) == u \o <<c>> \o Reverse(r)

\* Taking the last entry back, and the other way round.
LEMMA Shift ==
  ASSUME NEW S, NEW u \in Seq(S), NEW d \in S, NEW r \in Seq(S), NEW c \in S
  PROVE  Joined(u, d, Append(r, c)) = Joined(Append(u, d), c, r)
<1>1. Reverse(r) \in Seq(S) /\ <<c>> \in Seq(S) /\ Append(u, d) \in Seq(S)
  BY ReverseFacts, AppendProperties
<1>2. Append(u, d) = u \o <<d>>
  BY AppendIsConcat
<1>3. (Append(u, d) \o <<c>>) \o Reverse(r) = Append(u, d) \o (<<c>> \o Reverse(r))
  BY <1>1, ConcatAssociative
<1> QED BY <1>2, <1>3, ReverseAppend DEF Joined

LEMMA StepTimeline == ASSUME History, Undo \/ Redo PROVE Timeline' = Timeline
<1>0. /\ Timeline = Joined(undoStack, config, redoStack)
      /\ Timeline' = Joined(undoStack', config', redoStack')
  BY DEF Timeline, Joined, Reverse
<1>1. PICK S : undoStack \in Seq(S) /\ redoStack \in Seq(S) /\ config \in S
  BY DEF History
<1>2. CASE Undo
  <2>1. PICK u \in Seq(S), d \in S :
          undoStack = Append(u, d) /\ Front(undoStack) = u /\ Last(undoStack) = d
    BY <1>1, <1>2, FrontFacts DEF Undo
  <2>2. undoStack' = u /\ config' = d /\ redoStack' = Append(redoStack, config)
    BY <1>2, <2>1 DEF Undo
  <2>3. Joined(u, d, Append(redoStack, config)) = Joined(Append(u, d), config, redoStack)
    BY <1>1, Shift
  <2> QED BY <1>0, <2>1, <2>2, <2>3
<1>3. CASE Redo
  <2>1. PICK r \in Seq(S), c \in S :
          redoStack = Append(r, c) /\ Front(redoStack) = r /\ Last(redoStack) = c
    BY <1>1, <1>3, FrontFacts DEF Redo
  <2>2. redoStack' = r /\ config' = c /\ undoStack' = Append(undoStack, config)
    BY <1>3, <2>1 DEF Redo
  <2>3. Joined(undoStack, config, Append(r, c)) = Joined(Append(undoStack, config), c, r)
    BY <1>1, Shift
  <2> QED BY <1>0, <2>1, <2>2, <2>3
<1> QED BY <1>2, <1>3

(* Undo and redo lose no document and put none in another place.           *)
THEOREM TimelineAlways == EditorSpec => TimelineKept
<1>1. History /\ [EditorNext]_editorVars => [Undo \/ Redo => Timeline' = Timeline]_editorVars
  BY StepTimeline
<1> QED BY <1>1, HistoryInvariant, PTL DEF EditorSpec, TimelineKept

-----------------------------------------------------------------------------
(* EditorHistory: documents.                                               *)

\* The pages of a document have ids of their own.
Apart(c) == \A i, j \in DOMAIN c.pages : c.pages[i].id = c.pages[j].id => i = j

Document == {c \in Config : Apart(c)}

EditorInv ==
  /\ config \in Document
  /\ activePageId \in PageIds
  /\ undoStack \in Seq(Document) /\ redoStack \in Seq(Document)

LEMMA PagesAre ==
  ASSUME NEW c \in Config
  PROVE  /\ c.pages \in Seq(Page) /\ Len(c.pages) \in Nat \ {0}
         /\ DOMAIN c.pages = 1..Len(c.pages) /\ 1 \in DOMAIN c.pages
         /\ \A i \in DOMAIN c.pages : c.pages[i] \in Page /\ c.pages[i].id \in PageIds
<1>1. c.pages \in Seq(Page) /\ c.pages # <<>>
  BY DEF Config
<1>2. Len(c.pages) \in Nat \ {0} /\ DOMAIN c.pages = 1..Len(c.pages)
  BY <1>1, LenProperties, EmptySeq
<1>3. \A i \in DOMAIN c.pages : c.pages[i] \in Page
  BY <1>1, <1>2, ElementOfSeq
<1> QED BY <1>1, <1>2, <1>3 DEF Page

\* New blocks on a page leave the ids of all pages alone.
LEMMA OnActiveFacts ==
  ASSUME config \in Config, NEW b \in SUBSET Blocks
  PROVE  /\ OnActive(b) \in Seq(Page) \ {<<>>}
         /\ DOMAIN OnActive(b) = DOMAIN config.pages
         /\ \A i \in DOMAIN config.pages : OnActive(b)[i].id = config.pages[i].id
<1> DEFINE n == Len(config.pages)
<1>1. /\ n \in Nat \ {0} /\ DOMAIN config.pages = 1..n
      /\ \A i \in 1..n : config.pages[i] \in Page
  BY PagesAre
<1>2. ASSUME NEW i \in 1..n
      PROVE  OnActive(b)[i] \in Page /\ OnActive(b)[i].id = config.pages[i].id
  BY <1>1 DEF OnActive, Page
<1>3. DOMAIN OnActive(b) = 1..n /\ OnActive(b) \in [1..n -> Page]
  BY <1>1, <1>2 DEF OnActive
<1>4. OnActive(b) \in Seq(Page) /\ Len(OnActive(b)) = n
  BY <1>1, <1>3, FunSeq
<1>5. OnActive(b) # <<>>
  BY <1>1, <1>4, EmptySeq
<1> QED BY <1>1, <1>2, <1>3, <1>4, <1>5

LEMMA AppendFacts ==
  ASSUME config \in Config, NEW id \in PageIds
  PROVE  LET q == Append(config.pages, [id |-> id, blocks |-> {}]) IN
         /\ q \in Seq(Page) \ {<<>>}
         /\ DOMAIN q = 1..(Len(config.pages) + 1)
         /\ \A i \in DOMAIN config.pages : q[i] = config.pages[i]
         /\ q[Len(config.pages) + 1].id = id
<1> DEFINE new == [id |-> id, blocks |-> {}]
           q == Append(config.pages, new)
<1>1. new \in Page /\ new.id = id
  BY DEF Page
<1>2. /\ config.pages \in Seq(Page) /\ Len(config.pages) \in Nat
      /\ DOMAIN config.pages = 1..Len(config.pages)
  BY PagesAre
<1> HIDE DEF new
<1>3. /\ q \in Seq(Page) /\ q # <<>> /\ Len(q) = Len(config.pages) + 1
      /\ \A i \in 1..Len(config.pages) : q[i] = config.pages[i]
      /\ q[Len(config.pages) + 1] = new
  BY <1>1, <1>2, AppendProperties
<1>4. DOMAIN q = 1..(Len(config.pages) + 1)
  BY <1>3, LenProperties
<1> HIDE DEF q
<1>5. /\ q \in Seq(Page) \ {<<>>} /\ DOMAIN q = 1..(Len(config.pages) + 1)
      /\ \A i \in DOMAIN config.pages : q[i] = config.pages[i]
      /\ q[Len(config.pages) + 1].id = id
  BY <1>1, <1>2, <1>3, <1>4
<1> QED BY <1>5 DEF q, new

\* What is left without a page are the others in their order: what a filter by id leaves.
LEMMA WithoutFacts ==
  ASSUME config \in Document, NEW id \in Ids(config), Len(config.pages) > 1
  PROVE  /\ Without(id) \in Seq(Page) \ {<<>>}
         /\ DOMAIN Without(id) = 1..(Len(config.pages) - 1)
         /\ \E i \in DOMAIN config.pages :
              /\ config.pages[i].id = id
              /\ \A j \in DOMAIN Without(id) :
                   /\ Former(i, j) \in DOMAIN config.pages \ {i}
                   /\ Without(id)[j] = config.pages[Former(i, j)]
<1> DEFINE place == CHOOSE k \in DOMAIN config.pages : config.pages[k].id = id
<1>1. /\ config \in Config /\ config.pages \in Seq(Page) /\ Len(config.pages) \in Nat \ {0}
      /\ DOMAIN config.pages = 1..Len(config.pages)
  BY PagesAre DEF Document
<1>2. place \in 1..Len(config.pages) /\ config.pages[place].id = id
  BY <1>1 DEF Ids
<1> HIDE DEF place
<1>0. PICK i \in 1..Len(config.pages) : i = place
  BY <1>2
<1> DEFINE rest == RemoveAt(config.pages, i)
<1>3. /\ rest \in Seq(Page) /\ Len(rest) = Len(config.pages) - 1
      /\ \A j \in 1..(Len(config.pages) - 1) :
           Former(i, j) \in 1..Len(config.pages) \ {i} /\ rest[j] = config.pages[Former(i, j)]
  <2>1. rest \in Seq(Page) /\ Len(rest) = Len(config.pages) - 1
    BY <1>1, RemoveAtFacts
  <2>2. ASSUME NEW j \in 1..(Len(config.pages) - 1)
        PROVE  Former(i, j) \in 1..Len(config.pages) \ {i} /\ rest[j] = config.pages[Former(i, j)]
    BY <1>1, RemoveAtEntry
  <2> QED BY <2>1, <2>2
<1> HIDE DEF rest
<1>4. rest # <<>> /\ DOMAIN rest = 1..(Len(config.pages) - 1)
  BY <1>1, <1>3, EmptySeq, LenProperties
<1>5. Without(id) = rest
  BY <1>0 DEF Without, rest, place
<1> QED BY <1>0, <1>1, <1>2, <1>3, <1>4, <1>5

\* Precisely the page with the id is gone.
LEMMA WithoutIds ==
  ASSUME config \in Document, NEW id \in Ids(config), Len(config.pages) > 1
  PROVE  /\ {Without(id)[j].id : j \in DOMAIN Without(id)} = Ids(config) \ {id}
         /\ \A j, k \in DOMAIN Without(id) : Without(id)[j].id = Without(id)[k].id => j = k
<1> DEFINE n == Len(config.pages)
<1>1. n \in Nat \ {0} /\ DOMAIN config.pages = 1..n /\ Apart(config)
  BY PagesAre DEF Document
<1>2. PICK i \in 1..n :
        /\ config.pages[i].id = id
        /\ \A j \in DOMAIN Without(id) :
             Former(i, j) \in 1..n \ {i} /\ Without(id)[j] = config.pages[Former(i, j)]
  BY <1>1, WithoutFacts
<1>3. DOMAIN Without(id) = 1..(n - 1)
  BY WithoutFacts
<1>4. \A j, k \in 1..(n - 1) : Former(i, j) = Former(i, k) => j = k
  BY <1>1 DEF Former
<1>5. ASSUME NEW k \in 1..n, k # i PROVE \E j \in 1..(n - 1) : Former(i, j) = k
  <2> DEFINE j == IF k < i THEN k ELSE k - 1
  <2>1. j \in 1..(n - 1) /\ Former(i, j) = k
    BY <1>1, <1>5 DEF Former
  <2> QED BY <2>1
<1> HIDE DEF n
<1>6. ASSUME NEW j \in 1..(n - 1) PROVE Without(id)[j].id \in Ids(config) \ {id}
  <2>1. Former(i, j) \in 1..n /\ Former(i, j) # i /\ Without(id)[j] = config.pages[Former(i, j)]
    BY <1>2, <1>3
  <2>2. config.pages[Former(i, j)].id # config.pages[i].id
    BY <1>1, <2>1 DEF Apart
  <2> QED BY <1>1, <1>2, <2>1, <2>2 DEF Ids
<1>7. ASSUME NEW other \in Ids(config) \ {id}
      PROVE  \E j \in 1..(n - 1) : Without(id)[j].id = other
  <2>1. PICK k \in 1..n : config.pages[k].id = other
    BY <1>1 DEF Ids
  <2>2. k # i
    BY <1>2, <2>1
  <2>3. PICK j \in 1..(n - 1) : Former(i, j) = k
    BY <1>5, <2>2
  <2> QED BY <1>2, <1>3, <2>1, <2>3
<1>8. ASSUME NEW j \in 1..(n - 1), NEW k \in 1..(n - 1), Without(id)[j].id = Without(id)[k].id
      PROVE  j = k
  <2>1. /\ Former(i, j) \in 1..n /\ Former(i, k) \in 1..n
        /\ config.pages[Former(i, j)].id = config.pages[Former(i, k)].id
    BY <1>2, <1>3, <1>8
  <2>2. Former(i, j) = Former(i, k)
    BY <1>1, <2>1 DEF Apart
  <2> QED BY <1>4, <2>2
<1> QED BY <1>3, <1>6, <1>7, <1>8

\* What is pushed is the document, whatever it is replaced by.
LEMMA PushInv ==
  ASSUME EditorInv, PushUndo
  PROVE  undoStack' \in Seq(Document) /\ redoStack' \in Seq(Document)
<1>1. /\ config \in Document /\ undoStack \in Seq(Document) /\ Len(undoStack) \in Nat
      /\ MaxUndo \in Nat \ {0}
  BY LenProperties, UndoAssumption DEF EditorInv
<1>2. CASE Len(undoStack) < MaxUndo
  BY <1>1, <1>2, AppendProperties, EmptySeq DEF PushUndo
<1>3. CASE ~(Len(undoStack) < MaxUndo)
  <2>1. undoStack # <<>>
    BY <1>1, <1>3, EmptySeq
  <2>2. Tail(undoStack) \in Seq(Document)
    BY <1>1, <2>1, HeadTailProperties
  <2> QED BY <1>1, <1>3, <2>2, AppendProperties, EmptySeq DEF PushUndo
<1> QED BY <1>2, <1>3

LEMMA NewSiteInv == NewSite \in Document /\ NewSite.pages[1].id = Home
<1> DEFINE new == [id |-> Home, blocks |-> {}]
<1>1. new \in Page /\ new.id = Home
  BY HomeAssumption DEF Page
<1> HIDE DEF new
<1>2. <<new>> \in Seq(Page) \ {<<>>} /\ DOMAIN <<new>> = {1} /\ <<new>>[1] = new
  BY <1>1
<1>3. NewSite = [pages |-> <<new>>, blocks |-> {}, look |-> CHOOSE l \in Looks : TRUE]
  BY DEF NewSite, new
<1>4. NewSite \in Config /\ NewSite.pages = <<new>>
  BY <1>2, <1>3, LookAssumption DEF Config
<1> QED BY <1>1, <1>2, <1>4 DEF Document, Apart

\* A step on the document: what it becomes, and that the page edited is there if it was.
Keeps == activePageId \in Ids(config) => activePageId' \in Ids(config')

\* The pages of the next document are those of this one, with other blocks perhaps.
LEMMA SamePages ==
  ASSUME config \in Document, config' \in Config, DOMAIN config'.pages = DOMAIN config.pages,
         \A i \in DOMAIN config.pages : config'.pages[i].id = config.pages[i].id
  PROVE  config' \in Document /\ Ids(config') = Ids(config)
BY DEF Document, Apart, Ids

LEMMA BlocksInv ==
  ASSUME EditorInv, ReworkBlocks \/ MutateBlocks
  PROVE  EditorInv' /\ Keeps
<1>1. config \in Document /\ config \in Config /\ activePageId' = activePageId
  BY DEF EditorInv, Document, ReworkBlocks, MutateBlocks
<1>2. PICK b \in SUBSET Blocks, c \in SUBSET Blocks :
        \/ config' = [config EXCEPT !.pages = OnActive(b), !.blocks = c]
        \/ config' = config
  BY DEF ReworkBlocks, MutateBlocks
<1>3. config' \in Document /\ Ids(config') = Ids(config)
  <2>1. CASE config' = [config EXCEPT !.pages = OnActive(b), !.blocks = c]
    <3> DEFINE q == OnActive(b)
    <3>0. config' = [config EXCEPT !.pages = q, !.blocks = c]
      BY <2>1
    <3>1. /\ q \in Seq(Page) \ {<<>>} /\ DOMAIN q = DOMAIN config.pages
          /\ \A i \in DOMAIN config.pages : q[i].id = config.pages[i].id
      BY <1>1, OnActiveFacts
    <3> HIDE DEF q
    <3>2. config' \in Config /\ config'.pages = q
      BY <1>1, <3>0, <3>1 DEF Config
    <3> QED BY <1>1, <3>1, <3>2, SamePages
  <2>2. CASE config' = config
    BY <1>1, <2>2
  <2> QED BY <1>2, <2>1, <2>2
<1> QED BY <1>1, <1>3, PushInv DEF EditorInv, Keeps, ReworkBlocks, MutateBlocks

LEMMA AddPageInv ==
  ASSUME EditorInv, NEW id \in PageIds, AddPage(id)
  PROVE  EditorInv' /\ Keeps
<1> DEFINE q == Append(config.pages, [id |-> id, blocks |-> {}])
           n == Len(config.pages)
<1>1. /\ config \in Config /\ Apart(config) /\ n \in Nat \ {0} /\ DOMAIN config.pages = 1..n
  BY PagesAre DEF EditorInv, Document
<1>2. /\ q \in Seq(Page) \ {<<>>} /\ DOMAIN q = 1..(n + 1)
      /\ \A i \in 1..n : q[i] = config.pages[i]
      /\ q[n + 1].id = id
  BY <1>1, AppendFacts
<1>3. config' = [config EXCEPT !.pages = q] /\ activePageId' = id /\ id \notin Ids(config)
  BY DEF AddPage, UsedIds
<1> HIDE DEF q, n
<1>4. config' \in Config /\ config'.pages = q
  BY <1>1, <1>2, <1>3 DEF Config
<1>5. \A i \in 1..n : config.pages[i].id # id
  BY <1>1, <1>3 DEF Ids
<1>6. Apart(config')
  <2> SUFFICES ASSUME NEW i \in 1..(n + 1), NEW j \in 1..(n + 1), q[i].id = q[j].id
               PROVE  i = j
    BY <1>2, <1>4 DEF Apart
  <2> QED BY <1>1, <1>2, <1>5 DEF Apart
<1>7. activePageId' \in Ids(config')
  BY <1>1, <1>2, <1>3, <1>4 DEF Ids
<1> QED BY <1>3, <1>4, <1>6, <1>7, PushInv DEF EditorInv, Document, Keeps, AddPage

LEMMA RemovePageInv ==
  ASSUME EditorInv, NEW id \in PageIds, RemovePage(id)
  PROVE  EditorInv' /\ Keeps
<1> DEFINE q == Without(id)
<1>1. config \in Document /\ config \in Config /\ activePageId \in PageIds
  BY DEF EditorInv, Document
<1>2. id \in Ids(config) /\ Len(config.pages) > 1
  BY DEF RemovePage
<1>3. /\ q \in Seq(Page) \ {<<>>} /\ 1 \in DOMAIN q
      /\ {q[j].id : j \in DOMAIN q} = Ids(config) \ {id}
      /\ \A j, k \in DOMAIN q : q[j].id = q[k].id => j = k
  <2>1. DOMAIN q = 1..(Len(config.pages) - 1) /\ q \in Seq(Page) \ {<<>>}
    BY <1>1, <1>2, WithoutFacts
  <2>2. 1 \in 1..(Len(config.pages) - 1)
    BY <1>1, <1>2, PagesAre
  <2> QED BY <1>1, <1>2, <2>1, <2>2, WithoutIds
<1>4. /\ config' = [config EXCEPT !.pages = q, !.blocks = q[1].blocks]
      /\ activePageId' = IF activePageId = id THEN q[1].id ELSE activePageId
  BY DEF RemovePage
<1> HIDE DEF q
<1>5. q[1] \in Page /\ q[1].blocks \in SUBSET Blocks /\ q[1].id \in PageIds
  <2>1. q \in Seq(Page) /\ 1 \in 1..Len(q)
    BY <1>3, LenProperties
  <2>2. q[1] \in Page
    BY <2>1, ElementOfSeq
  <2> QED BY <2>2 DEF Page
<1>6. config' \in Config /\ config'.pages = q
  BY <1>1, <1>3, <1>4, <1>5 DEF Config
<1>7. Apart(config') /\ Ids(config') = Ids(config) \ {id}
  <2>1. Ids(config') = {q[j].id : j \in DOMAIN q}
    BY <1>6 DEF Ids
  <2>2. Apart(config')
    BY <1>3, <1>6 DEF Apart
  <2> QED BY <1>3, <2>1, <2>2
<1>8. Keeps /\ activePageId' \in PageIds
  BY <1>1, <1>3, <1>4, <1>5, <1>6, <1>7 DEF Keeps, Ids
<1> QED BY <1>6, <1>7, <1>8, PushInv DEF EditorInv, Document, RemovePage

LEMMA LookInv ==
  ASSUME EditorInv, NEW l \in Looks, SetLook(l) \/ PreviewTheme(l)
  PROVE  EditorInv' /\ Keeps
<1>1. config \in Document /\ config \in Config /\ config' = [config EXCEPT !.look = l]
  BY DEF EditorInv, Document, SetLook, PreviewTheme
<1>2. config' \in Config /\ config'.pages = config.pages
  BY <1>1 DEF Config
<1>3. config' \in Document /\ Ids(config') = Ids(config)
  BY <1>1, <1>2, SamePages
<1> QED BY <1>3, PushInv DEF EditorInv, Keeps, SetLook, PreviewTheme

\* Undo and redo put back what is on the stacks; the page edited may be another document's.
LEMMA MoveInv == ASSUME EditorInv, Undo \/ Redo PROVE EditorInv'
<1>1. /\ config \in Document /\ activePageId \in PageIds
      /\ undoStack \in Seq(Document) /\ redoStack \in Seq(Document)
  BY DEF EditorInv
<1>2. CASE Undo
  BY <1>1, <1>2, FrontFacts, AppendProperties DEF Undo, EditorInv
<1>3. CASE Redo
  BY <1>1, <1>3, FrontFacts, AppendProperties DEF Redo, EditorInv
<1> QED BY <1>2, <1>3

LEMMA SetConfigInv == ASSUME EditorInv, SetConfig PROVE EditorInv' /\ Keeps
<1>1. config' \in Document /\ activePageId' = config'.pages[1].id
  BY NewSiteInv DEF EditorInv, SetConfig
<1>2. config' \in Config
  BY <1>1 DEF Document
<1>3. 1 \in DOMAIN config'.pages /\ config'.pages[1].id \in PageIds
  BY <1>2, PagesAre
<1>4. activePageId' \in PageIds /\ activePageId' \in Ids(config')
  BY <1>1, <1>3 DEF Ids
<1> QED BY <1>1, <1>4, EmptySeq DEF EditorInv, SetConfig, Keeps

LEMMA EditorStepInv ==
  ASSUME EditorInv, [EditorNext]_editorVars
  PROVE  EditorInv' /\ (Keeps \/ Undo \/ Redo)
<1>1. ASSUME NEW id \in PageIds, SetActivePage(id) PROVE EditorInv' /\ Keeps
  BY <1>1 DEF SetActivePage, EditorInv, Keeps
<1>2. CASE UNCHANGED editorVars
  BY <1>2 DEF editorVars, EditorInv, Keeps
<1> QED BY <1>1, <1>2, BlocksInv, AddPageInv, RemovePageInv, LookInv, MoveInv, SetConfigInv
        DEF EditorNext

LEMMA EditorInitInv == EditorInit => EditorInv
BY NewSiteInv, HomeAssumption, EmptySeq DEF EditorInit, EditorInv

LEMMA EditorInvariant == EditorSpec => []EditorInv
BY EditorInitInv, EditorStepInv, PTL DEF EditorSpec

LEMMA EditorInvTypes == EditorInv => EditorTypeOK
<1> SUFFICES ASSUME EditorInv PROVE EditorTypeOK
  OBVIOUS
<1>1. Document \subseteq Config
  BY DEF Document
<1>2. undoStack \in Seq(Config) /\ redoStack \in Seq(Config)
  BY <1>1, SeqMonotonic DEF EditorInv
<1> QED BY <1>1, <1>2 DEF EditorInv, EditorTypeOK

(* The document, the page edited and the entries of the stacks keep their  *)
(* types; above all, no document is ever without a page.                   *)
THEOREM EditorTypeCorrect == EditorSpec => []EditorTypeOK
BY EditorInvariant, EditorInvTypes, PTL

(* For every number of pages and every MAX_UNDO: an edit that is not taken *)
(* back or brought again never leaves the editor on a page that is gone.   *)
THEOREM OnlyHistoryStrandsAlways == EditorSpec => OnlyHistoryStrands
<1>1. EditorInv /\ [EditorNext]_editorVars
        => [(activePageId \in Ids(config) => activePageId' \in Ids(config')) \/ Undo \/ Redo]_editorVars
  BY EditorStepInv DEF Keeps
<1> QED BY <1>1, EditorInvariant, PTL DEF EditorSpec, OnlyHistoryStrands

-----------------------------------------------------------------------------
(* EditorHistory implements EditTimeline: the line of documents is both    *)
(* stacks with the document between them, the cursor is at the document.   *)

LEMMA LineForm ==
  ASSUME NEW S, NEW u \in Seq(S), NEW c \in S, NEW r
  PROVE  Joined(u, c, r) = Append(u, c) \o Reverse(r)
BY AppendIsConcat DEF Joined

LEMMA LineFacts ==
  ASSUME NEW S, NEW u \in Seq(S), NEW c \in S, NEW r \in Seq(S)
  PROVE  /\ Joined(u, c, r) \in Seq(S)
         /\ Len(Joined(u, c, r)) = Len(u) + 1 + Len(r)
         /\ Joined(u, c, r)[Len(u) + 1] = c
<1> DEFINE a == Append(u, c)  b == Reverse(r)
<1>1. b \in Seq(S) /\ Len(b) = Len(r) /\ Len(r) \in Nat /\ Len(u) \in Nat
  BY ReverseFacts, LenProperties
<1>2. a \in Seq(S) /\ Len(a) = Len(u) + 1 /\ a[Len(u) + 1] = c
  BY AppendProperties
<1>3. Joined(u, c, r) = a \o b
  BY LineForm
<1> HIDE DEF a, b
<1>4. a \o b \in Seq(S) /\ Len(a \o b) = Len(a) + Len(b)
  BY <1>1, <1>2, ConcatProperties
<1>5. (a \o b)[Len(u) + 1] = c
  <2>1. Len(u) + 1 \in 1..(Len(a) + Len(b)) /\ Len(u) + 1 <= Len(a)
    BY <1>1, <1>2
  <2>2. (a \o b)[Len(u) + 1] = a[Len(u) + 1]
    BY <1>1, <1>2, <2>1, ConcatProperties
  <2> QED BY <1>2, <2>2
<1>6. Joined(u, c, r) = a \o b /\ Len(a \o b) = Len(u) + 1 + Len(r)
  BY <1>1, <1>2, <1>3, <1>4
<1> QED BY <1>4, <1>5, <1>6 DEF a, b

\* Nothing lies ahead.
LEMMA LineEnds ==
  ASSUME NEW S, NEW u \in Seq(S), NEW c \in S
  PROVE  Joined(u, c, <<>>) = Append(u, c)
<1>1. <<>> \in Seq(S) /\ Len(<<>>) = 0
  BY EmptySeq
<1>2. Reverse(<<>>) \in Seq(S) /\ Len(Reverse(<<>>)) = 0
  BY <1>1, ReverseFacts
<1>3. Reverse(<<>>) = <<>>
  BY <1>2, EmptySeq
<1>4. Append(u, c) \in Seq(S)
  BY AppendProperties
<1>5. Joined(u, c, <<>>) = Append(u, c) \o <<>>
  BY <1>3, LineForm
<1> QED BY <1>4, <1>5, ConcatEmptySeq

\* What is behind the cursor, with what is shown.
LEMMA LineBehind ==
  ASSUME NEW S, NEW u \in Seq(S), NEW c \in S, NEW r \in Seq(S)
  PROVE  /\ SubSeq(Joined(u, c, r), 1, Len(u) + 1) = Append(u, c)
         /\ u # <<>> => SubSeq(Joined(u, c, r), 2, Len(u) + 1) = Append(Tail(u), c)
<1> DEFINE t == Joined(u, c, r)  a == Append(u, c)
<1>1. /\ t \in Seq(S) /\ t = a \o Reverse(r) /\ Reverse(r) \in Seq(S)
      /\ a \in Seq(S) /\ Len(a) = Len(u) + 1 /\ Len(u) \in Nat
  <2>1. t \in Seq(S) /\ Reverse(r) \in Seq(S)
    BY LineFacts, ReverseFacts
  <2>2. a \in Seq(S) /\ Len(a) = Len(u) + 1 /\ Len(u) \in Nat
    BY AppendProperties, LenProperties
  <2>3. t = a \o Reverse(r)
    BY LineForm
  <2> QED BY <2>1, <2>2, <2>3
<1> HIDE DEF t, a
<1>2. SubSeq(t, 1, Len(u) + 1) = a
  <2>1. 1 \in 1..Len(a) /\ Len(a) \in 1..Len(a)
    BY <1>1
  <2>2. SubSeq(t, 1, Len(a)) = SubSeq(a, 1, Len(a))
    BY <1>1, <2>1, SubSeqOfConcat1
  <2> QED BY <1>1, <2>2, SubSeqFull
<1>3. ASSUME u # <<>> PROVE SubSeq(t, 2, Len(u) + 1) = Append(Tail(u), c)
  <2>1. 2 \in 1..Len(a) /\ Len(a) \in 1..Len(a) /\ a # <<>>
    BY <1>1, <1>3, EmptySeq
  <2>2. SubSeq(t, 2, Len(a)) = SubSeq(a, 2, Len(a))
    BY <1>1, <2>1, SubSeqOfConcat1
  <2>3. SubSeq(a, 2, Len(a)) = Tail(a)
    BY <1>1, <2>1, TailIsSubSeq
  <2>4. Tail(a) = Append(Tail(u), c)
    <3>1. /\ Tail(u) \in Seq(S) /\ Len(Tail(u)) = Len(u) - 1
          /\ \A i \in 1..(Len(u) - 1) : Tail(u)[i] = u[i + 1]
      BY <1>1, <1>3, HeadTailProperties
    <3>2. /\ Tail(a) \in Seq(S) /\ Len(Tail(a)) = Len(a) - 1
          /\ \A i \in 1..(Len(a) - 1) : Tail(a)[i] = a[i + 1]
      BY <1>1, <2>1, HeadTailProperties
    <3>3. /\ Append(Tail(u), c) \in Seq(S) /\ Len(Append(Tail(u), c)) = Len(u) - 1 + 1
          /\ \A i \in 1..(Len(u) - 1) : Append(Tail(u), c)[i] = Tail(u)[i]
          /\ Append(Tail(u), c)[Len(u) - 1 + 1] = c
      BY <3>1, AppendProperties
    <3>4. /\ \A i \in 1..Len(u) : a[i] = u[i]
          /\ a[Len(u) + 1] = c
      BY AppendProperties DEF a
    <3>5. Len(Tail(a)) = Len(u) /\ Len(Append(Tail(u), c)) = Len(u)
      BY <1>1, <3>2, <3>3
    <3>6. ASSUME NEW i \in 1..Len(u) PROVE Tail(a)[i] = Append(Tail(u), c)[i]
      <4>1. CASE i = Len(u)
        <5>1. Tail(a)[i] = a[Len(u) + 1]
          BY <1>1, <3>2, <4>1
        <5>2. Append(Tail(u), c)[i] = c
          BY <1>1, <3>3, <4>1
        <5> QED BY <3>4, <5>1, <5>2
      <4>2. CASE i # Len(u)
        <5>1. i \in 1..(Len(u) - 1) /\ i \in 1..(Len(a) - 1) /\ i + 1 \in 1..Len(u)
          BY <1>1, <4>2
        <5> QED BY <3>1, <3>2, <3>3, <3>4, <5>1
      <4> QED BY <4>1, <4>2
    <3> QED BY <3>2, <3>3, <3>5, <3>6, SeqEqual
  <2> QED BY <1>1, <2>2, <2>3, <2>4
<1> QED BY <1>2, <1>3 DEF t, a

LEMMA TimelineIs ==
  /\ Timeline = Joined(undoStack, config, redoStack)
  /\ Timeline' = Joined(undoStack', config', redoStack')
BY DEF Timeline, Joined, Reverse

LEMMA PushIsEdit ==
  ASSUME EditorInv, EditorInv', PushUndo
  PROVE  Line!Edit
<1> DEFINE S == Document  n == Len(undoStack)
<1>1. /\ undoStack \in Seq(S) /\ redoStack \in Seq(S) /\ config \in S
      /\ undoStack' \in Seq(S) /\ config' \in S /\ n \in Nat /\ MaxUndo \in Nat \ {0}
  BY LenProperties, UndoAssumption DEF EditorInv
<1>2. undoStack' = SubSeq(Timeline, IF n + 1 > MaxUndo THEN 2 ELSE 1, n + 1)
  <2>1. CASE n < MaxUndo
    <3>1. undoStack' = Append(undoStack, config) /\ ~(n + 1 > MaxUndo)
      BY <1>1, <2>1 DEF PushUndo
    <3> QED BY <1>1, <3>1, LineBehind, TimelineIs
  <2>2. CASE ~(n < MaxUndo)
    <3>1. undoStack' = Append(Tail(undoStack), config) /\ n + 1 > MaxUndo /\ undoStack # <<>>
      BY <1>1, <2>2, EmptySeq DEF PushUndo
    <3> QED BY <1>1, <3>1, LineBehind, TimelineIs
  <2> QED BY <2>1, <2>2
<1>3. Timeline' = Append(undoStack', config')
  BY <1>1, LineEnds, TimelineIs DEF PushUndo
<1>4. /\ Len(Timeline') = Len(undoStack') + 1
      /\ Timeline'[Len(undoStack') + 1] = config'
  BY <1>1, <1>3, AppendProperties
<1> QED BY <1>2, <1>3, <1>4 DEF Line!Edit, Line!Shown

LEMMA PreviewIsAdjust ==
  ASSUME EditorInv, EditorInv', UNCHANGED <<undoStack, redoStack>>
  PROVE  Line!Adjust
<1> DEFINE S == Document  n == Len(undoStack) + 1
           t == Joined(undoStack, config, redoStack)  q == Joined(undoStack, config', redoStack)
<1>1. /\ undoStack \in Seq(S) /\ redoStack \in Seq(S) /\ config \in S /\ config' \in S
      /\ Len(undoStack) \in Nat /\ Len(redoStack) \in Nat
  BY LenProperties DEF EditorInv
<1>2. /\ Append(undoStack, config) \in Seq(S) /\ Append(undoStack, config') \in Seq(S)
      /\ Len(Append(undoStack, config)) = n /\ Len(Append(undoStack, config')) = n
      /\ \A i \in 1..Len(undoStack) : /\ Append(undoStack, config)[i] = undoStack[i]
                                      /\ Append(undoStack, config')[i] = undoStack[i]
      /\ Reverse(redoStack) \in Seq(S) /\ Len(Reverse(redoStack)) = Len(redoStack)
  BY <1>1, AppendProperties, ReverseFacts
<1>3. /\ t \in Seq(S) /\ t = Append(undoStack, config) \o Reverse(redoStack)
      /\ Len(t) = n + Len(redoStack)
      /\ q \in Seq(S) /\ q = Append(undoStack, config') \o Reverse(redoStack)
      /\ Len(q) = n + Len(redoStack) /\ q[n] = config'
  <2>1. /\ t \in Seq(S) /\ Len(t) = n + Len(redoStack)
        /\ q \in Seq(S) /\ Len(q) = n + Len(redoStack) /\ q[n] = config'
    <3> HIDE DEF S, n
    <3>1. ASSUME NEW c \in S
          PROVE  /\ Joined(undoStack, c, redoStack) \in Seq(S)
                 /\ Len(Joined(undoStack, c, redoStack)) = Len(undoStack) + 1 + Len(redoStack)
                 /\ Joined(undoStack, c, redoStack)[Len(undoStack) + 1] = c
      <4>1. undoStack \in Seq(S) /\ redoStack \in Seq(S) /\ c \in S
        BY <1>1
      <4> QED BY ONLY <4>1, LineFacts
    <3> QED BY <1>1, <3>1 DEF n
  <2>2. /\ t = Append(undoStack, config) \o Reverse(redoStack)
        /\ q = Append(undoStack, config') \o Reverse(redoStack)
    BY <1>1, LineForm
  <2> QED BY <2>1, <2>2
<1> HIDE DEF t, q
<1>4. ASSUME NEW i \in 1..Len(t), i # n PROVE q[i] = t[i]
  <2>1. CASE i < n
    <3>1. i \in 1..Len(undoStack) /\ i \in 1..(n + Len(redoStack)) /\ i <= n
      BY <1>1, <2>1
    <3>2. t[i] = Append(undoStack, config)[i] /\ q[i] = Append(undoStack, config')[i]
      BY <1>2, <1>3, <3>1, ConcatProperties
    <3> QED BY <1>2, <3>1, <3>2
  <2>2. CASE i > n
    <3>1. i \in 1..(n + Len(redoStack)) /\ ~(i <= n)
      BY <1>1, <1>3, <2>2
    <3>2. t[i] = Reverse(redoStack)[i - n] /\ q[i] = Reverse(redoStack)[i - n]
      BY <1>2, <1>3, <3>1, ConcatProperties
    <3> QED BY <3>2
  <2> QED BY <1>1, <1>3, <1>4, <2>1, <2>2
<1>5. q = [t EXCEPT ![n] = config']
  <2> DEFINE e == [t EXCEPT ![n] = config']
  <2>1. n \in 1..Len(t)
    BY <1>1, <1>3
  <2>2. e \in Seq(S) /\ Len(e) = Len(t) /\ \A i \in 1..Len(t) : e[i] = IF i = n THEN config' ELSE t[i]
    <3>1. DOMAIN t = 1..Len(t)
      BY <1>3, LenProperties
    <3>2. e \in Seq(S)
      BY <1>1, <1>3, <2>1, ExceptSeq
    <3>3. DOMAIN e = 1..Len(t) /\ \A i \in 1..Len(t) : e[i] = IF i = n THEN config' ELSE t[i]
      BY <2>1, <3>1
    <3>4. Len(e) = Len(t)
      BY <1>3, <3>2, <3>3, LenProperties
    <3> QED BY <3>2, <3>3, <3>4
  <2> HIDE DEF e
  <2>3. \A i \in 1..Len(q) : q[i] = e[i]
    BY <1>3, <1>4, <2>2
  <2>4. q = e
    BY <1>3, <2>2, <2>3, SeqEqual
  <2> QED BY <2>4 DEF e
<1>6. Timeline = t /\ Timeline' = q
  BY TimelineIs DEF t, q
<1>7. Timeline'[Len(undoStack') + 1] = config'
  BY <1>3, <1>6
<1> QED BY <1>5, <1>6, <1>7 DEF Line!Adjust, Line!Shown

LEMMA MoveIsMove ==
  ASSUME EditorInv, Undo \/ Redo
  PROVE  Line!Back \/ Line!Forward
<1>1. /\ undoStack \in Seq(Document) /\ redoStack \in Seq(Document) /\ config \in Document
      /\ Len(undoStack) \in Nat /\ Len(redoStack) \in Nat
  BY LenProperties DEF EditorInv
<1>2. Timeline' = Timeline /\ Len(Timeline) = Len(undoStack) + 1 + Len(redoStack)
  <2>1. History
    BY <1>1 DEF History
  <2>2. Timeline' = Timeline
    BY <2>1, StepTimeline
  <2>3. Len(Joined(undoStack, config, redoStack)) = Len(undoStack) + 1 + Len(redoStack)
    BY <1>1, LineFacts
  <2> QED BY <2>2, <2>3, TimelineIs
<1>3. CASE Undo
  <2>1. PICK t \in Seq(Document), d \in Document : undoStack = Append(t, d) /\ Front(undoStack) = t
    BY <1>1, <1>3, FrontFacts DEF Undo
  <2>2. undoStack' = t /\ Len(undoStack) = Len(t) + 1 /\ Len(t) \in Nat
    BY <1>3, <2>1, AppendProperties, LenProperties DEF Undo
  <2>3. Len(undoStack) + 1 > 1 /\ Len(undoStack') + 1 = Len(undoStack) + 1 - 1
    BY <2>2
  <2> QED BY <1>2, <2>3 DEF Line!Back
<1>4. CASE Redo
  <2>1. redoStack # <<>> /\ undoStack' = Append(undoStack, config)
    BY <1>4 DEF Redo
  <2>2. Len(undoStack') = Len(undoStack) + 1 /\ Len(redoStack) > 0
    BY <1>1, <2>1, AppendProperties, EmptySeq
  <2>3. /\ Len(undoStack) + 1 < Len(Timeline)
        /\ Len(undoStack') + 1 = Len(undoStack) + 1 + 1
    BY <1>1, <1>2, <2>2
  <2> QED BY <1>2, <2>3 DEF Line!Forward
<1> QED BY <1>3, <1>4

LEMMA SetConfigIsOpen ==
  ASSUME EditorInv', SetConfig
  PROVE  Line!Open
<1>1. /\ undoStack' = <<>> /\ redoStack' = <<>> /\ config' \in Document
      /\ <<>> \in Seq(Document) /\ Len(<<>>) = 0
  BY EmptySeq DEF EditorInv, SetConfig
<1>2. Append(<<>>, config') = <<config'>> /\ <<config'>>[1] = config'
  OBVIOUS
<1>3. Timeline' = <<config'>>
  BY <1>1, <1>2, LineEnds, TimelineIs
<1>4. Len(undoStack') + 1 = 1 /\ Timeline'[Len(undoStack') + 1] = config'
  BY <1>1, <1>2, <1>3
<1> QED BY <1>3, <1>4 DEF Line!Open, Line!Shown

LEMMA EditorStepsLine ==
  ASSUME EditorInv, EditorInv', [EditorNext]_editorVars
  PROVE  [Line!Next]_(Line!vars)
<1>1. CASE PushUndo
  BY <1>1, PushIsEdit DEF Line!Next
<1>2. CASE UNCHANGED <<undoStack, redoStack>>
  BY <1>2, PreviewIsAdjust DEF Line!Next
<1>3. CASE Undo \/ Redo
  BY <1>3, MoveIsMove DEF Line!Next
<1>4. CASE SetConfig
  BY <1>4, SetConfigIsOpen DEF Line!Next
<1> QED BY <1>1, <1>2, <1>3, <1>4 DEF EditorNext, editorVars, ReworkBlocks, MutateBlocks,
           AddPage, RemovePage, SetActivePage, SetLook, PreviewTheme

(* For every MAX_UNDO the store's two stacks behave as one line of         *)
(* documents with a cursor: an edit gives up what lay ahead and at most    *)
(* the oldest document, and going back and forth changes nothing.          *)
THEOREM TimelineImplemented == EditorSpec => KeepsTimeline
<1>1. EditorInit => Line!Init
  <2> SUFFICES ASSUME EditorInit PROVE Line!Init
    OBVIOUS
  <2>1. /\ undoStack = <<>> /\ redoStack = <<>> /\ <<>> \in Seq({config})
        /\ config \in {config} /\ Len(<<>>) = 0
    BY EmptySeq DEF EditorInit
  <2>2. Append(<<>>, config) = <<config>> /\ <<config>>[1] = config
    OBVIOUS
  <2>3. Timeline = <<config>>
    BY <2>1, <2>2, LineEnds, TimelineIs
  <2> QED BY <2>1, <2>2, <2>3 DEF Line!Init, Line!Shown
<1>2. EditorInv /\ EditorInv' /\ [EditorNext]_editorVars => [Line!Next]_(Line!vars)
  BY EditorStepsLine
<1> QED BY <1>1, <1>2, EditorInvariant, PTL DEF EditorSpec, KeepsTimeline, Line!Spec

-----------------------------------------------------------------------------
(* OrgDomains: rows.                                                       *)

LEMMA RowsAre ==
  ASSUME DomainTypeOK
  PROVE  /\ Len(requests) \in Nat /\ Rows = 1..Len(requests)
         /\ requests \in [Rows -> Request] /\ \A i \in Rows : requests[i] \in Request
BY LenProperties DEF DomainTypeOK, Rows

LEMMA LinkedIs ==
  ASSUME NEW r \in Request, NEW p \in Target
  PROVE  /\ Linked(r, p) \in Request
         /\ Linked(r, p).org = r.org /\ Linked(r, p).host = r.host
         /\ Linked(r, p).page = p /\ Linked(r, p).status = Assigned(p)
         /\ Assigned(p) \in Reviewed
BY DEF Request, Linked, Assigned, Claimed, Reviewed

LEMMA RefusedIs ==
  ASSUME NEW r \in Request
  PROVE  /\ Refused(r) \in Request
         /\ Refused(r).org = r.org /\ Refused(r).host = r.host
         /\ Refused(r).page = r.page /\ Refused(r).status = "rejected"
BY DEF Request, Refused, Claimed, Reviewed

LEMMA UnpagedIs ==
  ASSUME NEW r \in Request, NEW p \in Pages
  PROVE  /\ Unpaged(r, p) \in Request
         /\ Unpaged(r, p).org = r.org /\ Unpaged(r, p).host = r.host
         /\ Unpaged(r, p).page = (IF r.page = p THEN NoPage ELSE r.page)
         /\ Unpaged(r, p).status = r.status
BY DEF Request, Unpaged, Target

LEMMA UnpagedPrimaryIs ==
  ASSUME NEW r \in Primary, NEW p \in Pages
  PROVE  /\ Unpaged(r, p) \in Primary
         /\ Unpaged(r, p).host = r.host /\ Unpaged(r, p).status = r.status
         /\ Unpaged(r, p).page = (IF r.page = p THEN NoPage ELSE r.page)
BY DEF Primary, Unpaged, Target

\* A row that is appended.
LEMMA FileIs ==
  ASSUME DomainTypeOK, NEW o \in Orgs, NEW h \in Hosts, NEW p \in Target, File(o, h, p)
  PROVE  /\ requests' \in Seq(Request) /\ Len(requests') <= MaxRequests
         /\ Rows' = 1..(Len(requests) + 1)
         /\ \A i \in Rows : requests'[i] = requests[i]
         /\ requests'[Len(requests) + 1] =
              [org |-> o, host |-> h, page |-> p, status |-> "pending"]
<1> DEFINE new == [org |-> o, host |-> h, page |-> p, status |-> "pending"]
<1>1. new \in Request
  BY DEF Request, Claimed
<1>2. requests' = Append(requests, new)
  BY DEF File
<1> HIDE DEF new
<1>3. requests \in Seq(Request) /\ Rows = 1..Len(requests) /\ Len(requests) \in Nat
  BY RowsAre DEF DomainTypeOK
<1>4. /\ requests' \in Seq(Request) /\ Len(requests') = Len(requests) + 1
      /\ \A i \in 1..Len(requests) : requests'[i] = requests[i]
      /\ requests'[Len(requests) + 1] = new
  BY <1>1, <1>2, <1>3, AppendProperties
<1>5. Rows' = 1..Len(requests')
  BY <1>4, LenProperties DEF Rows
<1>6. Len(requests') <= MaxRequests
  BY <1>3, <1>4, RowAssumption DEF File
<1> QED BY <1>3, <1>4, <1>5, <1>6 DEF new

\* A row that is removed: the later ones move up.
LEMMA RemovalIs ==
  ASSUME DomainTypeOK, NEW i \in Rows, requests' = RemoveAt(requests, i)
  PROVE  /\ requests' \in Seq(Request) /\ Len(requests') = Len(requests) - 1
         /\ Rows' = 1..(Len(requests) - 1)
         /\ \A j \in Rows' : Former(i, j) \in Rows \ {i} /\ requests'[j] = requests[Former(i, j)]
<1>1. Rows = 1..Len(requests) /\ requests \in Seq(Request)
  BY RowsAre DEF DomainTypeOK
<1>2. /\ requests' \in Seq(Request) /\ Len(requests') = Len(requests) - 1
      /\ \A j \in 1..(Len(requests) - 1) :
           Former(i, j) \in 1..Len(requests) \ {i} /\ requests'[j] = requests[Former(i, j)]
  <2>1. requests' \in Seq(Request) /\ Len(requests') = Len(requests) - 1
    BY <1>1, RemoveAtFacts
  <2>2. ASSUME NEW j \in 1..(Len(requests) - 1)
        PROVE  Former(i, j) \in 1..Len(requests) \ {i} /\ requests'[j] = requests[Former(i, j)]
    BY <1>1, RemoveAtEntry
  <2> QED BY <2>1, <2>2
<1>3. Rows' = 1..(Len(requests) - 1)
  BY <1>2, LenProperties DEF Rows
<1> QED BY <1>1, <1>2, <1>3

-----------------------------------------------------------------------------
(* OrgDomains: types.                                                      *)

LEMMA PointIs ==
  ASSUME DomainTypeOK, NEW o \in Orgs, NEW h \in Hosts \cup {NoHost}, NEW p \in pages \cup {NoPage},
         NEW status \in Claimed \cup {"none", "rejected"}, Point(o, h, p, status)
  PROVE  /\ primary' \in [Orgs -> Primary]
         /\ \A q \in Orgs : primary'[q].page \in pages \cup {NoPage}
         /\ primary'[o].host = h /\ primary'[o].status = status
         /\ \A q \in Orgs \ {o} : primary'[q] = primary[q]
<1> DEFINE new == [host |-> h, page |-> p, status |-> status]
<1>1. new \in Primary /\ new.host = h /\ new.status = status /\ new.page = p
  BY DEF DomainTypeOK, Primary, Target
<1>2. primary' = [primary EXCEPT ![o] = new]
  BY DEF Point
<1> HIDE DEF new
<1> QED BY <1>1, <1>2 DEF DomainTypeOK

\* What the row has after its host is lost.
LEMMA FallBackIs ==
  ASSUME DomainTypeOK, NEW o \in Orgs, NEW rows \in SUBSET Rows, NEW status \in {"none", "rejected"},
         FallBack(o, rows, status)
  PROVE  /\ primary' \in [Orgs -> Primary]
         /\ \A q \in Orgs : primary'[q].page \in pages \cup {NoPage}
         /\ \A q \in Orgs \ {o} : primary'[q] = primary[q]
         /\ \/ /\ \A k \in rows : requests[k].org = o => requests[k].status \notin Reviewed
               /\ primary'[o].host = NoHost
            \/ \E k \in rows : /\ requests[k].org = o /\ requests[k].status \in Reviewed
                               /\ primary'[o].host = requests[k].host
                               /\ primary'[o].status = requests[k].status
<1> DEFINE others == {k \in rows : requests[k].org = o /\ requests[k].status \in Reviewed}
<1>1. CASE others = {} /\ Point(o, NoHost, NoPage, status)
  <2>1. /\ NoHost \in Hosts \cup {NoHost} /\ NoPage \in pages \cup {NoPage}
        /\ status \in Claimed \cup {"none", "rejected"}
    OBVIOUS
  <2> QED BY <1>1, <2>1, PointIs
<1>2. ASSUME NEW k \in others, Point(o, requests[k].host, requests[k].page, requests[k].status)
      PROVE  /\ primary' \in [Orgs -> Primary]
             /\ \A q \in Orgs : primary'[q].page \in pages \cup {NoPage}
             /\ \A q \in Orgs \ {o} : primary'[q] = primary[q]
             /\ primary'[o].host = requests[k].host /\ primary'[o].status = requests[k].status
  <2>1. requests[k] \in Request
    BY RowsAre
  <2>2. /\ requests[k].host \in Hosts \cup {NoHost} /\ requests[k].page \in pages \cup {NoPage}
        /\ requests[k].status \in Claimed \cup {"none", "rejected"}
    BY <2>1 DEF DomainTypeOK, Request
  <2> QED BY <1>2, <2>2, PointIs
<1>3. \/ others = {} /\ Point(o, NoHost, NoPage, status)
      \/ \E k \in others : Point(o, requests[k].host, requests[k].page, requests[k].status)
  BY DEF FallBack
<1> QED BY <1>1, <1>2, <1>3

-----------------------------------------------------------------------------
(* OrgDomains: the invariant.  No two requests that count have one host,   *)
(* and the host in an organisation's row is one of its own requests that   *)
(* count, at the same stage.                                               *)

OneClaim ==
  \A i \in Rows, j \in Rows :
    /\ requests[i].host = requests[j].host
    /\ requests[i].status \in Claimed /\ requests[j].status \in Claimed
    => i = j

\* Does request r stand for what the organisation's row a tells?
Stands(r, o, a) ==
  /\ r.org = o /\ r.host = a.host
  /\ r.status \in Claimed
  /\ r.status = "pending" <=> a.status = "pending"

Backed ==
  \A o \in Orgs : primary[o].host # NoHost => \E i \in Rows : Stands(requests[i], o, primary[o])

DomainInv == DomainTypeOK /\ OneClaim /\ Backed /\ KeepsAnAddress

LEMMA DomainInitInv == DomainInit => DomainInv
<1> SUFFICES ASSUME DomainInit PROVE DomainInv
  OBVIOUS
<1>1. requests \in Seq(Request) /\ Len(requests) = 0 /\ Rows = {}
  BY EmptySeq DEF DomainInit, Rows
<1>2. NoDomain \in Primary /\ NoDomain.host = NoHost /\ NoDomain.page = NoPage
  BY DEF NoDomain, Primary, Target
<1>3. primary \in [Orgs -> Primary] /\ \A o \in Orgs : primary[o] = NoDomain
  BY <1>2 DEF DomainInit
<1>4. DomainTypeOK
  BY <1>1, <1>2, <1>3, RowAssumption DEF DomainInit, DomainTypeOK
<1> QED BY <1>1, <1>2, <1>3, <1>4 DEF DomainInv, OneClaim, Backed, KeepsAnAddress

\* A row of one's own for a host that is free.
LEMMA FileKeeps ==
  ASSUME DomainInv, NEW o \in Orgs, NEW h \in Hosts, NEW p \in pages \cup {NoPage},
         Available(h), File(o, h, p), UNCHANGED pages,
         registered' \subseteq Orgs,
         \/ Point(o, h, p, "pending")
         \/ UNCHANGED primary
  PROVE  DomainInv'
<1> DEFINE n == Len(requests)
<1>1. DomainTypeOK /\ OneClaim /\ Backed /\ KeepsAnAddress
  BY DEF DomainInv
<1>2. n \in Nat /\ Rows = 1..n /\ \A i \in Rows : requests[i] \in Request
  BY <1>1, RowsAre
<1>3. p \in Target
  BY <1>1 DEF DomainTypeOK, Target
<1>4. /\ requests' \in Seq(Request) /\ Len(requests') <= MaxRequests
      /\ Rows' = 1..(n + 1)
      /\ \A i \in Rows : requests'[i] = requests[i]
      /\ requests'[n + 1] = [org |-> o, host |-> h, page |-> p, status |-> "pending"]
  BY <1>1, <1>3, FileIs
<1>5. /\ requests'[n + 1].org = o /\ requests'[n + 1].host = h
      /\ requests'[n + 1].page = p /\ requests'[n + 1].status = "pending"
  BY <1>4
<1>6. /\ Rows' = Rows \cup {n + 1} /\ n + 1 \notin Rows
  BY <1>2, <1>4
<1> HIDE DEF n
<1>7. /\ primary' \in [Orgs -> Primary]
      /\ \A q \in Orgs : primary'[q].page \in pages \cup {NoPage}
      /\ \A q \in Orgs \ {o} : primary'[q] = primary[q]
      /\ \/ primary'[o].host = h /\ primary'[o].status = "pending"
         \/ primary'[o] = primary[o]
  <2>1. CASE Point(o, h, p, "pending")
    <3>1. h \in Hosts \cup {NoHost} /\ "pending" \in Claimed \cup {"none", "rejected"}
      BY DEF Claimed
    <3> QED BY <1>1, <2>1, <3>1, PointIs
  <2>2. CASE UNCHANGED primary
    BY <1>1, <2>2 DEF DomainTypeOK
  <2> QED BY <2>1, <2>2
<1>8. DomainTypeOK'
  <2>1. \A i \in Rows' : requests'[i].page \in pages \cup {NoPage}
    BY <1>1, <1>4, <1>5, <1>6 DEF DomainTypeOK
  <2>2. registered' \subseteq Orgs /\ pages' \subseteq Pages /\ pages' = pages
    BY <1>1 DEF DomainTypeOK
  <2> QED BY <1>4, <1>7, <2>1, <2>2 DEF DomainTypeOK
<1>9. OneClaim'
  <2>1. \A i \in Rows : requests[i].host = h => requests[i].status \notin Claimed
    BY DEF Available
  <2> QED BY <1>1, <1>4, <1>5, <1>6, <2>1 DEF OneClaim
<1>10. Backed'
  <2> SUFFICES ASSUME NEW q \in Orgs, primary'[q].host # NoHost
               PROVE  \E i \in Rows' : Stands(requests'[i], q, primary'[q])
    BY DEF Backed
  <2>1. CASE primary'[q] = primary[q]
    BY <1>1, <1>4, <1>6, <2>1 DEF Backed
  <2>2. CASE q = o /\ primary'[o].host = h /\ primary'[o].status = "pending"
    BY <1>5, <1>6, <2>2 DEF Claimed, Stands
  <2> QED BY <1>7, <2>1, <2>2
<1>11. KeepsAnAddress'
  <2> SUFFICES ASSUME NEW i \in Rows', requests'[i].status \in Reviewed
               PROVE  primary'[requests'[i].org].host # NoHost
    BY DEF KeepsAnAddress
  <2>1. i \in Rows /\ requests'[i] = requests[i]
    BY <1>4, <1>5, <1>6 DEF Reviewed
  <2>2. primary[requests[i].org].host # NoHost /\ requests[i].org \in Orgs
    BY <1>1, <1>2, <2>1 DEF KeepsAnAddress, Request
  <2> QED BY <1>7, <2>1, <2>2, NoneAssumption
<1> QED BY <1>8, <1>9, <1>10, <1>11 DEF DomainInv

\* The row i is lost, and the organisation's row falls back if it has that host.
LEMMA LostBacks ==
  ASSUME DomainInv, NEW i \in Rows, NEW status \in {"none", "rejected"},
         IF primary[requests[i].org].host = requests[i].host
         THEN FallBack(requests[i].org, Rows \ {i}, status)
         ELSE UNCHANGED primary
  PROVE  /\ primary' \in [Orgs -> Primary]
         /\ \A q \in Orgs : primary'[q].page \in pages \cup {NoPage}
         /\ \A q \in Orgs : primary'[q].host # NoHost =>
              \E k \in Rows \ {i} : Stands(requests[k], q, primary'[q])
         /\ \A k \in Rows \ {i} : requests[k].status \in Reviewed =>
              primary'[requests[k].org].host # NoHost
<1> DEFINE o == requests[i].org
<1>1. /\ DomainTypeOK /\ OneClaim /\ Backed /\ KeepsAnAddress
  BY DEF DomainInv
<1>2. /\ \A k \in Rows : requests[k] \in Request /\ requests[k].org \in Orgs /\ requests[k].host \in Hosts
      /\ o \in Orgs
  BY <1>1, RowsAre DEF Request
<1> HIDE DEF o
\* A host in another organisation's row is not that of i.
<1>3. ASSUME NEW q \in Orgs, q # o \/ primary[q].host # requests[i].host, primary[q].host # NoHost
      PROVE  \E k \in Rows \ {i} : Stands(requests[k], q, primary[q])
  <2>1. PICK k \in Rows : Stands(requests[k], q, primary[q])
    BY <1>1, <1>3 DEF Backed
  <2>2. k # i
    BY <1>3, <2>1 DEF o, Stands
  <2> QED BY <2>1, <2>2
<1>4. CASE primary[o].host = requests[i].host
  <2>1. FallBack(o, Rows \ {i}, status)
    BY <1>4 DEF o
  <2>2. /\ primary' \in [Orgs -> Primary]
        /\ \A q \in Orgs : primary'[q].page \in pages \cup {NoPage}
        /\ \A q \in Orgs \ {o} : primary'[q] = primary[q]
        /\ \/ /\ \A k \in Rows \ {i} : requests[k].org = o => requests[k].status \notin Reviewed
              /\ primary'[o].host = NoHost
           \/ \E k \in Rows \ {i} : /\ requests[k].org = o /\ requests[k].status \in Reviewed
                                    /\ primary'[o].host = requests[k].host
                                    /\ primary'[o].status = requests[k].status
    BY <1>1, <1>2, <2>1, FallBackIs
  <2>3. ASSUME NEW q \in Orgs, primary'[q].host # NoHost
        PROVE  \E k \in Rows \ {i} : Stands(requests[k], q, primary'[q])
    <3>1. CASE q # o
      BY <1>3, <2>2, <2>3, <3>1
    <3>2. CASE q = o
      BY <2>2, <2>3, <3>2 DEF Reviewed, Claimed, Stands
    <3> QED BY <3>1, <3>2
  <2>4. ASSUME NEW k \in Rows \ {i}, requests[k].status \in Reviewed
        PROVE  primary'[requests[k].org].host # NoHost
    <3>1. CASE requests[k].org # o
      BY <1>1, <1>2, <2>2, <2>4, <3>1 DEF KeepsAnAddress
    <3>2. CASE requests[k].org = o
      BY <1>2, <2>2, <2>4, <3>2, NoneAssumption
    <3> QED BY <3>1, <3>2
  <2> QED BY <2>2, <2>3, <2>4
<1>5. CASE primary[o].host # requests[i].host
  <2>1. primary' = primary
    BY <1>5 DEF o
  <2>2. ASSUME NEW q \in Orgs, primary'[q].host # NoHost
        PROVE  \E k \in Rows \ {i} : Stands(requests[k], q, primary'[q])
    BY <1>3, <1>5, <2>1, <2>2
  <2> QED BY <1>1, <2>1, <2>2 DEF DomainTypeOK, KeepsAnAddress
<1> QED BY <1>4, <1>5

LEMMA DeleteKeeps ==
  ASSUME DomainInv, NEW i \in Rows, DeleteCustomDomain(i)
  PROVE  DomainInv'
<1>1. /\ DomainTypeOK /\ OneClaim
  BY DEF DomainInv
<1>2. /\ requests' = RemoveAt(requests, i) /\ UNCHANGED <<registered, pages>>
      /\ IF primary[requests[i].org].host = requests[i].host
         THEN FallBack(requests[i].org, Rows \ {i}, "none")
         ELSE UNCHANGED primary
  BY DEF DeleteCustomDomain
<1>3. /\ requests' \in Seq(Request) /\ Len(requests') = Len(requests) - 1
      /\ Rows' = 1..(Len(requests) - 1)
      /\ \A j \in Rows' : Former(i, j) \in Rows \ {i} /\ requests'[j] = requests[Former(i, j)]
  BY <1>1, <1>2, RemovalIs
<1>4. /\ primary' \in [Orgs -> Primary]
      /\ \A q \in Orgs : primary'[q].page \in pages \cup {NoPage}
      /\ \A q \in Orgs : primary'[q].host # NoHost =>
           \E k \in Rows \ {i} : Stands(requests[k], q, primary'[q])
      /\ \A k \in Rows \ {i} : requests[k].status \in Reviewed =>
           primary'[requests[k].org].host # NoHost
  BY <1>2, LostBacks
<1>5. /\ Len(requests) \in Nat /\ Rows = 1..Len(requests) /\ Len(requests) <= MaxRequests
      /\ MaxRequests \in Nat
  BY <1>1, RowsAre, RowAssumption DEF DomainTypeOK
<1>6. \A k \in Rows \ {i} : \E j \in Rows' : requests'[j] = requests[k]
  <2> SUFFICES ASSUME NEW k \in Rows \ {i} PROVE \E j \in Rows' : Former(i, j) = k
    BY <1>3
  <2> DEFINE j == IF k < i THEN k ELSE k - 1
  <2>1. j \in Rows' /\ Former(i, j) = k
    BY <1>3, <1>5 DEF Former
  <2> QED BY <2>1
<1>7. \A j \in Rows', k \in Rows' : Former(i, j) = Former(i, k) => j = k
  BY <1>3, <1>5 DEF Former
<1>8. DomainTypeOK'
  <2>1. \A j \in Rows' : requests'[j].page \in pages \cup {NoPage}
    BY <1>1, <1>3 DEF DomainTypeOK
  <2>2. Len(requests') <= MaxRequests
    BY <1>3, <1>5
  <2> QED BY <1>1, <1>2, <1>3, <1>4, <2>1, <2>2 DEF DomainTypeOK
<1>9. OneClaim'
  BY <1>1, <1>3, <1>7 DEF OneClaim
<1>10. Backed'
  <2> SUFFICES ASSUME NEW q \in Orgs, primary'[q].host # NoHost
               PROVE  \E j \in Rows' : Stands(requests'[j], q, primary'[q])
    BY DEF Backed
  <2>1. PICK k \in Rows \ {i} : Stands(requests[k], q, primary'[q])
    BY <1>4
  <2>2. PICK j \in Rows' : requests'[j] = requests[k]
    BY <1>6
  <2> QED BY <2>1, <2>2
<1>11. KeepsAnAddress'
  BY <1>3, <1>4 DEF KeepsAnAddress
<1> QED BY <1>8, <1>9, <1>10, <1>11 DEF DomainInv

\* Rows that change in place.
LEMMA InPlace ==
  ASSUME DomainTypeOK, requests' \in [Rows -> Request]
  PROVE  requests' \in Seq(Request) /\ Len(requests') <= MaxRequests /\ Rows' = Rows
<1>1. Len(requests) \in Nat /\ Rows = 1..Len(requests) /\ Len(requests) <= MaxRequests
  BY RowsAre DEF DomainTypeOK
<1>2. requests' \in Seq(Request) /\ Len(requests') = Len(requests) /\ DOMAIN requests' = 1..Len(requests)
  BY <1>1, FunSeq
<1> QED BY <1>1, <1>2 DEF Rows

LEMMA RejectKeeps ==
  ASSUME DomainInv, NEW i \in Rows, Reject(i)
  PROVE  DomainInv'
<1>1. /\ DomainTypeOK /\ OneClaim
  BY DEF DomainInv
<1>2. /\ requests' = [requests EXCEPT ![i] = Refused(requests[i])]
      /\ UNCHANGED <<registered, pages>>
      /\ IF primary[requests[i].org].host = requests[i].host
         THEN FallBack(requests[i].org, Rows \ {i}, "rejected")
         ELSE UNCHANGED primary
  BY DEF Reject
<1>3. /\ requests \in [Rows -> Request] /\ requests[i] \in Request
  BY <1>1, RowsAre
<1>4. /\ Refused(requests[i]) \in Request
      /\ Refused(requests[i]).page = requests[i].page /\ Refused(requests[i]).status = "rejected"
  BY <1>3, RefusedIs
<1>5. /\ requests' \in [Rows -> Request]
      /\ \A k \in Rows \ {i} : requests'[k] = requests[k]
      /\ requests'[i] = Refused(requests[i])
  BY <1>2, <1>3, <1>4
<1>6. requests' \in Seq(Request) /\ Len(requests') <= MaxRequests /\ Rows' = Rows
  BY <1>1, <1>5, InPlace
<1>7. /\ primary' \in [Orgs -> Primary]
      /\ \A q \in Orgs : primary'[q].page \in pages \cup {NoPage}
      /\ \A q \in Orgs : primary'[q].host # NoHost =>
           \E k \in Rows \ {i} : Stands(requests[k], q, primary'[q])
      /\ \A k \in Rows \ {i} : requests[k].status \in Reviewed =>
           primary'[requests[k].org].host # NoHost
  BY <1>2, LostBacks
<1>8. "rejected" \notin Claimed /\ "rejected" \notin Reviewed
  BY DEF Claimed, Reviewed
<1>9. DomainTypeOK'
  <2>1. \A k \in Rows : requests'[k].page \in pages \cup {NoPage}
    BY <1>1, <1>4, <1>5 DEF DomainTypeOK
  <2> QED BY <1>1, <1>2, <1>6, <1>7, <2>1 DEF DomainTypeOK
<1>10. OneClaim'
  BY <1>1, <1>4, <1>5, <1>6, <1>8 DEF OneClaim
<1>11. Backed'
  BY <1>5, <1>6, <1>7 DEF Backed
<1>12. KeepsAnAddress'
  BY <1>4, <1>5, <1>6, <1>7, <1>8 DEF KeepsAnAddress
<1> QED BY <1>9, <1>10, <1>11, <1>12 DEF DomainInv

LEMMA ApproveKeeps ==
  ASSUME DomainInv, NEW i \in Rows, Approve(i)
  PROVE  DomainInv'
<1> DEFINE r == requests[i]
           new == Linked(requests[i], requests[i].page)
           to == IF requests[i].page = NoPage THEN primary[requests[i].org].page ELSE requests[i].page
<1>1. /\ DomainTypeOK /\ OneClaim /\ Backed /\ KeepsAnAddress
  BY DEF DomainInv
<1>2. /\ r.status = "pending" /\ UNCHANGED <<registered, pages>>
      /\ requests' = [requests EXCEPT ![i] = new]
      /\ IF primary[r.org].host \in {NoHost, r.host} THEN Point(r.org, r.host, to, Assigned(r.page))
                                                    ELSE UNCHANGED primary
  BY DEF Approve
<1>3. /\ requests \in [Rows -> Request] /\ r \in Request
      /\ r.org \in Orgs /\ r.host \in Hosts /\ r.page \in Target /\ r.page \in pages \cup {NoPage}
  BY <1>1, RowsAre DEF Request, DomainTypeOK
<1>4. /\ new \in Request /\ new.org = r.org /\ new.host = r.host /\ new.page = r.page
      /\ new.status = Assigned(r.page) /\ Assigned(r.page) \in Reviewed
  BY <1>3, LinkedIs
<1>5. to \in pages \cup {NoPage}
  BY <1>1, <1>3 DEF DomainTypeOK
<1> HIDE DEF new, to, r
<1>6. /\ requests' \in [Rows -> Request] /\ requests'[i] = new
      /\ \A k \in Rows \ {i} : requests'[k] = requests[k]
  BY <1>2, <1>3, <1>4
<1>7. requests' \in Seq(Request) /\ Len(requests') <= MaxRequests /\ Rows' = Rows
  BY <1>1, <1>6, InPlace
<1>8. /\ primary' \in [Orgs -> Primary]
      /\ \A q \in Orgs : primary'[q].page \in pages \cup {NoPage}
      /\ \A q \in Orgs \ {r.org} : primary'[q] = primary[q]
      /\ \/ primary'[r.org].host = r.host /\ primary'[r.org].status = Assigned(r.page)
         \/ primary'[r.org] = primary[r.org] /\ primary[r.org].host \notin {NoHost, r.host}
  <2>1. CASE primary[r.org].host \in {NoHost, r.host}
    <3>1. r.host \in Hosts \cup {NoHost} /\ Assigned(r.page) \in Claimed \cup {"none", "rejected"}
      BY <1>3, <1>4 DEF Claimed
    <3> QED BY <1>1, <1>2, <1>3, <1>5, <2>1, <3>1, PointIs
  <2>2. CASE primary[r.org].host \notin {NoHost, r.host}
    BY <1>1, <1>2, <2>2 DEF DomainTypeOK
  <2> QED BY <2>1, <2>2
<1>9. "pending" \in Claimed /\ "pending" \notin Reviewed /\ Reviewed \subseteq Claimed
  BY DEF Claimed, Reviewed
<1>10. requests[i] = r
  BY DEF r
<1>11. DomainTypeOK'
  <2>1. \A k \in Rows : requests'[k].page \in pages \cup {NoPage}
    BY <1>1, <1>3, <1>4, <1>6 DEF DomainTypeOK
  <2> QED BY <1>1, <1>2, <1>7, <1>8, <2>1 DEF DomainTypeOK
<1>12. OneClaim'
  <2> SUFFICES ASSUME NEW j \in Rows, NEW k \in Rows, requests'[j].host = requests'[k].host,
                      requests'[j].status \in Claimed, requests'[k].status \in Claimed
               PROVE  j = k
    BY <1>7 DEF OneClaim
  <2>1. \A m \in Rows : /\ requests'[m].host = requests[m].host
                        /\ requests'[m].status \in Claimed => requests[m].status \in Claimed
    BY <1>2, <1>4, <1>6, <1>9, <1>10
  <2> QED BY <1>1, <2>1 DEF OneClaim
<1>13. Backed'
  <2> SUFFICES ASSUME NEW q \in Orgs, primary'[q].host # NoHost
               PROVE  \E k \in Rows : Stands(requests'[k], q, primary'[q])
    BY <1>7 DEF Backed
  <2>1. CASE q = r.org /\ primary'[q].host = r.host /\ primary'[q].status = Assigned(r.page)
    <3>1. Stands(new, q, primary'[q])
      BY <1>4, <1>9, <2>1 DEF Stands
    <3> QED BY <1>6, <3>1
  <2>2. CASE primary'[q] = primary[q] /\ (q # r.org \/ primary[q].host # r.host)
    <3>1. PICK k \in Rows : Stands(requests[k], q, primary[q])
      BY <1>1, <2>2 DEF Backed
    <3>2. k # i
      BY <1>10, <2>2, <3>1 DEF Stands
    <3> QED BY <1>6, <2>2, <3>1, <3>2
  <2> QED BY <1>8, <2>1, <2>2
<1>14. KeepsAnAddress'
  <2> SUFFICES ASSUME NEW k \in Rows, requests'[k].status \in Reviewed
               PROVE  primary'[requests'[k].org].host # NoHost
    BY <1>7 DEF KeepsAnAddress
  <2>1. primary'[r.org].host # NoHost
    BY <1>3, <1>8, NoneAssumption
  <2>2. CASE requests'[k].org = r.org
    BY <2>1, <2>2
  <2>3. CASE requests'[k].org # r.org
    <3>1. k # i /\ requests'[k] = requests[k]
      BY <1>4, <1>6, <2>3
    <3>2. requests[k].org \in Orgs
      BY <1>3 DEF Request
    <3> QED BY <1>1, <1>8, <2>3, <3>1, <3>2 DEF KeepsAnAddress
  <2> QED BY <2>2, <2>3
<1> QED BY <1>11, <1>12, <1>13, <1>14 DEF DomainInv

\* Rows that keep their organisation, their host and their stage.
SameStage(r, old) ==
  /\ r.org = old.org /\ r.host = old.host
  /\ r.status \in Reviewed <=> old.status \in Reviewed
  /\ r.status \in Claimed <=> old.status \in Claimed
  /\ r.status = "pending" <=> old.status = "pending"

LEMMA StageKeeps ==
  ASSUME DomainInv, Rows' = Rows, \A k \in Rows : SameStage(requests'[k], requests[k])
  PROVE  /\ OneClaim'
         /\ (\A q \in Orgs : primary'[q].host = primary[q].host
                            /\ (primary'[q].status = "pending" <=> primary[q].status = "pending"))
              => Backed' /\ KeepsAnAddress'
<1>1. OneClaim /\ Backed /\ KeepsAnAddress
  BY DEF DomainInv
<1>2. OneClaim'
  BY <1>1 DEF OneClaim, SameStage
<1>3. ASSUME \A q \in Orgs : primary'[q].host = primary[q].host
                            /\ (primary'[q].status = "pending" <=> primary[q].status = "pending")
      PROVE  Backed' /\ KeepsAnAddress'
  <2>1. ASSUME NEW q \in Orgs, primary'[q].host # NoHost
        PROVE  \E k \in Rows : Stands(requests'[k], q, primary'[q])
    <3>1. PICK k \in Rows : Stands(requests[k], q, primary[q])
      BY <1>1, <1>3, <2>1 DEF Backed
    <3>2. Stands(requests'[k], q, primary'[q])
      BY <1>3, <3>1 DEF Stands, SameStage
    <3> QED BY <3>2
  <2>2. ASSUME NEW k \in Rows, requests'[k].status \in Reviewed
        PROVE  primary'[requests'[k].org].host # NoHost
    <3>1. requests[k].org \in Orgs
      BY RowsAre DEF DomainInv, Request
    <3> QED BY <1>1, <1>3, <2>2, <3>1 DEF KeepsAnAddress, SameStage
  <2> QED BY <2>1, <2>2 DEF Backed, KeepsAnAddress
<1> QED BY <1>2, <1>3

LEMMA AssignKeeps ==
  ASSUME DomainInv, NEW i \in Rows, NEW p \in OwnPages(requests[i].org) \cup {NoPage}, AssignDomain(i, p)
  PROVE  DomainInv'
<1> DEFINE r == requests[i]
           Displaced(j) == /\ j # i /\ p # NoPage /\ requests[j].page = p
                           /\ requests[j].org = requests[i].org /\ requests[j].status \in Reviewed
<1>1. /\ DomainTypeOK /\ OneClaim /\ Backed /\ KeepsAnAddress
  BY DEF DomainInv
<1>2. /\ r.status \in Reviewed /\ UNCHANGED <<registered, pages>>
      /\ requests' = [j \in Rows |-> IF j = i THEN Linked(requests[j], p)
                                     ELSE IF Displaced(j) THEN Linked(requests[j], NoPage)
                                     ELSE requests[j]]
      /\ IF primary[r.org].host \in {NoHost, r.host} THEN Point(r.org, r.host, p, Assigned(p))
                                                    ELSE UNCHANGED primary
  BY DEF AssignDomain
<1>3. /\ \A k \in Rows : requests[k] \in Request
      /\ r \in Request /\ r.org \in Orgs /\ r.host \in Hosts
  BY <1>1, RowsAre DEF Request
<1>4. p \in pages \cup {NoPage} /\ p \in Target /\ NoPage \in Target /\ NoPage \in pages \cup {NoPage}
  BY <1>1 DEF OwnPages, DomainTypeOK, Target
<1>5. Reviewed \subseteq Claimed /\ "pending" \notin Reviewed
  BY DEF Reviewed, Claimed
<1>6. ASSUME NEW k \in Rows
      PROVE  /\ requests'[k] \in Request /\ SameStage(requests'[k], requests[k])
             /\ requests'[k].page \in pages \cup {NoPage}
  <2>1. CASE k = i
    <3>1. requests'[k] = Linked(requests[k], p) /\ requests[k].status \in Reviewed
      BY <1>2, <2>1
    <3>2. /\ Linked(requests[k], p) \in Request
          /\ Linked(requests[k], p).org = requests[k].org /\ Linked(requests[k], p).host = requests[k].host
          /\ Linked(requests[k], p).page = p /\ Linked(requests[k], p).status = Assigned(p)
          /\ Assigned(p) \in Reviewed
      BY <1>3, <1>4, LinkedIs
    <3> QED BY <1>4, <1>5, <3>1, <3>2 DEF SameStage
  <2>2. CASE k # i /\ Displaced(k)
    <3>1. requests'[k] = Linked(requests[k], NoPage) /\ requests[k].status \in Reviewed
      BY <1>2, <2>2
    <3>2. /\ Linked(requests[k], NoPage) \in Request
          /\ Linked(requests[k], NoPage).org = requests[k].org
          /\ Linked(requests[k], NoPage).host = requests[k].host
          /\ Linked(requests[k], NoPage).page = NoPage
          /\ Linked(requests[k], NoPage).status = Assigned(NoPage) /\ Assigned(NoPage) \in Reviewed
      BY <1>3, <1>4, LinkedIs
    <3> QED BY <1>4, <1>5, <3>1, <3>2 DEF SameStage
  <2>3. CASE k # i /\ ~Displaced(k)
    <3>1. requests'[k] = requests[k]
      BY <1>2, <2>3
    <3> QED BY <1>1, <1>3, <3>1 DEF SameStage, DomainTypeOK
  <2> QED BY <2>1, <2>2, <2>3
<1>7. requests' \in [Rows -> Request]
  BY <1>2, <1>6
<1>8. requests' \in Seq(Request) /\ Len(requests') <= MaxRequests /\ Rows' = Rows
  BY <1>1, <1>7, InPlace
<1>9. OneClaim'
  BY <1>6, <1>8, StageKeeps
<1> HIDE DEF r
<1>10. requests[i] = r
  BY DEF r
<1>11. CASE primary[r.org].host \in {NoHost, r.host}
  <2>1. r.host \in Hosts \cup {NoHost} /\ Assigned(p) \in Claimed \cup {"none", "rejected"}
    BY <1>3, <1>4, LinkedIs DEF Claimed, Reviewed, Assigned
  <2>2. Point(r.org, r.host, p, Assigned(p))
    BY <1>2, <1>11
  <2>3. /\ primary' \in [Orgs -> Primary]
        /\ \A q \in Orgs : primary'[q].page \in pages \cup {NoPage}
        /\ primary'[r.org].host = r.host /\ primary'[r.org].status = Assigned(p)
        /\ \A q \in Orgs \ {r.org} : primary'[q] = primary[q]
    BY <1>1, <1>3, <1>4, <2>1, <2>2, PointIs
  <2>4. DomainTypeOK'
    BY <1>1, <1>2, <1>6, <1>8, <2>3 DEF DomainTypeOK
  <2>5. Backed'
    <3> SUFFICES ASSUME NEW q \in Orgs, primary'[q].host # NoHost
                 PROVE  \E k \in Rows : Stands(requests'[k], q, primary'[q])
      BY <1>8 DEF Backed
    <3>1. CASE q = r.org
      <4>1. Assigned(p) \in Reviewed
        BY <1>3, <1>4, LinkedIs
      <4>2. Stands(requests'[i], q, primary'[q])
        BY <1>2, <1>5, <1>6, <1>10, <2>3, <3>1, <4>1 DEF Stands, SameStage
      <4> QED BY <4>2
    <3>2. CASE q # r.org
      <4>1. PICK k \in Rows : Stands(requests[k], q, primary[q])
        BY <1>1, <2>3, <3>2 DEF Backed
      <4>2. Stands(requests'[k], q, primary'[q])
        BY <1>6, <2>3, <3>2, <4>1 DEF Stands, SameStage
      <4> QED BY <4>2
    <3> QED BY <3>1, <3>2
  <2>6. KeepsAnAddress'
    <3> SUFFICES ASSUME NEW k \in Rows, requests'[k].status \in Reviewed
                 PROVE  primary'[requests'[k].org].host # NoHost
      BY <1>8 DEF KeepsAnAddress
    <3>1. /\ requests'[k].org = requests[k].org /\ requests[k].status \in Reviewed
          /\ requests[k].org \in Orgs
      BY <1>3, <1>6 DEF SameStage, Request
    <3> QED BY <1>1, <1>3, <2>3, <3>1, NoneAssumption DEF KeepsAnAddress
  <2> QED BY <1>9, <2>4, <2>5, <2>6 DEF DomainInv
<1>12. CASE primary[r.org].host \notin {NoHost, r.host}
  <2>1. primary' = primary
    BY <1>2, <1>12
  <2>2. DomainTypeOK'
    BY <1>1, <1>2, <1>6, <1>8, <2>1 DEF DomainTypeOK
  <2> QED BY <1>6, <1>8, <2>1, <2>2, StageKeeps DEF DomainInv
<1> QED BY <1>11, <1>12

LEMMA DeletePageKeeps ==
  ASSUME DomainInv, NEW p \in Pages, DeletePage(p)
  PROVE  DomainInv'
<1>1. DomainTypeOK
  BY DEF DomainInv
<1>2. /\ p \in pages /\ pages' = pages \ {p} /\ UNCHANGED registered
      /\ requests' = [k \in Rows |-> Unpaged(requests[k], p)]
      /\ primary' = [o \in Orgs |-> Unpaged(primary[o], p)]
  BY DEF DeletePage
<1>3. ASSUME NEW k \in Rows
      PROVE  /\ requests'[k] \in Request /\ SameStage(requests'[k], requests[k])
             /\ requests'[k].page \in pages' \cup {NoPage}
  <2>1. requests'[k] = Unpaged(requests[k], p) /\ requests[k] \in Request
    BY <1>1, <1>2, RowsAre
  <2>2. /\ Unpaged(requests[k], p) \in Request
        /\ Unpaged(requests[k], p).org = requests[k].org /\ Unpaged(requests[k], p).host = requests[k].host
        /\ Unpaged(requests[k], p).page = (IF requests[k].page = p THEN NoPage ELSE requests[k].page)
        /\ Unpaged(requests[k], p).status = requests[k].status
    BY <2>1, UnpagedIs
  <2>3. requests[k].page \in pages \cup {NoPage}
    BY <1>1 DEF DomainTypeOK
  <2> QED BY <1>2, <2>1, <2>2, <2>3 DEF SameStage
<1>4. ASSUME NEW o \in Orgs
      PROVE  /\ primary'[o] \in Primary /\ primary'[o].host = primary[o].host
             /\ primary'[o].status = primary[o].status
             /\ primary'[o].page \in pages' \cup {NoPage}
  <2>1. primary'[o] = Unpaged(primary[o], p) /\ primary[o] \in Primary
    BY <1>1, <1>2 DEF DomainTypeOK
  <2>2. /\ Unpaged(primary[o], p) \in Primary
        /\ Unpaged(primary[o], p).host = primary[o].host /\ Unpaged(primary[o], p).status = primary[o].status
        /\ Unpaged(primary[o], p).page = (IF primary[o].page = p THEN NoPage ELSE primary[o].page)
    BY <2>1, UnpagedPrimaryIs
  <2>3. primary[o].page \in pages \cup {NoPage}
    BY <1>1 DEF DomainTypeOK
  <2> QED BY <1>2, <2>1, <2>2, <2>3
<1>5. requests' \in [Rows -> Request] /\ primary' \in [Orgs -> Primary]
  BY <1>2, <1>3, <1>4
<1>6. requests' \in Seq(Request) /\ Len(requests') <= MaxRequests /\ Rows' = Rows
  BY <1>1, <1>5, InPlace
<1>7. DomainTypeOK'
  BY <1>1, <1>2, <1>3, <1>4, <1>5, <1>6 DEF DomainTypeOK
<1> QED BY <1>3, <1>4, <1>6, <1>7, StageKeeps DEF DomainInv

LEMMA NothingMoves ==
  ASSUME DomainInv, UNCHANGED <<requests, primary>>, registered' \subseteq Orgs,
         pages \subseteq pages', pages' \subseteq Pages
  PROVE  DomainInv'
BY DEF DomainInv, DomainTypeOK, Rows, OneClaim, Backed, KeepsAnAddress

LEMMA RegisterKeeps ==
  ASSUME DomainInv, NEW o \in Orgs, Register(o)
  PROVE  DomainInv'
<1>1. registered' \subseteq Orgs /\ pages' = pages /\ pages \subseteq Pages
  BY DEF Register, DomainInv, DomainTypeOK
<1>2. CASE UNCHANGED <<requests, primary>>
  BY <1>1, <1>2, NothingMoves
<1>3. ASSUME NEW h \in Hosts, Available(h), File(o, h, NoPage), Point(o, h, NoPage, "pending")
      PROVE  DomainInv'
  <2>1. NoPage \in pages \cup {NoPage}
    OBVIOUS
  <2> QED BY <1>1, <1>3, <2>1, FileKeeps
<1> QED BY <1>2, <1>3 DEF Register

LEMMA RequestKeeps ==
  ASSUME DomainInv, NEW o \in Orgs, NEW h \in Hosts, NEW p \in OwnPages(o) \cup {NoPage},
         RequestCustomDomain(o, h, p)
  PROVE  DomainInv'
<1>1. p \in pages \cup {NoPage}
  BY DEF OwnPages
<1>2. registered' \subseteq Orgs /\ UNCHANGED pages
  BY DEF RequestCustomDomain, DomainInv, DomainTypeOK
<1>3. Available(h) /\ File(o, h, p) /\ (Point(o, h, p, "pending") \/ UNCHANGED primary)
  BY DEF RequestCustomDomain
<1> QED BY <1>1, <1>2, <1>3, FileKeeps

LEMMA DomainStepInv == DomainInv /\ [DomainNext]_domainVars => DomainInv'
<1> SUFFICES ASSUME DomainInv, [DomainNext]_domainVars PROVE DomainInv'
  OBVIOUS
<1>1. ASSUME NEW p \in Pages, CreatePage(p) PROVE DomainInv'
  <2>1. /\ UNCHANGED <<requests, primary>> /\ registered' \subseteq Orgs
        /\ pages \subseteq pages' /\ pages' \subseteq Pages
    BY <1>1 DEF CreatePage, DomainInv, DomainTypeOK
  <2> QED BY <2>1, NothingMoves
<1>2. CASE UNCHANGED domainVars
  <2>1. /\ UNCHANGED <<requests, primary>> /\ registered' \subseteq Orgs
        /\ pages \subseteq pages' /\ pages' \subseteq Pages
    BY <1>2 DEF domainVars, DomainInv, DomainTypeOK
  <2> QED BY <2>1, NothingMoves
<1> QED BY <1>1, <1>2, RegisterKeeps, RequestKeeps, DeleteKeeps, ApproveKeeps, RejectKeeps,
           AssignKeeps, DeletePageKeeps DEF DomainNext

LEMMA DomainInvariant == DomainSpec => []DomainInv
BY DomainInitInv, DomainStepInv, PTL DEF DomainSpec

(* Requests, organisations' rows and pages keep their types, and no row    *)
(* names a page that is gone.                                              *)
THEOREM DomainTypeCorrect == DomainSpec => []DomainTypeOK
<1>1. DomainInv => DomainTypeOK
  BY DEF DomainInv
<1> QED BY <1>1, DomainInvariant, PTL

(* For all organisations, hosts and pages: members sign in at a host only  *)
(* to the organisation that alone has a claim to it.                       *)
THEOREM SignInMeetsSiteAlways == DomainSpec => []SignInMeetsSite
<1>1. DomainInv => SignInMeetsSite
  <2> SUFFICES ASSUME DomainInv, NEW o \in Orgs, primary[o].host # NoHost
               PROVE  /\ \E i \in Rows : Stands(requests[i], o, primary[o])
                      /\ \A i \in Rows : requests[i].host = primary[o].host
                                          /\ requests[i].status \in Claimed => requests[i].org = o
    BY DEF SignInMeetsSite, Stands
  <2>1. PICK i \in Rows : Stands(requests[i], o, primary[o])
    BY DEF DomainInv, Backed
  <2>2. ASSUME NEW j \in Rows, requests[j].host = primary[o].host, requests[j].status \in Claimed
        PROVE  requests[j].org = o
    BY <2>1, <2>2 DEF DomainInv, OneClaim, Stands
  <2> QED BY <2>1, <2>2
<1> QED BY <1>1, DomainInvariant, PTL

(* An organisation that has an approved host always has one to sign in at. *)
THEOREM KeepsAnAddressAlways == DomainSpec => []KeepsAnAddress
<1>1. DomainInv => KeepsAnAddress
  BY DEF DomainInv
<1> QED BY <1>1, DomainInvariant, PTL

-----------------------------------------------------------------------------
(* MCSites: the three of them side by side.                                *)

SiteInv == DomainInv /\ LeadTypeOK /\ EditorInv

\* A step is a step of one part, and the others stand still.
LEMMA NextIsOneOfThem ==
  ASSUME [Next]_vars
  PROVE  [DomainNext]_domainVars /\ [LeadNext]_leadVars /\ [EditorNext]_editorVars
BY DEF Next, vars, Others

LEMMA SiteInvariant == Spec => []SiteInv
<1>1. Init => SiteInv
  BY DomainInitInv, LeadInitTyped, EditorInitInv DEF Init, SiteInv
<1>2. SiteInv /\ [Next]_vars => SiteInv'
  <2> SUFFICES ASSUME SiteInv, [Next]_vars PROVE SiteInv'
    OBVIOUS
  <2>1. [DomainNext]_domainVars /\ [LeadNext]_leadVars /\ [EditorNext]_editorVars
    BY NextIsOneOfThem
  <2> QED BY <2>1, DomainStepInv, LeadStepTyped, EditorStepInv DEF SiteInv
<1> QED BY <1>1, <1>2, PTL DEF Spec

(* Domains, leads and documents keep their types, whichever of them a      *)
(* behaviour is of, for every value of the constants.                      *)
THEOREM SitesTypeCorrect == Spec => []TypeOK
<1>1. SiteInv => TypeOK
  BY EditorInvTypes DEF SiteInv, DomainInv, TypeOK
<1> QED BY <1>1, SiteInvariant, PTL

\* Of each part a behaviour shows a behaviour.
LEMMA PartsRun == Spec => DomainSpec /\ LeadRuns /\ EditorSpec
<1>1. Init => DomainInit /\ LeadInit /\ EditorInit
  BY DEF Init
<1>2. [Next]_vars => [DomainNext]_domainVars /\ [LeadNext]_leadVars /\ [EditorNext]_editorVars
  BY NextIsOneOfThem
<1> QED BY <1>1, <1>2, PTL DEF Spec, DomainSpec, LeadRuns, EditorSpec

(* What stands behind a site keeps all its promises of safety, for any     *)
(* organisations, hosts, pages, leads, workers and depth of the history.   *)
THEOREM SitesSafe ==
  Spec => /\ []SignInMeetsSite /\ []KeepsAnAddress /\ []OnceEach /\ []HistoryBounded
          /\ TimelineKept /\ KeepsTimeline /\ OnlyHistoryStrands
BY PartsRun, SignInMeetsSiteAlways, KeepsAnAddressAlways, RunsStoreOnce, HistoryBoundedAlways,
   TimelineAlways, TimelineImplemented, OnlyHistoryStrandsAlways, PTL

=============================================================================
