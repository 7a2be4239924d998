------------------------- MODULE AdminConsoleProofs -------------------------
(***************************************************************************)
(* Theorems about AdminConsole, for any well-formed seeds, any forms, any  *)
(* number of drafts and events and any writes that fail.                   *)
(***************************************************************************)
EXTENDS AdminConsole, OperatorLemmas

USE ConsoleAssumption, FormsAssumption, SeedsAssumption

-----------------------------------------------------------------------------
(* Lists of objects *)

Unique(objs) == \A i, j \in DOMAIN objs : objs[i].id = objs[j].id => i = j

\* An object to use of that type, on the list or among the seeds
HasLink(objs, o, type) ==
    \E p \in ObjectsOf(objs) \cup ObjectsOf(Seeds) : p.type = type /\ p.id \in o.relationships

\* What the links of a draft are.
LinksOK(objs, o) ==
    /\ o.relationships \subseteq IdsOf(objs) \cup SeedIds
    /\ o.type = "agent" => HasLink(objs, o, "skill")
    /\ o.type = "skill" => HasLink(objs, o, "tool")

\* A seed, whatever was decided about it
LikeSeed(o) ==
    \E p \in ObjectsOf(Seeds) :
        p.id = o.id /\ p.type = o.type /\ p.relationships = o.relationships

\* A list of objects as the page holds them and as the storage does.
Book(objs) ==
    /\ objs \in Seq(RegistryObjects)
    /\ Unique(objs)
    /\ \A o \in ObjectsOf(objs) :
          /\ o.aiHarnessCertified => FailedChecks(o) = {} /\ o.lifecycleState # "draft"
          /\ o.id \in SeedIds => LikeSeed(o)
          /\ o.id \notin SeedIds => IsRegistryObject(o) /\ LinksOK(objs, o)

\* The elements of a list.
LEMMA Listed ==
  ASSUME NEW S, NEW s \in Seq(S)
  PROVE  /\ Len(s) \in Nat /\ DOMAIN s = 1 .. Len(s)
         /\ \A o \in ObjectsOf(s) : o \in S
         /\ \A i \in DOMAIN s : s[i] \in ObjectsOf(s)
BY LenProperties DEF ObjectsOf

\* What is selected from a list is on it, in the same order.
LEMMA Selecting ==
  ASSUME NEW S, NEW s \in Seq(S), NEW K \in SUBSET (DOMAIN s)
  PROVE  /\ Pick(s, K) \in Seq(S)
         /\ ObjectsOf(Pick(s, K)) = {s[i] : i \in K}
         /\ Pick(s, K) = <<>> <=> K = {}
<1>1. /\ Pick(s, K) \in Seq(S)
      /\ \A k \in DOMAIN Pick(s, K) : \E i \in K : Pick(s, K)[k] = s[i]
      /\ \A i \in K : \E k \in DOMAIN Pick(s, K) : Pick(s, K)[k] = s[i]
      /\ Pick(s, K) = <<>> <=> K = {}
  BY PickElements
<1> QED
  BY <1>1 DEF ObjectsOf

LEMMA SelectingUnique ==
  ASSUME NEW s \in Seq(RegistryObjects), Unique(s), NEW K \in SUBSET (DOMAIN s)
  PROVE  Unique(Pick(s, K))
<1> DEFINE r == Pick(s, K)
<1>1. r \in Seq(RegistryObjects)
      /\ \A k, l \in DOMAIN r : k < l => \E i, j \in K : i < j /\ r[k] = s[i] /\ r[l] = s[j]
  BY PickElements
<1> HIDE DEF r
<1>2. DOMAIN r \subseteq Nat /\ DOMAIN s \subseteq Nat
  BY <1>1, LenProperties
<1>3. ASSUME NEW k \in DOMAIN r, NEW l \in DOMAIN r, k < l
      PROVE  r[k].id # r[l].id
  <2>1. PICK i \in K, j \in K : i < j /\ r[k] = s[i] /\ r[l] = s[j]
    BY <1>1, <1>3
  <2>2. i # j /\ i \in DOMAIN s /\ j \in DOMAIN s
    BY <1>2, <2>1
  <2> QED
    BY <2>1, <2>2 DEF Unique
<1>4. \A k, l \in DOMAIN r : k = l \/ k < l \/ l < k
  BY <1>2
<1> QED
  BY <1>3, <1>4 DEF Unique, r

\* The object with an id.
LEMMA Finding ==
  ASSUME NEW objs
  PROVE  /\ \A id \in IdsOf(objs) : Find(objs, id) \in ObjectsOf(objs) /\ Find(objs, id).id = id
         /\ Unique(objs) => \A o \in ObjectsOf(objs) : Find(objs, o.id) = o
<1>1. \A id \in IdsOf(objs) : Find(objs, id) \in ObjectsOf(objs) /\ Find(objs, id).id = id
  <2> SUFFICES ASSUME NEW id \in IdsOf(objs)
               PROVE  Find(objs, id) \in ObjectsOf(objs) /\ Find(objs, id).id = id
    OBVIOUS
  <2>1. \E o \in ObjectsOf(objs) : o.id = id
    BY DEF IdsOf
  <2> QED
    BY <2>1 DEF Find
<1>2. ASSUME Unique(objs), NEW o \in ObjectsOf(objs)
      PROVE  Find(objs, o.id) = o
  <2>1. o.id \in IdsOf(objs)
    BY DEF IdsOf
  <2>2. Find(objs, o.id) \in ObjectsOf(objs) /\ Find(objs, o.id).id = o.id
    BY <1>1, <2>1
  <2>3. \A p, q \in ObjectsOf(objs) : p.id = q.id => p = q
    BY <1>2 DEF Unique, ObjectsOf
  <2> QED
    BY <2>2, <2>3
<1> QED
  BY <1>1, <1>2

-----------------------------------------------------------------------------
(* What a decision makes of an object *)

\* The checklist looks at what no decision changes, and at the evidence.
LEMMA ChecksOf ==
  ASSUME NEW o, NEW p,
         p.owner = o.owner, p.riskTier = o.riskTier, p.policies = o.policies,
         p.relationships = o.relationships, p.type = o.type, p.contract = o.contract,
         p.sideEffects = o.sideEffects, p.targetSystem = o.targetSystem,
         p.aiHarnessCertified, FailedChecks(o) \subseteq {"Certification evidence"}
  PROVE  FailedChecks(p) = {}
BY DEF FailedChecks

LEMMA StatesSame ==
  ASSUME NEW o \in RegistryObjects, NEW l, NEW a, NEW c, NEW e,
         o.lifecycleState = l, o.approvalState = a, o.aiHarnessCertified = c, o.evidence = e
  PROVE  [o EXCEPT !.lifecycleState = l, !.approvalState = a,
                   !.aiHarnessCertified = c, !.evidence = e] = o
BY DEF RegistryObjects

CertifiedBy(o, action) ==
    IF action = "certify" THEN TRUE
    ELSE IF action = "intake" THEN o.aiHarnessCertified ELSE FALSE

\* A decision sets the four states of an object, to the same whenever it is taken.
LEMMA DecidedStates ==
  ASSUME NEW action \in ReviewActions, NEW c \in BOOLEAN
  PROVE  \E l \in LifecycleStates, a \in ApprovalStates, e \in Evidence :
           /\ l # "draft"
           /\ \A q \in RegistryObjects : CertifiedBy(q, action) = c =>
                Decided(q, action) = [q EXCEPT !.lifecycleState = l, !.approvalState = a,
                                               !.aiHarnessCertified = c, !.evidence = e]
<1>1. CASE action = "intake"
  <2>1. /\ "pending_approval" \in LifecycleStates \ {"draft"}
        /\ "pending" \in ApprovalStates /\ "intake_here" \in Evidence
    BY DEF LifecycleStates, ApprovalStates, Evidence
  <2>2. ASSUME NEW q \in RegistryObjects, CertifiedBy(q, action) = c
        PROVE  Decided(q, action) =
                 [q EXCEPT !.lifecycleState = "pending_approval", !.approvalState = "pending",
                           !.aiHarnessCertified = c, !.evidence = "intake_here"]
    <3>1. q.aiHarnessCertified = c
      BY <1>1, <2>2 DEF CertifiedBy, RegistryObjects
    <3>2. Decided(q, action) =
            [q EXCEPT !.lifecycleState = "pending_approval", !.approvalState = "pending",
                      !.evidence = "intake_here"]
      BY <1>1 DEF Decided
    <3> QED
      BY <3>1, <3>2 DEF RegistryObjects
  <2> QED
    BY <2>1, <2>2
<1>2. CASE action = "certify"
  <2>1. /\ "active" \in LifecycleStates \ {"draft"}
        /\ "approved" \in ApprovalStates /\ "certified_here" \in Evidence
    BY DEF LifecycleStates, ApprovalStates, Evidence
  <2>2. ASSUME NEW q \in RegistryObjects, CertifiedBy(q, action) = c
        PROVE  Decided(q, action) =
                 [q EXCEPT !.lifecycleState = "active", !.approvalState = "approved",
                           !.aiHarnessCertified = c, !.evidence = "certified_here"]
    <3>1. c = TRUE
      BY <1>2, <2>2 DEF CertifiedBy
    <3> QED
      BY <1>2, <3>1 DEF Decided
  <2> QED
    BY <2>1, <2>2
<1>3. CASE action = "block"
  <2>1. /\ "blocked" \in LifecycleStates \ {"draft"}
        /\ "blocked" \in ApprovalStates /\ "blocked_here" \in Evidence
    BY DEF LifecycleStates, ApprovalStates, Evidence
  <2>2. ASSUME NEW q \in RegistryObjects, CertifiedBy(q, action) = c
        PROVE  Decided(q, action) =
                 [q EXCEPT !.lifecycleState = "blocked", !.approvalState = "blocked",
                           !.aiHarnessCertified = c, !.evidence = "blocked_here"]
    <3>1. c = FALSE
      BY <1>3, <2>2 DEF CertifiedBy
    <3> QED
      BY <1>3, <3>1 DEF Decided
  <2> QED
    BY <2>1, <2>2
<1> QED
  BY <1>1, <1>2, <1>3 DEF ReviewActions

LEMMA DecidedObject ==
  ASSUME NEW o \in RegistryObjects, NEW action \in ReviewActions, NEW p, p = Decided(o, action)
  PROVE  /\ p \in RegistryObjects
         /\ p.id = o.id /\ p.type = o.type /\ p.owner = o.owner
         /\ p.riskTier = o.riskTier /\ p.policies = o.policies
         /\ p.relationships = o.relationships /\ p.contract = o.contract
         /\ p.sideEffects = o.sideEffects /\ p.targetSystem = o.targetSystem
         /\ p.lifecycleState # "draft"
         /\ p.aiHarnessCertified = CertifiedBy(o, action)
         /\ Decided(p, action) = p
<1>0. CertifiedBy(o, action) \in BOOLEAN
  BY DEF CertifiedBy, RegistryObjects
<1>1. PICK c \in BOOLEAN : c = CertifiedBy(o, action)
  BY <1>0
<1>2. PICK l \in LifecycleStates, a \in ApprovalStates, e \in Evidence :
        /\ l # "draft"
        /\ \A q \in RegistryObjects : CertifiedBy(q, action) = c =>
             Decided(q, action) = [q EXCEPT !.lifecycleState = l, !.approvalState = a,
                                            !.aiHarnessCertified = c, !.evidence = e]
  BY DecidedStates
<1>3. p = [o EXCEPT !.lifecycleState = l, !.approvalState = a,
                    !.aiHarnessCertified = c, !.evidence = e]
  BY <1>1, <1>2
<1>4. /\ p \in RegistryObjects
      /\ p.id = o.id /\ p.type = o.type /\ p.owner = o.owner
      /\ p.riskTier = o.riskTier /\ p.policies = o.policies
      /\ p.relationships = o.relationships /\ p.contract = o.contract
      /\ p.sideEffects = o.sideEffects /\ p.targetSystem = o.targetSystem
      /\ p.lifecycleState = l /\ p.approvalState = a
      /\ p.aiHarnessCertified = c /\ p.evidence = e
  BY <1>3 DEF RegistryObjects
<1>5. CertifiedBy(p, action) = c
  BY <1>1, <1>4 DEF CertifiedBy
<1>6. Decided(p, action) = [p EXCEPT !.lifecycleState = l, !.approvalState = a,
                                     !.aiHarnessCertified = c, !.evidence = e]
  BY <1>2, <1>4, <1>5
<1>7. Decided(p, action) = p
  BY <1>4, <1>6, StatesSame
<1> QED
  BY <1>1, <1>2, <1>4, <1>7

\* A decision that the page takes keeps the certified objects ready.
LEMMA DecidedReady ==
  ASSUME NEW o \in RegistryObjects, NEW action \in ReviewActions, NEW p, p = Decided(o, action),
         action = "certify" => CanCertify(o),
         o.aiHarnessCertified => FailedChecks(o) = {}
  PROVE  p.aiHarnessCertified => FailedChecks(p) = {}
<1>1. /\ p.owner = o.owner /\ p.type = o.type /\ p.riskTier = o.riskTier
      /\ p.policies = o.policies /\ p.relationships = o.relationships
      /\ p.contract = o.contract /\ p.sideEffects = o.sideEffects
      /\ p.targetSystem = o.targetSystem
      /\ p.aiHarnessCertified = CertifiedBy(o, action)
  BY DecidedObject
<1>2. p.aiHarnessCertified => action = "certify" \/ o.aiHarnessCertified
  BY <1>1 DEF CertifiedBy
<1>3. ASSUME p.aiHarnessCertified PROVE FailedChecks(p) = {}
  <2>1. FailedChecks(o) \subseteq {"Certification evidence"}
    BY <1>2, <1>3 DEF CanCertify
  <2> QED
    BY <1>1, <1>3, <2>1, ChecksOf
<1> QED
  BY <1>3

-----------------------------------------------------------------------------
(* What the operations make of a list of objects *)

\* The seeds are such a list.
LEMMA SeedsOK == Book(Seeds) /\ Seeds # <<>>
<1>1. Seeds \in Seq(RegistryObjects) /\ Unique(Seeds) /\ Seeds # <<>>
  BY DEF WellFormed, Unique
<1>2. ASSUME NEW o \in ObjectsOf(Seeds)
      PROVE  /\ o.aiHarnessCertified => FailedChecks(o) = {} /\ o.lifecycleState # "draft"
             /\ o.id \in SeedIds /\ LikeSeed(o)
  BY DEF WellFormed, SeedIds, IdsOf, LikeSeed
<1> QED
  BY <1>1, <1>2 DEF Book

\* Some of a list: the drafts, or the seeds.
LEMMA BookPart ==
  ASSUME NEW objs, Book(objs), NEW K \in SUBSET (DOMAIN objs),
         \/ \A i \in DOMAIN objs : i \in K <=> objs[i].id \notin SeedIds
         \/ \A i \in DOMAIN objs : i \in K <=> objs[i].id \in SeedIds
  PROVE  /\ Book(Pick(objs, K))
         /\ ObjectsOf(Pick(objs, K)) = {objs[i] : i \in K}
<1> DEFINE r == Pick(objs, K)
<1>1. /\ r \in Seq(RegistryObjects) /\ Unique(r)
      /\ ObjectsOf(r) = {objs[i] : i \in K}
  BY Selecting, SelectingUnique DEF Book
<1> HIDE DEF r
<1>2. \A o \in ObjectsOf(r) : o \in ObjectsOf(objs)
  BY <1>1 DEF ObjectsOf
<1>3. ASSUME NEW o \in ObjectsOf(r), o.id \notin SeedIds
      PROVE  LinksOK(r, o)
  <2>1. LinksOK(objs, o)
    BY <1>2, <1>3 DEF Book
  <2>2. \A i \in DOMAIN objs : i \in K <=> objs[i].id \notin SeedIds
    BY <1>1, <1>3
  <2>3. \A p \in ObjectsOf(objs) : p.id \notin SeedIds => p \in ObjectsOf(r)
    BY <1>1, <2>2 DEF ObjectsOf
  <2>4. IdsOf(objs) \subseteq IdsOf(r) \cup SeedIds
    BY <2>3 DEF IdsOf
  <2>5. ASSUME NEW type, HasLink(objs, o, type)
        PROVE  HasLink(r, o, type)
    <3>1. PICK p \in ObjectsOf(objs) \cup ObjectsOf(Seeds) : p.type = type /\ p.id \in o.relationships
      BY <2>5 DEF HasLink
    <3>2. CASE p \in ObjectsOf(Seeds) \/ p.id \notin SeedIds
      BY <2>3, <3>1, <3>2 DEF HasLink
    <3>3. CASE p \notin ObjectsOf(Seeds) /\ p.id \in SeedIds
      <4>1. LikeSeed(p)
        BY <3>1, <3>3 DEF Book
      <4> QED
        BY <3>1, <4>1 DEF LikeSeed, HasLink
    <3> QED
      BY <3>2, <3>3
  <2> QED
    BY <2>1, <2>4, <2>5 DEF LinksOK
<1>4. Book(r)
  BY <1>1, <1>2, <1>3 DEF Book
<1> QED
  BY <1>1, <1>4 DEF r

LEMMA BookDrafts ==
  ASSUME NEW objs, Book(objs)
  PROVE  /\ Book(Drafts(objs))
         /\ ObjectsOf(Drafts(objs)) = {o \in ObjectsOf(objs) : o.id \notin SeedIds}
<1> DEFINE K == {i \in DOMAIN objs : objs[i].id \notin SeedIds}
<1>1. Drafts(objs) = Pick(objs, K)
  BY DEF Drafts, Where
<1>2. Book(Pick(objs, K)) /\ ObjectsOf(Pick(objs, K)) = {objs[i] : i \in K}
  BY BookPart
<1> QED
  BY <1>1, <1>2 DEF ObjectsOf

LEMMA BookSeeds ==
  ASSUME NEW objs, Book(objs), NEW r, r = Where(objs, LAMBDA o : o.id \in SeedIds)
  PROVE  /\ Book(r)
         /\ ObjectsOf(r) = {o \in ObjectsOf(objs) : o.id \in SeedIds}
<1> DEFINE K == {i \in DOMAIN objs : objs[i].id \in SeedIds}
<1>1. r = Pick(objs, K)
  BY DEF Where
<1>2. Book(Pick(objs, K)) /\ ObjectsOf(Pick(objs, K)) = {objs[i] : i \in K}
  BY BookPart
<1> QED
  BY <1>1, <1>2 DEF ObjectsOf

\* Drafts in front of the seeds, as a load of the page puts them.
LEMMA BookLoaded ==
  ASSUME NEW stored, Book(stored), \A o \in ObjectsOf(stored) : o.id \notin SeedIds
  PROVE  /\ LoadDrafts(stored) = stored
         /\ Book(stored \o Seeds) /\ Drafts(stored \o Seeds) = stored
         /\ ObjectsOf(stored \o Seeds) = ObjectsOf(stored) \cup ObjectsOf(Seeds)
<1> DEFINE r == stored \o Seeds
           n == Len(stored)
<1>1. /\ stored \in Seq(RegistryObjects) /\ Seeds \in Seq(RegistryObjects)
      /\ Unique(stored) /\ Unique(Seeds) /\ Book(Seeds)
  BY SeedsOK DEF Book
<1>2. /\ n \in Nat /\ DOMAIN stored = 1 .. n
      /\ Len(Seeds) \in Nat /\ DOMAIN Seeds = 1 .. Len(Seeds)
  BY <1>1, LenProperties
<1>3. /\ r \in Seq(RegistryObjects) /\ Len(r) = n + Len(Seeds)
      /\ DOMAIN r = 1 .. n + Len(Seeds)
      /\ \A i \in 1 .. n + Len(Seeds) : r[i] = IF i <= n THEN stored[i] ELSE Seeds[i - n]
  BY <1>1, ConcatProperties, LenProperties
<1> HIDE DEF r, n
<1>4. /\ \A i \in 1 .. n : i \in DOMAIN r /\ r[i] = stored[i]
      /\ \A i \in DOMAIN r : i \notin 1 .. n => i - n \in DOMAIN Seeds /\ r[i] = Seeds[i - n]
      /\ \A i \in DOMAIN Seeds : n + i \in DOMAIN r /\ r[n + i] = Seeds[i]
  BY <1>2, <1>3
<1>5. ObjectsOf(r) = ObjectsOf(stored) \cup ObjectsOf(Seeds)
  BY <1>2, <1>4 DEF ObjectsOf
<1>6. /\ \A i \in 1 .. n : stored[i].id \notin SeedIds
      /\ \A i \in DOMAIN Seeds : Seeds[i].id \in SeedIds
  BY <1>2 DEF ObjectsOf, SeedIds, IdsOf
<1>7. Unique(r)
  <2> SUFFICES ASSUME NEW i \in DOMAIN r, NEW j \in DOMAIN r, r[i].id = r[j].id
               PROVE  i = j
    BY DEF Unique
  <2>1. i \in 1 .. n <=> j \in 1 .. n
    BY <1>4, <1>6
  <2>2. CASE i \in 1 .. n
    BY <1>1, <1>2, <1>4, <2>1, <2>2 DEF Unique
  <2>3. CASE i \notin 1 .. n
    <3>1. i - n = j - n
      BY <1>1, <1>4, <2>1, <2>3 DEF Unique
    <3> QED
      BY <1>2, <1>3, <3>1
  <2> QED
    BY <2>2, <2>3
<1>8. ASSUME NEW o \in ObjectsOf(stored)
      PROVE  LinksOK(r, o)
  <2>1. LinksOK(stored, o)
    BY DEF Book
  <2> QED
    BY <1>5, <2>1 DEF LinksOK, HasLink, IdsOf
<1>9. Book(r)
  <2>1. ASSUME NEW o \in ObjectsOf(r)
        PROVE  /\ o.aiHarnessCertified => FailedChecks(o) = {} /\ o.lifecycleState # "draft"
               /\ o.id \in SeedIds => LikeSeed(o)
               /\ o.id \notin SeedIds => IsRegistryObject(o) /\ LinksOK(r, o)
    <3>1. CASE o \in ObjectsOf(stored)
      BY <1>8, <3>1 DEF Book
    <3>2. CASE o \in ObjectsOf(Seeds)
      <4>1. o.id \in SeedIds
        BY <3>2 DEF SeedIds, IdsOf
      <4> QED
        BY <1>1, <3>2, <4>1 DEF Book
    <3> QED
      BY <1>5, <3>1, <3>2
  <2> QED
    BY <1>3, <1>7, <2>1 DEF Book
<1>10. LoadDrafts(stored) = stored
  <2>1. {i \in DOMAIN stored : IsRegistryObject(stored[i])} = 1 .. n
    BY <1>2 DEF Book, ObjectsOf
  <2>2. LoadDrafts(stored) = Pick(stored, 1 .. n)
    BY <2>1 DEF LoadDrafts, Where
  <2> QED
    BY <1>1, <1>2, <2>2, PickPrefix DEF n
<1>11. Drafts(r) = stored
  <2>1. {i \in DOMAIN r : r[i].id \notin SeedIds} = 1 .. n
    BY <1>4, <1>6
  <2>2. Drafts(r) = Pick(r, 1 .. n)
    BY <2>1 DEF Drafts, Where
  <2>3. Len(stored) <= Len(r) /\ \A i \in DOMAIN stored : r[i] = stored[i]
    BY <1>2, <1>3, <1>4 DEF n
  <2> QED
    BY <1>1, <1>3, <2>2, <2>3, PickPrefix DEF n
<1> QED
  BY <1>5, <1>9, <1>10, <1>11 DEF r

\* A review of one of them.
LEMMA BookReviewed ==
  ASSUME NEW objs, Book(objs), NEW item \in ObjectsOf(objs), NEW action \in ReviewActions,
         action = "certify" => CanCertify(item), NEW r,
         r = [i \in DOMAIN objs |-> IF objs[i] = item THEN Decided(item, action) ELSE objs[i]]
  PROVE  /\ Book(r) /\ IdsOf(r) = IdsOf(objs)
         /\ \A o \in ObjectsOf(r) :
              IF o.id = item.id THEN o = Decided(item, action) ELSE o \in ObjectsOf(objs)
         /\ \A o \in ObjectsOf(objs) : o.id # item.id => o \in ObjectsOf(r)
<1> DEFINE d == Decided(item, action)
<1>1. /\ objs \in Seq(RegistryObjects) /\ Unique(objs) /\ item \in RegistryObjects
      /\ Len(objs) \in Nat /\ DOMAIN objs = 1 .. Len(objs)
      /\ \A o \in ObjectsOf(objs) : o \in RegistryObjects
  BY Listed DEF Book
<1>2. /\ d \in RegistryObjects
      /\ d.id = item.id /\ d.type = item.type /\ d.owner = item.owner
      /\ d.riskTier = item.riskTier /\ d.relationships = item.relationships
      /\ d.lifecycleState # "draft"
  BY <1>1, DecidedObject
<1>3. d.aiHarnessCertified => FailedChecks(d) = {}
  BY <1>1, DecidedReady DEF Book
<1> HIDE DEF d
<1>4. /\ DOMAIN r = DOMAIN objs
      /\ \A i \in DOMAIN objs : r[i] = IF objs[i] = item THEN d ELSE objs[i]
  BY DEF d
<1>5. /\ \A i \in DOMAIN objs : objs[i] \in RegistryObjects /\ objs[i] \in ObjectsOf(objs)
      /\ \A i \in DOMAIN objs : r[i].id = objs[i].id /\ r[i].type = objs[i].type
                                /\ r[i].relationships = objs[i].relationships
  BY <1>1, <1>2, <1>4, Listed
<1>6. r \in Seq(RegistryObjects)
  <2>1. r \in [1 .. Len(objs) -> RegistryObjects]
    <3>1. \A i \in 1 .. Len(objs) : r[i] \in RegistryObjects
      BY <1>1, <1>2, <1>4, <1>5
    <3>2. r = [i \in 1 .. Len(objs) |-> r[i]]
      BY <1>1
    <3> QED
      BY <3>1, <3>2
  <2> QED
    BY <1>1, <2>1, SeqDef
<1>7. Unique(r)
  BY <1>1, <1>4, <1>5 DEF Unique
<1>8. \A o \in ObjectsOf(r) : \E i \in DOMAIN objs : o = r[i]
  BY <1>4 DEF ObjectsOf
<1>9. IdsOf(r) = IdsOf(objs)
  BY <1>4, <1>5 DEF IdsOf, ObjectsOf
<1>10. ASSUME NEW o, NEW type, HasLink(objs, o, type)
       PROVE  HasLink(r, o, type)
  <2>1. PICK p \in ObjectsOf(objs) \cup ObjectsOf(Seeds) : p.type = type /\ p.id \in o.relationships
    BY <1>10 DEF HasLink
  <2>2. CASE p \in ObjectsOf(Seeds)
    BY <2>1, <2>2 DEF HasLink
  <2>3. CASE p \in ObjectsOf(objs)
    <3>1. PICK i \in DOMAIN objs : p = objs[i]
      BY <2>3 DEF ObjectsOf
    <3>2. r[i] \in ObjectsOf(r) /\ r[i].id = p.id /\ r[i].type = p.type
      BY <1>4, <1>5, <3>1 DEF ObjectsOf
    <3> QED
      BY <2>1, <3>2 DEF HasLink
  <2> QED
    BY <2>1, <2>2, <2>3
<1>11. ASSUME NEW i \in DOMAIN objs
       PROVE  /\ r[i].aiHarnessCertified => FailedChecks(r[i]) = {} /\ r[i].lifecycleState # "draft"
              /\ r[i].id \in SeedIds => LikeSeed(r[i])
              /\ r[i].id \notin SeedIds => IsRegistryObject(r[i]) /\ LinksOK(r, r[i])
  <2> DEFINE o == objs[i]
  <2>1. /\ o \in RegistryObjects
        /\ o.aiHarnessCertified => FailedChecks(o) = {} /\ o.lifecycleState # "draft"
        /\ o.id \in SeedIds => LikeSeed(o)
        /\ o.id \notin SeedIds => IsRegistryObject(o) /\ LinksOK(objs, o)
    BY <1>5 DEF Book
  <2>2. /\ r[i].id = o.id /\ r[i].type = o.type /\ r[i].relationships = o.relationships
        /\ r[i] \in {o, d}
    BY <1>4, <1>5
  <2> HIDE DEF o
  <2>3. r[i].aiHarnessCertified => FailedChecks(r[i]) = {} /\ r[i].lifecycleState # "draft"
    BY <1>2, <1>3, <2>1, <2>2
  <2>4. r[i].id \in SeedIds => LikeSeed(r[i])
    BY <2>1, <2>2 DEF LikeSeed
  <2>5. LinksOK(objs, o) => LinksOK(r, r[i])
    <3>1. \A type : HasLink(objs, o, type) => HasLink(r, r[i], type)
      BY <1>10, <2>2 DEF HasLink
    <3> QED
      BY <1>9, <2>2, <3>1 DEF LinksOK
  <2>6. IsRegistryObject(o) => IsRegistryObject(r[i])
    <3>1. r[i] = o \/ (r[i] = d /\ o = item)
      BY <1>4 DEF o
    <3>2. "" \notin LifecycleStates
      BY DEF LifecycleStates
    <3>3. d.lifecycleState \in LifecycleStates
      BY <1>2 DEF RegistryObjects
    <3>4. CASE r[i] = o
      BY <3>4
    <3>5. CASE r[i] = d /\ o = item
      <4>1. d.lifecycleState # ""
        BY <3>2, <3>3
      <4> QED
        BY <1>2, <3>5, <4>1 DEF IsRegistryObject
    <3> QED
      BY <3>1, <3>4, <3>5
  <2> QED
    BY <2>1, <2>2, <2>3, <2>4, <2>5, <2>6
<1>12. Book(r)
  BY <1>6, <1>7, <1>8, <1>11 DEF Book
<1>13. ASSUME NEW o \in ObjectsOf(r)
       PROVE  IF o.id = item.id THEN o = d ELSE o \in ObjectsOf(objs)
  <2>1. PICK i \in DOMAIN objs : o = r[i]
    BY <1>8
  <2>2. PICK j \in DOMAIN objs : item = objs[j]
    BY DEF ObjectsOf
  <2>3. o.id = item.id <=> objs[i] = item
    BY <1>1, <1>5, <2>1, <2>2 DEF Unique
  <2> QED
    BY <1>4, <1>5, <2>1, <2>3
<1>14. ASSUME NEW o \in ObjectsOf(objs), o.id # item.id
       PROVE  o \in ObjectsOf(r)
  BY <1>4, <1>14 DEF ObjectsOf
<1> QED
  BY <1>9, <1>12, <1>13, <1>14 DEF d

\* A registration that passes the validation.
LEMMA BookRegistered ==
  ASSUME Book(objects), NEW form \in Forms, ValidateRegistrationForm(form) = {},
         SeedIds \subseteq IdsOf(objects), NEW d, d = Draft(form), NEW r, r = <<d>> \o objects
  PROVE  /\ Book(r) /\ ObjectsOf(r) = {d} \cup ObjectsOf(objects)
         /\ d.id \notin IdsOf(objects) /\ d.lifecycleState = "draft"
<1>1. /\ form.id \in STRING /\ form.type \in Types /\ form.owner \in STRING
      /\ form.riskTier \in RiskTiers /\ form.policies \in SUBSET STRING
      /\ form.relationships \in SUBSET STRING
      /\ form.sideEffects \in Texts /\ form.targetSystem \in Texts
  BY DEF Registrations
<1>2. NormalizeId(form.id) \in STRING
  BY <1>1 DEF NormalizeId
<1>3. d \in RegistryObjects
  <2>1. "draft" \in LifecycleStates /\ "pending" \in ApprovalStates /\ "requires_review" \in Evidence
    BY DEF LifecycleStates, ApprovalStates, Evidence
  <2>2. "" \in Texts
    BY DEF Texts
  <2> QED
    BY <1>1, <1>2, <2>1, <2>2 DEF Draft, RegistryObjects
<1>4. /\ d.id = NormalizeId(form.id) /\ d.type = form.type /\ d.owner = form.owner
      /\ d.riskTier = form.riskTier /\ d.relationships = form.relationships
      /\ d.lifecycleState = "draft" /\ d.aiHarnessCertified = FALSE
  BY DEF Draft
<1>5. /\ IdErrors(NormalizeId(form.id)) = {} /\ LinkErrors(form) = {}
      /\ form.owner # ""
  BY DEF ValidateRegistrationForm
<1>6. d.id # "" /\ d.id \notin IdsOf(objects)
  BY <1>4, <1>5 DEF IdErrors
<1>7. /\ form.relationships \subseteq IdsOf(objects)
      /\ form.type = "agent" => LinksTo(form, "skill")
      /\ form.type = "skill" => LinksTo(form, "tool")
  BY <1>5 DEF LinkErrors
<1>8. objects \in Seq(RegistryObjects) /\ Len(objects) \in Nat /\ DOMAIN objects = 1 .. Len(objects)
  BY Listed DEF Book
<1>9. /\ r \in Seq(RegistryObjects) /\ DOMAIN r = 1 .. Len(objects) + 1
      /\ r[1] = d /\ \A i \in DOMAIN objects : i + 1 \in DOMAIN r /\ r[i + 1] = objects[i]
      /\ \A i \in DOMAIN r : i # 1 => i - 1 \in DOMAIN objects /\ r[i] = objects[i - 1]
  <2>1. <<d>> \in Seq(RegistryObjects) /\ Len(<<d>>) = 1 /\ <<d>>[1] = d
    BY <1>3
  <2>2. /\ r \in Seq(RegistryObjects) /\ Len(r) = 1 + Len(objects)
        /\ \A i \in 1 .. 1 + Len(objects) : r[i] = IF i <= 1 THEN <<d>>[i] ELSE objects[i - 1]
    BY <1>8, <2>1, ConcatProperties
  <2>3. DOMAIN r = 1 .. Len(objects) + 1
    BY <1>8, <2>2, LenProperties
  <2> QED
    BY <1>8, <2>1, <2>2, <2>3
<1>10. ObjectsOf(r) = {d} \cup ObjectsOf(objects)
  <2>1. 1 \in DOMAIN r
    BY <1>8, <1>9
  <2>2. \A i \in DOMAIN r : r[i] = d \/ r[i] \in ObjectsOf(objects)
    BY <1>9 DEF ObjectsOf
  <2>3. d \in ObjectsOf(r) /\ \A i \in DOMAIN objects : objects[i] \in ObjectsOf(r)
    BY <1>9, <2>1 DEF ObjectsOf
  <2>4. /\ \A x \in ObjectsOf(r) : \E i \in DOMAIN r : x = r[i]
        /\ \A x \in ObjectsOf(objects) : \E i \in DOMAIN objects : x = objects[i]
    BY DEF ObjectsOf
  <2> QED
    BY <2>2, <2>3, <2>4
<1>11. Unique(r)
  <2> SUFFICES ASSUME NEW i \in DOMAIN r, NEW j \in DOMAIN r, r[i].id = r[j].id
               PROVE  i = j
    BY DEF Unique
  <2>1. \A k \in DOMAIN objects : objects[k].id # d.id
    BY <1>6 DEF IdsOf, ObjectsOf
  <2>2. CASE i = 1 \/ j = 1
    BY <1>9, <2>1, <2>2
  <2>3. CASE i # 1 /\ j # 1
    <3>1. i - 1 = j - 1
      BY <1>9, <2>3 DEF Book, Unique
    <3> QED
      BY <1>8, <1>9, <3>1
  <2> QED
    BY <2>2, <2>3
<1>12. /\ IdsOf(objects) \subseteq IdsOf(r)
       /\ \A o, type : HasLink(objects, o, type) => HasLink(r, o, type)
  BY <1>10 DEF IdsOf, HasLink
<1>13. LinksOK(r, d)
  <2>1. \A type : LinksTo(form, type) => HasLink(r, d, type)
    BY <1>4, <1>10 DEF LinksTo, HasLink
  <2> QED
    BY <1>4, <1>7, <1>12, <2>1 DEF LinksOK
<1>14. IsRegistryObject(d)
  <2>1. "" \notin Types /\ "" \notin RiskTiers
    BY DEF Types, RiskTiers
  <2> QED
    BY <1>1, <1>4, <1>5, <1>6, <2>1 DEF IsRegistryObject
<1>15. ASSUME NEW o \in ObjectsOf(r)
       PROVE  /\ o.aiHarnessCertified => FailedChecks(o) = {} /\ o.lifecycleState # "draft"
              /\ o.id \in SeedIds => LikeSeed(o)
              /\ o.id \notin SeedIds => IsRegistryObject(o) /\ LinksOK(r, o)
  <2>1. CASE o = d
    BY <1>4, <1>6, <1>13, <1>14, <2>1
  <2>2. CASE o \in ObjectsOf(objects)
    BY <1>12, <2>2 DEF Book, LinksOK
  <2> QED
    BY <1>10, <2>1, <2>2
<1>16. Book(r)
  BY <1>9, <1>11, <1>15 DEF Book
<1> QED
  BY <1>4, <1>6, <1>10, <1>16

-----------------------------------------------------------------------------
(* The page and its storage *)

EventsUpTo(n) == [objectId : STRING, action : ReviewActions, load : 1 .. n]

ViewOK(v) ==
    /\ DOMAIN v = {"type", "risk", "certification", "query", "selectedId",
                   "showRegistration", "inError"}
    /\ v.type \in Types \cup {"all"} /\ v.query \in Queries

PageInv ==
    /\ load \in 1 .. MaxLoads /\ faults \in 0 .. MaxFaults
    /\ events \in Seq(EventsUpTo(load)) /\ storage.events \in Seq(EventsUpTo(load))
    /\ Book(objects) /\ SeedIds \subseteq IdsOf(objects)
    /\ Book(storage.drafts) /\ \A o \in ObjectsOf(storage.drafts) : o.id \notin SeedIds
    /\ ViewOK(view)

\* A handler stores the lists it has made, or leaves the ones that were there.
LEMMA Storing ==
  ASSUME PageInv, NEW writes \in {1, 2}, NEW written \in Succeeding(writes),
         Stores(writes, written), Book(objects'), events' \in Seq(EventsUpTo(load))
  PROVE  /\ load' = load /\ faults' \in 0 .. MaxFaults
         /\ storage'.events \in Seq(EventsUpTo(load))
         /\ Book(storage'.drafts) /\ \A o \in ObjectsOf(storage'.drafts) : o.id \notin SeedIds
         /\ faults' = 0 => faults = 0 /\ written = writes
<1>1. /\ storage' = [drafts |-> IF written >= 1 THEN Drafts(objects') ELSE storage.drafts,
                     events |-> IF written >= 2 THEN events' ELSE storage.events]
      /\ load' = load /\ faults' = faults + (IF written < writes THEN 1 ELSE 0)
  BY DEF Stores, Saved
<1>2. /\ storage'.events \in {events', storage.events}
      /\ storage'.drafts \in {Drafts(objects'), storage.drafts}
  BY <1>1
<1>3. /\ Book(Drafts(objects'))
      /\ \A o \in ObjectsOf(Drafts(objects')) : o.id \notin SeedIds
  BY BookDrafts
<1>4. /\ Book(storage'.drafts) /\ \A o \in ObjectsOf(storage'.drafts) : o.id \notin SeedIds
      /\ storage'.events \in Seq(EventsUpTo(load))
  BY <1>2, <1>3 DEF PageInv
<1>5. faults \in Nat /\ written \in 0 .. writes /\ (faults < MaxFaults \/ written = writes)
  BY DEF Succeeding, PageInv
<1>6. /\ faults' \in 0 .. MaxFaults
      /\ faults' = 0 => faults = 0 /\ written = writes
  BY <1>1, <1>5 DEF PageInv
<1> QED
  BY <1>1, <1>4, <1>6

\* What a load of the page finds.
LEMMA Loading ==
  ASSUME NEW st, Book(st.drafts), \A o \in ObjectsOf(st.drafts) : o.id \notin SeedIds
  PROVE  /\ Loaded(st).objects = st.drafts \o Seeds /\ Loaded(st).events = st.events
         /\ Loaded(st).screen = Screen(Loaded(st).objects, Loaded(st).view)
         /\ Book(st.drafts \o Seeds) /\ Drafts(st.drafts \o Seeds) = st.drafts
         /\ ObjectsOf(st.drafts \o Seeds) = ObjectsOf(st.drafts) \cup ObjectsOf(Seeds)
         /\ SeedIds \subseteq IdsOf(st.drafts \o Seeds)
         /\ ViewOK(Loaded(st).view)
<1>1. /\ LoadDrafts(st.drafts) = st.drafts
      /\ Book(st.drafts \o Seeds) /\ Drafts(st.drafts \o Seeds) = st.drafts
      /\ ObjectsOf(st.drafts \o Seeds) = ObjectsOf(st.drafts) \cup ObjectsOf(Seeds)
  BY BookLoaded
<1>2. /\ Loaded(st).objects = st.drafts \o Seeds /\ Loaded(st).events = st.events
      /\ Loaded(st).screen = Screen(Loaded(st).objects, Loaded(st).view)
      /\ ViewOK(Loaded(st).view)
  BY <1>1 DEF Loaded, ViewOK, Types
<1>3. SeedIds \subseteq IdsOf(st.drafts \o Seeds)
  BY <1>1 DEF SeedIds, IdsOf
<1> QED
  BY <1>1, <1>2, <1>3

LEMMA EmptyBook == Book(<<>>) /\ ObjectsOf(<<>>) = {}
BY DEF Book, Unique, ObjectsOf

LEMMA PageInit == Init => PageInv
<1> SUFFICES ASSUME Init PROVE PageInv
  OBVIOUS
<1>1. /\ storage.drafts = <<>> /\ storage.events = <<>>
      /\ objects = Loaded(storage).objects /\ events = Loaded(storage).events
      /\ view = Loaded(storage).view /\ load = 1 /\ faults = 0
  BY DEF Init
<1>2. Book(storage.drafts) /\ ObjectsOf(storage.drafts) = {}
  BY <1>1, EmptyBook
<1>3. /\ Book(objects) /\ SeedIds \subseteq IdsOf(objects) /\ ViewOK(view)
      /\ events = <<>>
  BY <1>1, <1>2, Loading
<1>4. load \in 1 .. MaxLoads /\ faults \in 0 .. MaxFaults
  BY <1>1
<1>5. <<>> \in Seq(EventsUpTo(load))
  BY EmptySeq
<1> QED
  BY <1>1, <1>2, <1>3, <1>4, <1>5 DEF PageInv

\* The steps that only look.
Looks == UNCHANGED <<objects, events, storage, load, faults>>

LEMMA LookingPage ==
  ASSUME PageInv, Looks, ViewOK(view')
  PROVE  PageInv'
BY DEF PageInv, Looks

LEMMA ViewSet ==
  ASSUME NEW v, ViewOK(v), NEW id, NEW a, NEW b
  PROVE  /\ ViewOK([v EXCEPT !.selectedId = id])
         /\ ViewOK([v EXCEPT !.inError = a, !.showRegistration = b])
         /\ ViewOK([v EXCEPT !.risk = id]) /\ ViewOK([v EXCEPT !.certification = id])
         /\ \A type \in Types \cup {"all"} : ViewOK([v EXCEPT !.type = type])
         /\ \A query \in Queries : ViewOK([v EXCEPT !.query = query])
BY DEF ViewOK

\* The page is drawn anew: the last step of each of them.
Draws == screen' = Screen(objects', view')

LEMMA LookingSteps ==
  ASSUME PageInv,
         \/ \E form \in Forms : RefuseRegistration(form)
         \/ NewRegistration \/ CancelRegistration
         \/ \E type \in Types \cup {"all"} : ChooseTab(type)
         \/ \E query \in Queries : Search(query)
         \/ \E risk \in Risks \cup {"all"} : FilterRisk(risk)
         \/ \E c \in {"all", "certified", "not_certified"} : FilterCertification(c)
         \/ \E button \in screen : Select(button[1])
  PROVE  Looks /\ ViewOK(view') /\ Draws
<1>0. ViewOK(view)
  BY DEF PageInv
<1>1. \A v, other : ViewOK(v) /\ Filter(v, other) => Looks /\ ViewOK(view') /\ Draws
  <2> SUFFICES ASSUME NEW v, NEW other, ViewOK(v), Filter(v, other)
               PROVE  Looks /\ ViewOK(view') /\ Draws
    OBVIOUS
  <2>1. PICK id : Narrowed(v, other) = [v EXCEPT !.selectedId = id]
    BY DEF Narrowed
  <2>2. ViewOK(Narrowed(v, other))
    BY <2>1 DEF ViewOK
  <2> QED
    BY <2>2 DEF Filter, Shows, Looks, Draws
<1>2. ASSUME NEW form \in Forms, RefuseRegistration(form)
      PROVE  Looks /\ ViewOK(view') /\ Draws
  BY <1>0, <1>2, ViewSet DEF RefuseRegistration, Looks, Draws
<1>3. CASE NewRegistration
  BY <1>0, <1>3, ViewSet DEF NewRegistration, Shows, Looks, Draws
<1>4. CASE CancelRegistration
  BY <1>0, <1>4, ViewSet DEF CancelRegistration, Shows, Looks, Draws
<1>5. ASSUME NEW type \in Types \cup {"all"}, ChooseTab(type)
      PROVE  Looks /\ ViewOK(view') /\ Draws
  BY <1>0, <1>1, <1>5, ViewSet DEF ChooseTab
<1>6. ASSUME NEW query \in Queries, Search(query)
      PROVE  Looks /\ ViewOK(view') /\ Draws
  BY <1>0, <1>1, <1>6, ViewSet DEF Search
<1>7. ASSUME NEW risk, FilterRisk(risk)
      PROVE  Looks /\ ViewOK(view') /\ Draws
  BY <1>0, <1>1, <1>7, ViewSet DEF FilterRisk
<1>8. ASSUME NEW c, FilterCertification(c)
      PROVE  Looks /\ ViewOK(view') /\ Draws
  BY <1>0, <1>1, <1>8, ViewSet DEF FilterCertification
<1>9. ASSUME NEW id, Select(id)
      PROVE  Looks /\ ViewOK(view') /\ Draws
  BY <1>0, <1>9, ViewSet DEF Select, Shows, Looks, Draws
<1> QED
  BY <1>2, <1>3, <1>4, <1>5, <1>6, <1>7, <1>8, <1>9

LEMMA Prepended ==
  ASSUME NEW S, NEW s \in Seq(S), NEW x \in S
  PROVE  /\ <<x>> \o s \in Seq(S) /\ (<<x>> \o s)[1] = x
         /\ Len(<<x>> \o s) = Len(s) + 1 /\ Len(s) \in Nat
         /\ DOMAIN (<<x>> \o s) = 1 .. Len(s) + 1 /\ DOMAIN s = 1 .. Len(s)
         /\ \A i \in 1 .. Len(s) : (<<x>> \o s)[i + 1] = s[i]
<1>1. <<x>> \in Seq(S) /\ Len(<<x>>) = 1 /\ <<x>>[1] = x
  OBVIOUS
<1>2. /\ <<x>> \o s \in Seq(S) /\ Len(<<x>> \o s) = 1 + Len(s)
      /\ \A i \in 1 .. 1 + Len(s) :
           (<<x>> \o s)[i] = IF i <= 1 THEN <<x>>[i] ELSE s[i - 1]
  BY <1>1, ConcatProperties
<1>3. Len(s) \in Nat /\ DOMAIN s = 1 .. Len(s)
  BY LenProperties
<1>4. DOMAIN (<<x>> \o s) = 1 .. Len(s) + 1
  BY <1>2, <1>3, LenProperties
<1> QED
  BY <1>1, <1>2, <1>3, <1>4

\* A reload.
LEMMA ReloadPage ==
  ASSUME PageInv, Reload
  PROVE  /\ PageInv' /\ Draws
         /\ load \in Nat /\ load' = load + 1 /\ faults' = faults /\ storage' = storage
         /\ objects' = storage.drafts \o Seeds /\ events' = storage.events
         /\ Drafts(objects') = storage.drafts
         /\ ObjectsOf(objects') = ObjectsOf(storage.drafts) \cup ObjectsOf(Seeds)
<1>1. /\ load' = load + 1 /\ faults' = faults /\ storage' = storage /\ load < MaxLoads
      /\ objects' = Loaded(storage).objects /\ events' = Loaded(storage).events
      /\ view' = Loaded(storage).view /\ screen' = Loaded(storage).screen
  BY DEF Reload
<1>2. /\ Book(storage.drafts) /\ \A o \in ObjectsOf(storage.drafts) : o.id \notin SeedIds
      /\ load \in 1 .. MaxLoads /\ storage.events \in Seq(EventsUpTo(load))
  BY DEF PageInv
<1>3. /\ objects' = storage.drafts \o Seeds /\ events' = storage.events
      /\ screen' = Screen(objects', view')
      /\ Book(objects') /\ Drafts(objects') = storage.drafts
      /\ ObjectsOf(objects') = ObjectsOf(storage.drafts) \cup ObjectsOf(Seeds)
      /\ SeedIds \subseteq IdsOf(objects') /\ ViewOK(view')
  BY <1>1, <1>2, Loading
<1>4. storage.events \in Seq(EventsUpTo(load'))
  <2>1. EventsUpTo(load) \subseteq EventsUpTo(load')
    BY <1>1, <1>2 DEF EventsUpTo
  <2> QED
    BY <1>2, <2>1, SeqMonotonic
<1>5. load' \in 1 .. MaxLoads /\ faults' \in 0 .. MaxFaults
  BY <1>1, <1>2 DEF PageInv
<1>6. PageInv'
  BY <1>1, <1>2, <1>3, <1>4, <1>5 DEF PageInv
<1>7. load \in Nat
  BY <1>2
<1>8. Drafts(objects') = storage.drafts
  BY <1>3
<1>9. Draws
  BY <1>3 DEF Draws
<1> QED
  BY <1>1, <1>3, <1>6, <1>7, <1>8, <1>9

\* A review of an object the page has.
Reviews(item, action) ==
    /\ item \in ObjectsOf(objects) /\ action \in ReviewActions
    /\ action = "certify" => CanCertify(item)
    /\ <<item.id, action>> \in screen
    /\ objects' = [i \in DOMAIN objects |->
                     IF objects[i] = item THEN Decided(item, action) ELSE objects[i]]
    /\ events' = <<CreateReviewEvent(item, action)>> \o events
    /\ view' = [view EXCEPT !.selectedId = item.id]
    /\ \E written \in Succeeding(2) : Stores(2, written)

LEMMA ReviewStep ==
  ASSUME PageInv, NEW id \in IdsOf(objects), NEW action \in ReviewActions,
         ApplyReviewDecision(id, action)
  PROVE  \/ Looks /\ ViewOK(view') /\ Draws
         \/ \E item \in ObjectsOf(objects) : Reviews(item, action)
<1> DEFINE item == Find(objects, id)
<1>1. item \in ObjectsOf(objects) /\ item.id = id
  BY Finding
<1> HIDE DEF item
<1>2. CASE action = "certify" /\ ~CanCertify(item)
  BY <1>2 DEF ApplyReviewDecision, PageInv, Looks, Draws, item
<1>3. CASE action = "certify" => CanCertify(item)
  <2>1. Reviews(item, action)
    BY <1>1, <1>3 DEF ApplyReviewDecision, SavesOfReview, Reviews, item
  <2> QED
    BY <1>1, <2>1
<1> QED
  BY <1>2, <1>3

LEMMA ReviewPage ==
  ASSUME PageInv, NEW item, NEW action, Reviews(item, action)
  PROVE  PageInv'
<1>1. /\ item \in ObjectsOf(objects) /\ action \in ReviewActions
      /\ action = "certify" => CanCertify(item)
      /\ objects' = [i \in DOMAIN objects |->
                       IF objects[i] = item THEN Decided(item, action) ELSE objects[i]]
      /\ events' = <<CreateReviewEvent(item, action)>> \o events
      /\ view' = [view EXCEPT !.selectedId = item.id]
  BY DEF Reviews
<1>2. Book(objects') /\ IdsOf(objects') = IdsOf(objects)
  BY <1>1, BookReviewed DEF PageInv
<1>3. CreateReviewEvent(item, action) \in EventsUpTo(load)
  <2>1. item \in RegistryObjects
    BY <1>1, Listed DEF PageInv, Book
  <2>2. load \in 1 .. load
    BY DEF PageInv
  <2> QED
    BY <1>1, <2>1, <2>2 DEF CreateReviewEvent, EventsUpTo, RegistryObjects
<1>4. events' \in Seq(EventsUpTo(load))
  BY <1>1, <1>3, Prepended DEF PageInv
<1>5. PICK written \in Succeeding(2) : Stores(2, written)
  BY DEF Reviews
<1>6. /\ load' = load /\ faults' \in 0 .. MaxFaults
      /\ storage'.events \in Seq(EventsUpTo(load))
      /\ Book(storage'.drafts) /\ \A o \in ObjectsOf(storage'.drafts) : o.id \notin SeedIds
  BY <1>2, <1>4, <1>5, Storing
<1>7. ViewOK(view')
  BY <1>1 DEF PageInv, ViewOK
<1> QED
  BY <1>2, <1>4, <1>6, <1>7 DEF PageInv

\* Clearing the drafts.
LEMMA ClearPage ==
  ASSUME PageInv, ClearDrafts
  PROVE  /\ PageInv'
         /\ ObjectsOf(objects') = {o \in ObjectsOf(objects) : o.id \in SeedIds}
<1>1. objects' = Where(objects, LAMBDA o : o.id \in SeedIds)
  BY DEF ClearDrafts
<1>2. /\ Book(objects')
      /\ ObjectsOf(objects') = {o \in ObjectsOf(objects) : o.id \in SeedIds}
  BY <1>1, BookSeeds DEF PageInv
<1>3. SeedIds \subseteq IdsOf(objects')
  BY <1>2 DEF PageInv, IdsOf
<1>4. events' \in Seq(EventsUpTo(load))
  <2> DEFINE ids == IdsOf(Drafts(objects))
  <2>1. events' = Pick(events, {i \in DOMAIN events : events[i].objectId \notin ids})
    BY DEF ClearDrafts, EventsWithout, Where
  <2> HIDE DEF ids
  <2> QED
    BY <2>1, PickElements DEF PageInv
<1>5. PICK written \in Succeeding(2) : Stores(2, written)
  BY DEF ClearDrafts
<1>6. /\ load' = load /\ faults' \in 0 .. MaxFaults
      /\ storage'.events \in Seq(EventsUpTo(load))
      /\ Book(storage'.drafts) /\ \A o \in ObjectsOf(storage'.drafts) : o.id \notin SeedIds
  BY <1>2, <1>4, <1>5, Storing
<1>7. ViewOK(view')
  <2>1. view' = view \/ \E id : view' = [view EXCEPT !.selectedId = id]
    BY DEF ClearDrafts
  <2>2. CASE view' = view
    BY <2>2 DEF PageInv
  <2>3. ASSUME NEW id, view' = [view EXCEPT !.selectedId = id]
        PROVE  ViewOK(view')
    BY <2>3 DEF PageInv, ViewOK
  <2> QED
    BY <2>1, <2>2, <2>3
<1> QED
  BY <1>2, <1>3, <1>4, <1>6, <1>7 DEF PageInv

\* A registration.
LEMMA RegisterPage ==
  ASSUME PageInv, NEW form \in Forms, Register(form)
  PROVE  /\ PageInv'
         /\ ObjectsOf(objects') = {Draft(form)} \cup ObjectsOf(objects)
         /\ Draft(form).id \notin IdsOf(objects) /\ Draft(form).lifecycleState = "draft"
<1>1. /\ ValidateRegistrationForm(form) = {} /\ objects' = <<Draft(form)>> \o objects
      /\ events' = events
  BY DEF Register
<1>2. /\ Book(objects') /\ ObjectsOf(objects') = {Draft(form)} \cup ObjectsOf(objects)
      /\ Draft(form).id \notin IdsOf(objects) /\ Draft(form).lifecycleState = "draft"
  BY <1>1, BookRegistered DEF PageInv
<1>3. SeedIds \subseteq IdsOf(objects')
  BY <1>2 DEF PageInv, IdsOf
<1>4. PICK written \in Succeeding(1) : Stores(1, written)
  BY DEF Register
<1>5. /\ load' = load /\ faults' \in 0 .. MaxFaults
      /\ storage'.events \in Seq(EventsUpTo(load))
      /\ Book(storage'.drafts) /\ \A o \in ObjectsOf(storage'.drafts) : o.id \notin SeedIds
  BY <1>1, <1>2, <1>4, Storing DEF PageInv
<1>6. ViewOK(view')
  <2>1. form.type \in Types
    BY DEF Registrations
  <2>2. view' = view
        \/ view' = [type |-> form.type, risk |-> "all", certification |-> "all",
                    query |-> {}, selectedId |-> NormalizeId(form.id),
                    showRegistration |-> FALSE, inError |-> FALSE]
    BY DEF Register
  <2>3. ViewOK([type |-> form.type, risk |-> "all", certification |-> "all",
                query |-> {}, selectedId |-> NormalizeId(form.id),
                showRegistration |-> FALSE, inError |-> FALSE])
    BY <2>1 DEF ViewOK
  <2> QED
    BY <2>2, <2>3 DEF PageInv
<1> QED
  BY <1>1, <1>2, <1>3, <1>5, <1>6 DEF PageInv

\* The steps, by what they do to the page.
Changes ==
    \/ Looks /\ ViewOK(view') /\ Draws
    \/ Reload
    \/ \E item \in ObjectsOf(objects), action \in ReviewActions : Reviews(item, action)
    \/ ClearDrafts
    \/ \E form \in Forms : Register(form)

LEMMA NextChanges == PageInv /\ Next => Changes
<1> SUFFICES ASSUME PageInv, Next PROVE Changes
  OBVIOUS
<1>1. ASSUME NEW id \in IdsOf(objects), NEW action \in ReviewActions,
             ApplyReviewDecision(id, action)
      PROVE  Changes
  BY <1>1, ReviewStep DEF Changes, Reviews
<1>2. CASE \/ \E form \in Forms : RefuseRegistration(form)
           \/ NewRegistration \/ CancelRegistration
           \/ \E type \in Types \cup {"all"} : ChooseTab(type)
           \/ \E query \in Queries : Search(query)
           \/ \E risk \in Risks \cup {"all"} : FilterRisk(risk)
           \/ \E c \in {"all", "certified", "not_certified"} : FilterCertification(c)
           \/ \E button \in screen : Select(button[1])
  BY <1>2, LookingSteps DEF Changes
<1>3. CASE \/ Reload \/ ClearDrafts \/ \E form \in Forms : Register(form)
  BY <1>3 DEF Changes
<1> QED
  BY <1>1, <1>2, <1>3 DEF Next

LEMMA PageStep == PageInv /\ [Next]_vars => PageInv'
<1> SUFFICES ASSUME PageInv, [Next]_vars PROVE PageInv'
  OBVIOUS
<1>1. CASE UNCHANGED vars
  BY <1>1 DEF vars, PageInv
<1>2. CASE Next
  <2>1. Changes
    BY <1>2, NextChanges
  <2>2. CASE Looks /\ ViewOK(view') /\ Draws
    BY <2>2, LookingPage
  <2>3. CASE Reload
    BY <2>3, ReloadPage
  <2>4. ASSUME NEW item, NEW action, Reviews(item, action)
        PROVE  PageInv'
    BY <2>4, ReviewPage
  <2>5. CASE ClearDrafts
    BY <2>5, ClearPage
  <2>6. ASSUME NEW form \in Forms, Register(form)
        PROVE  PageInv'
    BY <2>6, RegisterPage
  <2> QED
    BY <2>1, <2>2, <2>3, <2>4, <2>5, <2>6 DEF Changes
<1> QED
  BY <1>1, <1>2

LEMMA PageCorrect == Spec => []PageInv
BY PageInit, PageStep, PTL DEF Spec

-----------------------------------------------------------------------------
(* What follows from it *)

\* The page and its storage keep their types.
THEOREM ConsoleTypes == Spec => []TypeOK
<1>1. PageInv => TypeOK
  <2> SUFFICES ASSUME PageInv PROVE TypeOK
    OBVIOUS
  <2>1. ASSUME NEW o \in ObjectsOf(objects) \cup ObjectsOf(storage.drafts)
        PROVE  /\ o.type \in Types /\ o.riskTier \in RiskTiers
               /\ o.lifecycleState \in LifecycleStates /\ o.approvalState \in ApprovalStates
               /\ o.aiHarnessCertified \in BOOLEAN
    <3>1. o \in RegistryObjects
      BY Listed DEF PageInv, Book
    <3> QED
      BY <3>1 DEF RegistryObjects
  <2>2. ASSUME NEW e \in ObjectsOf(events) \cup ObjectsOf(storage.events)
        PROVE  e.action \in ReviewActions /\ e.load \in 1 .. load
    <3>1. e \in EventsUpTo(load)
      BY Listed DEF PageInv
    <3> QED
      BY <3>1 DEF EventsUpTo
  <2> QED
    BY <2>1, <2>2 DEF TypeOK, PageInv, ViewOK
<1> QED
  BY <1>1, PageCorrect, PTL

\* An id never names two objects of the page, and no seed is ever lost from it.
THEOREM IdsCorrect == Spec => []UniqueIds
<1>1. PageInv => UniqueIds
  BY DEF PageInv, Book, Unique, UniqueIds
<1> QED
  BY <1>1, PageCorrect, PTL

\* What is certified, on the page or in the storage, passes its whole checklist,
\* whichever writes failed and whichever old buttons were clicked.
THEOREM CertificationCorrect == Spec => []CertifiedIsReady
<1>1. PageInv => CertifiedIsReady
  BY DEF PageInv, Book, CertifiedIsReady
<1> QED
  BY <1>1, PageCorrect, PTL

\* No registration, review, clear or reload leaves a draft with a dangling link
\* or without the object it needs.
THEOREM LinksCorrect == Spec => []DraftLinksResolve
<1>1. PageInv => DraftLinksResolve
  <2> SUFFICES ASSUME PageInv PROVE DraftLinksResolve
    OBVIOUS
  <2>1. Book(objects) /\ SeedIds \subseteq IdsOf(objects)
    BY DEF PageInv
  <2>2. ASSUME NEW link \in UnknownLinks(objects)
        PROVE  link \in UnknownLinks(Seeds)
    <3>1. link \notin IdsOf(objects) /\ link \notin SeedIds
      BY <2>1 DEF UnknownLinks
    <3>2. PICK o \in ObjectsOf(objects) : link \in o.relationships
      BY DEF UnknownLinks
    <3>3. o.id \in SeedIds
      BY <2>1, <3>1, <3>2 DEF Book, LinksOK
    <3>4. PICK p \in ObjectsOf(Seeds) : p.relationships = o.relationships
      BY <2>1, <3>3 DEF Book, LikeSeed
    <3> QED
      BY <3>1, <3>2, <3>4 DEF UnknownLinks, SeedIds
  <2>3. ASSUME NEW o \in ObjectsOf(objects), NEW type, HasLink(objects, o, type)
        PROVE  Linked(objects, {o}, type) # {}
    <3>1. PICK p \in ObjectsOf(objects) \cup ObjectsOf(Seeds) :
             p.type = type /\ p.id \in o.relationships
      BY <2>3 DEF HasLink
    <3>2. CASE p \in ObjectsOf(objects)
      BY <3>1, <3>2 DEF Linked
    <3>3. CASE p \in ObjectsOf(Seeds)
      <4>1. p.id \in SeedIds
        BY <3>3 DEF SeedIds, IdsOf
      <4>2. PICK q \in ObjectsOf(objects) : q.id = p.id
        BY <2>1, <4>1 DEF IdsOf
      <4>3. PICK r \in ObjectsOf(Seeds) : r.id = q.id /\ r.type = q.type
        BY <2>1, <4>1, <4>2 DEF Book, LikeSeed
      <4>4. r = p
        BY <3>3, <4>2, <4>3, SeedsOK DEF Book, Unique, ObjectsOf
      <4> QED
        BY <3>1, <4>2, <4>3, <4>4 DEF Linked
    <3> QED
      BY <3>1, <3>2, <3>3
  <2>4. ASSUME NEW o \in ObjectsOf(Drafts(objects))
        PROVE  /\ o.type = "agent" => Linked(objects, {o}, "skill") # {}
               /\ o.type = "skill" => Linked(objects, {o}, "tool") # {}
    <3>1. o \in ObjectsOf(objects) /\ o.id \notin SeedIds
      BY <2>1, BookDrafts
    <3>2. LinksOK(objects, o)
      BY <2>1, <3>1 DEF Book
    <3> QED
      BY <2>3, <3>1, <3>2 DEF LinksOK
  <2> QED
    BY <2>2, <2>4 DEF DraftLinksResolve
<1> QED
  BY <1>1, PageCorrect, PTL

-----------------------------------------------------------------------------
(* The evidence trail, as long as no write failed *)

\* The i-th event still tells of the object, on a page loaded n times; it is the
\* latest that does.
StandsAt(evs, n, o, i) == evs[i].objectId = o.id /\ (o.id \in SeedIds => evs[i].load = n)
LatestAt(evs, n, o, i) ==
    StandsAt(evs, n, o, i) /\ \A j \in DOMAIN evs : StandsAt(evs, n, o, j) => i <= j

\* An object shows what the events tell of it.
Told(evs, n, o) ==
    /\ (\A i \in DOMAIN evs : ~StandsAt(evs, n, o, i)) =>
          IF o.id \in SeedIds THEN o \in ObjectsOf(Seeds) ELSE o.lifecycleState = "draft"
    /\ \A i \in DOMAIN evs : LatestAt(evs, n, o, i) =>
          /\ o = Decided(o, evs[i].action)
          /\ o.aiHarnessCertified <=> evs[i].action = "certify"

TrailOf(objs, evs, n) ==
    /\ \A o \in ObjectsOf(objs) : Told(evs, n, o)
    /\ \A i \in DOMAIN evs : evs[i].objectId \in IdsOf(objs)

TrailInv == faults = 0 =>
    /\ screen = Screen(objects, view)
    /\ storage = [drafts |-> Drafts(objects), events |-> events]
    /\ TrailOf(objects, events, load)

\* "intake" is drawn for drafts only.
LEMMA IntakeDrawn ==
  ASSUME NEW objs, Book(objs), objs # <<>>, NEW v, NEW item \in ObjectsOf(objs),
         <<item.id, "intake">> \in Screen(objs, v)
  PROVE  item.lifecycleState = "draft"
<1> DEFINE shown == ApprovalQueueItems(objs) \cup {Selected(objs, v)}
<1>1. <<item.id, "intake">> \in ReviewButtons(shown)
  BY DEF Screen
<1>2. PICK o \in shown : o.lifecycleState = "draft" /\ o.id = item.id
  BY <1>1 DEF ReviewButtons
<1>3. Selected(objs, v) \in ObjectsOf(objs)
  <2>1. 1 \in DOMAIN objs
    <3>1. objs \in Seq(RegistryObjects)
      BY DEF Book
    <3> QED
      BY <3>1, EmptySeq, LenProperties
  <2>2. objs[1] \in ObjectsOf(objs)
    BY <2>1 DEF ObjectsOf
  <2> QED
    BY <2>2, Finding DEF Selected
<1>4. o \in ObjectsOf(objs)
  BY <1>2, <1>3 DEF ApprovalQueueItems
<1>5. o = item
  BY <1>2, <1>4, Finding DEF Book
<1> QED
  BY <1>2, <1>5

\* After a step without a failed write the page and the storage agree.
LEMMA Completed ==
  ASSUME PageInv, NEW writes \in {1, 2}, NEW written \in Succeeding(writes),
         Stores(writes, written), Book(objects'), events' \in Seq(EventsUpTo(load)),
         faults' = 0, writes = 2 \/ events' = storage.events
  PROVE  /\ faults = 0 /\ screen' = Screen(objects', view')
         /\ storage' = [drafts |-> Drafts(objects'), events |-> events']
<1>1. faults = 0 /\ written = writes
  BY Storing
<1>2. /\ storage' = [drafts |-> IF written >= 1 THEN Drafts(objects') ELSE storage.drafts,
                     events |-> IF written >= 2 THEN events' ELSE storage.events]
      /\ screen' = Screen(objects', view')
  BY <1>1 DEF Stores, Saved
<1> QED
  BY <1>1, <1>2

LEMMA TrailInit == Init => TrailInv
<1> SUFFICES ASSUME Init PROVE TrailInv
  OBVIOUS
<1>1. /\ storage = [drafts |-> <<>>, events |-> <<>>]
      /\ storage.drafts = <<>> /\ storage.events = <<>>
      /\ objects = Loaded(storage).objects /\ events = Loaded(storage).events
      /\ view = Loaded(storage).view /\ screen = Loaded(storage).screen
  BY DEF Init
<1>2. Book(storage.drafts) /\ ObjectsOf(storage.drafts) = {}
  BY <1>1, EmptyBook
<1>3. /\ objects = storage.drafts \o Seeds /\ events = <<>>
      /\ screen = Screen(objects, view) /\ Drafts(objects) = <<>>
      /\ ObjectsOf(objects) = ObjectsOf(Seeds)
  BY <1>1, <1>2, Loading
<1>4. TrailOf(objects, events, load)
  <2>1. DOMAIN events = {}
    BY <1>3
  <2>2. \A o \in ObjectsOf(Seeds) : o.id \in SeedIds
    BY DEF SeedIds, IdsOf
  <2> QED
    BY <1>3, <2>1, <2>2 DEF TrailOf, Told
<1> QED
  BY <1>1, <1>3, <1>4 DEF TrailInv

\* A reload: the drafts keep their events, the seeds start anew.
LEMMA ReloadTrail ==
  ASSUME PageInv, TrailInv, Reload
  PROVE  TrailInv'
<1>1. /\ Draws /\ load \in Nat /\ load' = load + 1 /\ faults' = faults /\ storage' = storage
      /\ events' = storage.events /\ Drafts(objects') = storage.drafts
      /\ ObjectsOf(objects') = ObjectsOf(storage.drafts) \cup ObjectsOf(Seeds)
  BY ReloadPage
<1> SUFFICES ASSUME faults = 0
             PROVE  /\ screen' = Screen(objects', view')
                    /\ storage' = [drafts |-> Drafts(objects'), events |-> events']
                    /\ TrailOf(objects', events', load')
  BY <1>1 DEF TrailInv
<1>2. /\ storage = [drafts |-> Drafts(objects), events |-> events]
      /\ storage.drafts = Drafts(objects) /\ storage.events = events
      /\ TrailOf(objects, events, load)
  BY DEF TrailInv
<1>3. ObjectsOf(Drafts(objects)) = {o \in ObjectsOf(objects) : o.id \notin SeedIds}
  BY BookDrafts DEF PageInv
<1>4. ASSUME NEW o \in ObjectsOf(objects')
      PROVE  Told(events, load', o)
  <2>1. CASE o \in ObjectsOf(Seeds)
    <3>1. o.id \in SeedIds
      BY <2>1 DEF SeedIds, IdsOf
    <3>2. ASSUME NEW i \in DOMAIN events
          PROVE  ~StandsAt(events, load', o, i)
      <4>1. events[i] \in EventsUpTo(load)
        BY Listed DEF PageInv
      <4>2. events[i].load # load'
        BY <1>1, <4>1 DEF EventsUpTo
      <4> QED
        BY <3>1, <4>2 DEF StandsAt
    <3>3. \A i \in DOMAIN events : ~LatestAt(events, load', o, i)
      BY <3>2 DEF LatestAt
    <3> QED
      BY <2>1, <3>1, <3>3 DEF Told
  <2>2. CASE o \in ObjectsOf(objects) /\ o.id \notin SeedIds
    BY <1>2, <2>2 DEF TrailOf, Told, LatestAt, StandsAt
  <2> QED
    BY <1>1, <1>2, <1>3, <2>1, <2>2
<1>5. ASSUME NEW i \in DOMAIN events
      PROVE  events[i].objectId \in IdsOf(objects')
  <2>1. PICK o \in ObjectsOf(objects) : o.id = events[i].objectId
    BY <1>2 DEF TrailOf, IdsOf
  <2>2. CASE o.id \in SeedIds
    BY <1>1, <2>1, <2>2 DEF SeedIds, IdsOf
  <2>3. CASE o.id \notin SeedIds
    BY <1>1, <1>2, <1>3, <2>1, <2>3 DEF IdsOf
  <2> QED
    BY <2>2, <2>3
<1>6. TrailOf(objects', events', load')
  BY <1>1, <1>2, <1>4, <1>5 DEF TrailOf
<1> QED
  BY <1>1, <1>2, <1>6 DEF Draws

\* A new event in front of the others changes nothing for the other objects.
LEMMA NewEvent ==
  ASSUME NEW k \in Nat, NEW evs, NEW more, DOMAIN evs = 1 .. k, DOMAIN more = 1 .. k + 1,
         \A i \in 1 .. k : more[i + 1] = evs[i],
         NEW n, NEW o, more[1].objectId # o.id, Told(evs, n, o)
  PROVE  Told(more, n, o)
<1>1. ~StandsAt(more, n, o, 1)
  BY DEF StandsAt
<1>2. \A i \in DOMAIN evs : i + 1 \in DOMAIN more
                            /\ (StandsAt(more, n, o, i + 1) <=> StandsAt(evs, n, o, i))
  BY DEF StandsAt
<1>3. \A i \in DOMAIN more : i # 1 => i - 1 \in DOMAIN evs /\ (i - 1) + 1 = i
  OBVIOUS
<1>4. ASSUME \A i \in DOMAIN more : ~StandsAt(more, n, o, i)
      PROVE  \A i \in DOMAIN evs : ~StandsAt(evs, n, o, i)
  BY <1>2, <1>4
<1>5. ASSUME NEW i \in DOMAIN more, LatestAt(more, n, o, i)
      PROVE  i - 1 \in DOMAIN evs /\ LatestAt(evs, n, o, i - 1) /\ evs[i - 1] = more[i]
  <2>1. i # 1 /\ StandsAt(more, n, o, i)
    BY <1>1, <1>5 DEF LatestAt
  <2>2. i - 1 \in DOMAIN evs /\ (i - 1) + 1 = i
    BY <1>3, <2>1
  <2>3. StandsAt(evs, n, o, i - 1) /\ evs[i - 1] = more[i]
    BY <1>2, <2>1, <2>2
  <2>4. ASSUME NEW j \in DOMAIN evs, StandsAt(evs, n, o, j)
        PROVE  i - 1 <= j
    <3>1. j + 1 \in DOMAIN more /\ StandsAt(more, n, o, j + 1)
      BY <1>2, <2>4
    <3>2. i <= j + 1
      BY <1>5, <3>1 DEF LatestAt
    <3> QED
      BY <3>2
  <2> QED
    BY <2>2, <2>3, <2>4 DEF LatestAt
<1> QED
  BY <1>4, <1>5 DEF Told

\* A review: its event is the latest about its object.
LEMMA ReviewTrail ==
  ASSUME PageInv, TrailInv, NEW item, NEW action, Reviews(item, action)
  PROVE  TrailInv'
<1>1. /\ item \in ObjectsOf(objects) /\ action \in ReviewActions
      /\ action = "certify" => CanCertify(item)
      /\ <<item.id, action>> \in screen
      /\ objects' = [i \in DOMAIN objects |->
                       IF objects[i] = item THEN Decided(item, action) ELSE objects[i]]
      /\ events' = <<CreateReviewEvent(item, action)>> \o events
  BY DEF Reviews
<1>2. PICK written \in Succeeding(2) : Stores(2, written)
  BY DEF Reviews
<1> DEFINE ev == CreateReviewEvent(item, action)
           d == Decided(item, action)
<1>3. PageInv' /\ load' = load
  BY <1>2, ReviewPage DEF Stores
<1> SUFFICES ASSUME faults' = 0
             PROVE  /\ screen' = Screen(objects', view')
                    /\ storage' = [drafts |-> Drafts(objects'), events |-> events']
                    /\ TrailOf(objects', events', load')
  BY DEF TrailInv
<1>4. /\ faults = 0 /\ screen' = Screen(objects', view')
      /\ storage' = [drafts |-> Drafts(objects'), events |-> events']
  BY <1>2, <1>3, Completed DEF PageInv
<1>5. screen = Screen(objects, view) /\ TrailOf(objects, events, load)
  BY <1>4 DEF TrailInv
<1>6. /\ Book(objects) /\ events \in Seq(EventsUpTo(load)) /\ load \in 1 .. load
      /\ item \in RegistryObjects
  BY <1>1, Listed DEF PageInv, Book
<1>7. /\ ev \in EventsUpTo(load)
      /\ ev.objectId = item.id /\ ev.action = action /\ ev.load = load
  BY <1>1, <1>6 DEF CreateReviewEvent, EventsUpTo, RegistryObjects
<1>8. /\ IdsOf(objects') = IdsOf(objects)
      /\ \A o \in ObjectsOf(objects') :
           IF o.id = item.id THEN o = d ELSE o \in ObjectsOf(objects)
  BY <1>1, <1>6, BookReviewed
<1>9. /\ events'[1] = ev /\ DOMAIN events' = 1 .. Len(events) + 1 /\ Len(events) \in Nat
      /\ DOMAIN events = 1 .. Len(events)
      /\ \A i \in 1 .. Len(events) : events'[i + 1] = events[i]
  <2>1. events' = <<ev>> \o events
    BY <1>1
  <2> HIDE DEF ev
  <2> QED
    BY <1>6, <1>7, <2>1, Prepended
<1> HIDE DEF ev
<1>10. /\ d.id = item.id /\ Decided(d, action) = d
       /\ d.aiHarnessCertified = CertifiedBy(item, action)
  BY <1>1, <1>6, DecidedObject
<1> HIDE DEF d
<1>11. d.aiHarnessCertified <=> action = "certify"
  <2>1. CASE action = "certify"
    BY <1>10, <2>1 DEF CertifiedBy
  <2>2. CASE action = "block"
    BY <1>10, <2>2 DEF CertifiedBy
  <2>3. CASE action = "intake"
    <3>1. objects # <<>>
      BY <1>1 DEF ObjectsOf
    <3>2. item.lifecycleState = "draft"
      BY <1>1, <1>5, <1>6, <2>3, <3>1, IntakeDrawn
    <3>3. ~item.aiHarnessCertified
      BY <1>1, <1>6, <3>2 DEF Book
    <3> QED
      BY <1>10, <2>3, <3>3 DEF CertifiedBy
  <2> QED
    BY <1>1, <2>1, <2>2, <2>3 DEF ReviewActions
<1>12. Told(events', load, d)
  <2>1. 1 \in DOMAIN events' /\ StandsAt(events', load, d, 1)
    BY <1>7, <1>9, <1>10 DEF StandsAt
  <2>2. \A i \in DOMAIN events' : LatestAt(events', load, d, i) => i = 1
    BY <1>9, <2>1 DEF LatestAt
  <2> QED
    BY <1>7, <1>9, <1>10, <1>11, <2>1, <2>2 DEF Told
<1>13. ASSUME NEW o \in ObjectsOf(objects')
       PROVE  Told(events', load, o)
  <2>1. CASE o.id = item.id
    BY <1>8, <1>12, <2>1
  <2>2. CASE o.id # item.id
    <3>1. Told(events, load, o) /\ events'[1].objectId # o.id
      BY <1>5, <1>7, <1>8, <1>9, <2>2 DEF TrailOf
    <3> QED
      BY <1>9, <3>1, NewEvent
  <2> QED
    BY <2>1, <2>2
<1>14. ASSUME NEW i \in DOMAIN events'
       PROVE  events'[i].objectId \in IdsOf(objects')
  <2>1. CASE i = 1
    BY <1>1, <1>7, <1>8, <1>9, <2>1 DEF IdsOf
  <2>2. CASE i # 1
    <3>1. i - 1 \in DOMAIN events /\ events'[i] = events[i - 1]
      BY <1>9, <2>2
    <3> QED
      BY <1>5, <1>8, <3>1 DEF TrailOf
  <2> QED
    BY <2>1, <2>2
<1>15. TrailOf(objects', events', load')
  BY <1>3, <1>13, <1>14 DEF TrailOf
<1> QED
  BY <1>4, <1>15

\* The drafts are cleared with their events.
LEMMA ClearTrail ==
  ASSUME PageInv, TrailInv, ClearDrafts
  PROVE  TrailInv'
<1>1. PICK written \in Succeeding(2) : Stores(2, written)
  BY DEF ClearDrafts
<1> DEFINE ids == IdsOf(Drafts(objects))
           K == {i \in DOMAIN events : events[i].objectId \notin ids}
<1>2. /\ PageInv' /\ load' = load
      /\ ObjectsOf(objects') = {o \in ObjectsOf(objects) : o.id \in SeedIds}
  BY <1>1, ClearPage DEF Stores
<1> SUFFICES ASSUME faults' = 0
             PROVE  /\ screen' = Screen(objects', view')
                    /\ storage' = [drafts |-> Drafts(objects'), events |-> events']
                    /\ TrailOf(objects', events', load')
  BY DEF TrailInv
<1>3. /\ faults = 0 /\ screen' = Screen(objects', view')
      /\ storage' = [drafts |-> Drafts(objects'), events |-> events']
  BY <1>1, <1>2, Completed DEF PageInv
<1>4. TrailOf(objects, events, load) /\ events \in Seq(EventsUpTo(load))
  BY <1>3 DEF TrailInv, PageInv
<1>5. events' = Pick(events, K)
  BY DEF ClearDrafts, EventsWithout, Where
<1>6. \A o \in ObjectsOf(objects) : o.id \in ids <=> o.id \notin SeedIds
  <2>1. ObjectsOf(Drafts(objects)) = {o \in ObjectsOf(objects) : o.id \notin SeedIds}
    BY BookDrafts DEF PageInv
  <2> QED
    BY <2>1 DEF IdsOf
<1> HIDE DEF ids
<1>7. PICK f \in [DOMAIN events' -> K] :
        /\ \A k \in DOMAIN f : events'[k] = events[f[k]]
        /\ \A i \in K : \E k \in DOMAIN f : f[k] = i
        /\ \A k, l \in DOMAIN f : k < l => f[k] < f[l]
  <2> HIDE DEF K
  <2>1. K \in SUBSET (DOMAIN events)
    BY DEF K
  <2> QED
    BY <1>4, <1>5, <2>1, PickPositions
<1>8. /\ DOMAIN f = DOMAIN events' /\ DOMAIN events' \subseteq Nat /\ DOMAIN events \subseteq Nat
      /\ \A k \in DOMAIN events' : f[k] \in K
  <2>1. events' \in Seq(EventsUpTo(load))
    BY <1>2 DEF PageInv
  <2> QED
    BY <1>4, <1>7, <2>1, LenProperties
<1>9. ASSUME NEW o \in ObjectsOf(objects')
      PROVE  Told(events', load, o)
  <2>1. Told(events, load, o) /\ o.id \notin ids
    BY <1>2, <1>4, <1>6 DEF TrailOf
  <2>2. \A i \in DOMAIN events : StandsAt(events, load, o, i) => i \in K
    BY <2>1 DEF StandsAt
  <2>3. \A k \in DOMAIN events' : StandsAt(events', load, o, k) <=> StandsAt(events, load, o, f[k])
    BY <1>7, <1>8 DEF StandsAt
  <2>4. ASSUME \A k \in DOMAIN events' : ~StandsAt(events', load, o, k)
        PROVE  \A i \in DOMAIN events : ~StandsAt(events, load, o, i)
    BY <1>7, <1>8, <2>2, <2>3, <2>4
  <2>5. ASSUME NEW k \in DOMAIN events', LatestAt(events', load, o, k)
        PROVE  f[k] \in DOMAIN events /\ LatestAt(events, load, o, f[k])
    <3>1. f[k] \in DOMAIN events /\ StandsAt(events, load, o, f[k])
      BY <1>8, <2>3, <2>5 DEF LatestAt
    <3>2. ASSUME NEW j \in DOMAIN events, StandsAt(events, load, o, j)
          PROVE  f[k] <= j
      <4>1. PICK l \in DOMAIN events' : f[l] = j
        BY <1>7, <1>8, <2>2, <3>2
      <4>2. StandsAt(events', load, o, l)
        BY <2>3, <3>2, <4>1
      <4>3. k <= l
        BY <2>5, <4>2 DEF LatestAt
      <4>4. k = l \/ k < l
        BY <1>8, <4>3
      <4>5. CASE k < l
        <5>1. f[k] < f[l]
          BY <1>7, <1>8, <4>5
        <5> QED
          BY <1>8, <3>1, <4>1, <5>1
      <4> QED
        BY <1>8, <3>1, <4>1, <4>4, <4>5
    <3> QED
      BY <3>1, <3>2 DEF LatestAt
  <2> HIDE DEF K
  <2> QED
    BY <1>7, <1>8, <2>1, <2>4, <2>5 DEF Told
<1>10. ASSUME NEW k \in DOMAIN events'
       PROVE  events'[k].objectId \in IdsOf(objects')
  <2>1. f[k] \in DOMAIN events /\ events'[k] = events[f[k]] /\ events[f[k]].objectId \notin ids
    BY <1>7, <1>8
  <2>2. PICK o \in ObjectsOf(objects) : o.id = events[f[k]].objectId
    BY <1>4, <2>1 DEF TrailOf, IdsOf
  <2> QED
    BY <1>2, <1>6, <2>1, <2>2 DEF IdsOf
<1>11. TrailOf(objects', events', load')
  BY <1>2, <1>9, <1>10 DEF TrailOf
<1> QED
  BY <1>3, <1>11

\* No event is about an object that is registered only now.
LEMMA RegisterTrail ==
  ASSUME PageInv, TrailInv, NEW form \in Forms, Register(form)
  PROVE  TrailInv'
<1>1. PICK written \in Succeeding(1) : Stores(1, written)
  BY DEF Register
<1> DEFINE d == Draft(form)
<1>2. /\ PageInv' /\ load' = load /\ events' = events
      /\ ObjectsOf(objects') = {d} \cup ObjectsOf(objects)
      /\ d.id \notin IdsOf(objects) /\ d.lifecycleState = "draft"
  BY <1>1, RegisterPage DEF Stores, Register
<1> HIDE DEF d
<1> SUFFICES ASSUME faults' = 0
             PROVE  /\ screen' = Screen(objects', view')
                    /\ storage' = [drafts |-> Drafts(objects'), events |-> events']
                    /\ TrailOf(objects', events', load')
  BY DEF TrailInv
<1>3. faults = 0
  BY <1>1, <1>2, Storing DEF PageInv
<1>4. storage.events = events /\ TrailOf(objects, events, load)
  BY <1>3 DEF TrailInv
<1>5. /\ screen' = Screen(objects', view')
      /\ storage' = [drafts |-> Drafts(objects'), events |-> events']
  BY <1>1, <1>2, <1>4, Completed DEF PageInv
<1>6. Told(events, load, d)
  <2>1. d.id \notin SeedIds
    BY <1>2 DEF PageInv
  <2>2. \A i \in DOMAIN events : ~StandsAt(events, load, d, i)
    BY <1>2, <1>4 DEF TrailOf, StandsAt
  <2> QED
    BY <1>2, <2>1, <2>2 DEF Told, LatestAt
<1>7. TrailOf(objects', events', load')
  BY <1>2, <1>4, <1>6 DEF TrailOf, IdsOf
<1> QED
  BY <1>5, <1>7

LEMMA TrailStep == PageInv /\ TrailInv /\ [Next]_vars => TrailInv'
<1> SUFFICES ASSUME PageInv, TrailInv, [Next]_vars PROVE TrailInv'
  OBVIOUS
<1>1. CASE UNCHANGED vars
  BY <1>1 DEF vars, TrailInv
<1>2. CASE Next
  <2>1. Changes
    BY <1>2, NextChanges
  <2>2. CASE Looks /\ ViewOK(view') /\ Draws
    BY <2>2 DEF Looks, Draws, TrailInv
  <2>3. CASE Reload
    BY <2>3, ReloadTrail
  <2>4. ASSUME NEW item, NEW action, Reviews(item, action)
        PROVE  TrailInv'
    BY <2>4, ReviewTrail
  <2>5. CASE ClearDrafts
    BY <2>5, ClearTrail
  <2>6. ASSUME NEW form \in Forms, Register(form)
        PROVE  TrailInv'
    BY <2>6, RegisterTrail
  <2> QED
    BY <2>1, <2>2, <2>3, <2>4, <2>5, <2>6 DEF Changes
<1> QED
  BY <1>1, <1>2

LEMMA TrailCorrect == Spec => []TrailInv
BY PageCorrect, TrailInit, TrailStep, PTL DEF Spec

\* What an object shows is what its latest standing event made of it.
THEOREM DecisionsCorrect == Spec => []TrailTellsDecision
<1>1. PageInv /\ TrailInv => TrailTellsDecision
  <2> SUFFICES ASSUME PageInv, TrailInv, faults = 0
               PROVE  /\ \A o \in ObjectsOf(objects) :
                           IF Standing(o) = <<>>
                           THEN IF o.id \in SeedIds THEN o = Find(Seeds, o.id)
                                ELSE o.lifecycleState = "draft"
                           ELSE /\ o = Decided(o, Standing(o)[1].action)
                                /\ o.aiHarnessCertified <=> Standing(o)[1].action = "certify"
                      /\ \A e \in ObjectsOf(events) : e.objectId \in IdsOf(objects)
    BY DEF TrailTellsDecision
  <2>1. TrailOf(objects, events, load) /\ events \in Seq(EventsUpTo(load))
    BY DEF TrailInv, PageInv
  <2>2. ASSUME NEW o \in ObjectsOf(objects)
        PROVE  IF Standing(o) = <<>>
               THEN IF o.id \in SeedIds THEN o = Find(Seeds, o.id)
                    ELSE o.lifecycleState = "draft"
               ELSE /\ o = Decided(o, Standing(o)[1].action)
                    /\ o.aiHarnessCertified <=> Standing(o)[1].action = "certify"
    <3> DEFINE K == {i \in DOMAIN events : StandsAt(events, load, o, i)}
    <3>1. Standing(o) = Pick(events, K)
      BY DEF Standing, Where, StandsAt
    <3>2. Told(events, load, o)
      BY <2>1 DEF TrailOf
    <3>3. K \in SUBSET (DOMAIN events) /\ K \subseteq Nat
      BY <2>1, LenProperties
    <3>4. Standing(o) = <<>> <=> K = {}
      <4> HIDE DEF K
      <4> QED
        BY <2>1, <3>1, <3>3, PickElements
    <3>5. CASE K = {}
      <4>1. IF o.id \in SeedIds THEN o \in ObjectsOf(Seeds) ELSE o.lifecycleState = "draft"
        BY <3>2, <3>5 DEF Told
      <4>2. o \in ObjectsOf(Seeds) => o = Find(Seeds, o.id)
        BY Finding, SeedsOK DEF Book
      <4> QED
        BY <3>4, <3>5, <4>1, <4>2
    <3>6. CASE K # {}
      <4>1. PICK i \in K : \A j \in K : i <= j
        <5> HIDE DEF K
        <5> QED
          BY <3>3, <3>6, LeastNat
      <4>2. Standing(o)[1] = events[i]
        <5> HIDE DEF K
        <5> QED
          BY <2>1, <3>1, <3>3, <4>1, PickFirst
      <4>3. i \in DOMAIN events /\ LatestAt(events, load, o, i)
        BY <4>1 DEF LatestAt
      <4>4. o = Decided(o, events[i].action) /\ (o.aiHarnessCertified <=> events[i].action = "certify")
        BY <3>2, <4>3 DEF Told
      <4> HIDE DEF K
      <4> QED
        BY <3>4, <3>6, <4>2, <4>4
    <3> QED
      BY <3>5, <3>6
  <2>3. \A e \in ObjectsOf(events) : e.objectId \in IdsOf(objects)
    BY <2>1 DEF TrailOf, ObjectsOf
  <2> QED
    BY <2>2, <2>3
<1> QED
  BY <1>1, PageCorrect, TrailCorrect, PTL

\* A reload at any moment finds what the page shows.
THEOREM StorageCorrect == Spec => []StoredIsShown
<1>1. TrailInv => StoredIsShown
  BY DEF TrailInv, StoredIsShown
<1> QED
  BY <1>1, TrailCorrect, PTL
=============================================================================
