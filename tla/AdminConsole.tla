---------------------------- MODULE AdminConsole ----------------------------
(***************************************************************************)
(* The governance portal (apps/admin-console/src/main.ts): one page that   *)
(* holds the registry objects and the review events in memory, draws them, *)
(* and keeps the local drafts and the events in the browser's storage.     *)
(*                                                                         *)
(* A handler runs to its end, but each of its writes to the storage may    *)
(* throw (a full quota) and nothing catches that: what the handler changed *)
(* in memory stays, the writes and the render() after the failed one do    *)
(* not happen, and the page goes on showing the buttons it had.  `screen`  *)
(* is therefore state of its own: the buttons drawn by the last render().  *)
(* A tab that dies between two writes is a failed write and a Reload.      *)
(*                                                                         *)
(* Not modelled: wording (notices, notes, default reasons, time formats),  *)
(* the ids of events (nothing reads them), a browser without localStorage. *)
(***************************************************************************)
EXTENDS SeedRegistry, Selection

CONSTANTS
    Seeds,          \* the objects the page is built with, a sequence
    Forms,          \* what the registration form may be submitted with
    NormalId,       \* a typed id, if normalizeId changes it |-> the normalized id
    IllFormedIds,   \* normalized ids the id pattern refuses
    Risks,          \* the risk tiers the reader filters by
    Queries,        \* a text searched for, as the set of the words that contain it
    MaxEvents,      \* bound: review events kept
    MaxDrafts,      \* bound: local drafts
    MaxFaults,      \* bound: writes that fail
    MaxLoads,       \* bound: times the page is loaded
    MaxFilters      \* bound: filters set at once, the tab among them

ASSUME ConsoleAssumption ==
    /\ {} \in Queries
    /\ MaxEvents \in Nat /\ MaxDrafts \in Nat /\ MaxFaults \in Nat /\ MaxLoads \in Nat \ {0}
    /\ MaxFilters \in Nat \ {0}

\* What may be in the fields of the registration form: type and risk tier are menus.
Registrations ==
    [id : STRING, type : Types, name : STRING, owner : STRING, riskTier : RiskTiers,
     description : STRING, policies : SUBSET STRING, relationships : SUBSET STRING,
     sideEffects : Texts, targetSystem : Texts]

ASSUME FormsAssumption ==
    /\ Forms \subseteq Registrations
    /\ \A typed \in DOMAIN NormalId : NormalId[typed] \in STRING

VARIABLES
    objects,    \* registryObjects
    events,     \* reviewEvents, the latest first
    view,       \* state: filters, selection, form (inError: formErrors is not empty)
    screen,     \* the buttons the last render() drew, as <<object, button>>
    storage,    \* the two keys of localStorage
    load,       \* how many times the page was loaded
    faults      \* how many writes failed

vars == <<objects, events, view, screen, storage, load, faults>>

-----------------------------------------------------------------------------
(* Reading the registry                                                    *)

ObjectsOf(objs) == {objs[i] : i \in DOMAIN objs}
IdsOf(objs) == {o.id : o \in ObjectsOf(objs)}
SeedIds == IdsOf(Seeds)
Find(objs, id) == CHOOSE o \in ObjectsOf(objs) : o.id = id

Drafts(objs) == Where(objs, LAMBDA o : o.id \notin SeedIds)

\* selected(): the selected object, or the first one if it is gone
Selected(objs, v) == IF v.selectedId \in IdsOf(objs) THEN Find(objs, v.selectedId) ELSE objs[1]

Words(o) == {o.id, o.type, o.owner} \cup o.relationships \cup o.policies

Filtered(objs, v) == Where(objs, LAMBDA o :
    /\ v.type \in {"all", o.type}
    /\ v.risk \in {"all", o.riskTier}
    /\ v.certification = "certified" => o.aiHarnessCertified
    /\ v.certification = "not_certified" => ~o.aiHarnessCertified
    /\ v.query # {} => Words(o) \cap v.query # {})

\* certificationChecklist(): the checks an object does not pass.  Only the text a
\* draft is registered with says "requires review"; that of an intake does not.
FailedChecks(o) ==
    {c \in {"Owner assigned"} : o.owner \in {"", "unknown"}}
    \cup {c \in {"Risk tier declared"} : o.riskTier \notin RiskTiers}
    \cup {c \in {"Policy coverage"} :
             o.policies = {} \/ "policy-review-required" \in o.policies}
    \cup {c \in {"Relationships mapped"} : o.relationships = {}}
    \cup {c \in {"Certification evidence"} :
             ~o.aiHarnessCertified /\ o.evidence = "requires_review"}
    \cup {c \in {"Contract declared"} : o.type # "agent" /\ o.contract # "declared"}
    \cup {c \in {"Side effects declared"} : o.type = "tool" /\ o.sideEffects = ""}
    \cup {c \in {"Target system declared"} : o.type = "tool" /\ o.targetSystem = ""}

\* Mutant of CanCertify: an object that declares no contract may be certified.
CanCertifyUndeclared(o) ==
    FailedChecks(o) \subseteq {"Certification evidence", "Contract declared"}

CanCertify(o) == FailedChecks(o) \subseteq {"Certification evidence"}

\* The objects the page may be built with: each under an id of its own, those
\* that are certified past their whole checklist and no longer a draft.
WellFormed(seeds) ==
    /\ seeds \in Seq(RegistryObjects) /\ seeds # <<>>
    /\ \A i, j \in DOMAIN seeds : seeds[i].id = seeds[j].id => i = j
    /\ \A o \in ObjectsOf(seeds) :
          o.aiHarnessCertified => FailedChecks(o) = {} /\ o.lifecycleState # "draft"

ASSUME SeedsAssumption == WellFormed(Seeds)

ApprovalQueueItems(objs) == {o \in ObjectsOf(objs) :
    o.approvalState # "approved" \/ ~o.aiHarnessCertified \/ o.lifecycleState = "draft"}

\* The related objects of a type that exist
Linked(objs, os, type) ==
    {o \in ObjectsOf(objs) : o.type = type /\ \E p \in os : o.id \in p.relationships}

\* The nodes of the dependency graph: agents, their skills, the tools of both
GraphNodes(objs) ==
    LET agents == {o \in ObjectsOf(objs) : o.type = "agent"}
        skills == Linked(objs, agents, "skill")
    IN agents \cup skills \cup Linked(objs, agents \cup skills, "tool")

\* relationshipGaps(): linked ids that are not registered
UnknownLinks(objs) == (UNION {o.relationships : o \in ObjectsOf(objs)}) \ IdsOf(objs)

\* renderApprovalItem() and renderReviewActions(): the review buttons of objects
ReviewButtons(reviewed) ==
    {<<o.id, "intake">> : o \in {r \in reviewed : r.lifecycleState = "draft"}}
    \cup {<<o.id, "certify">> : o \in {r \in reviewed : CanCertify(r)}}
    \cup {<<o.id, "block">> : o \in reviewed}

\* render(): the buttons drawn
Screen(objs, v) ==
    LET queue == ApprovalQueueItems(objs)
        listed == ObjectsOf(Filtered(objs, v)) \cup queue \cup GraphNodes(objs)
    IN  {<<o.id, "select">> : o \in listed}
        \cup ReviewButtons(queue \cup {Selected(objs, v)})
        \cup (IF Drafts(objs) # <<>> THEN {<<"drafts", "clear">>} ELSE {})
        \cup (IF v.showRegistration THEN {<<"form", "submit">>} ELSE {})

-----------------------------------------------------------------------------
(* The storage                                                             *)

IsRegistryObject(o) ==
    "" \notin {o.id, o.type, o.owner, o.riskTier, o.lifecycleState}
LoadDrafts(stored) == Where(stored, IsRegistryObject)

\* Mutant of Saved: the seeds are saved with the drafts.
SavedAll(objs, evs, written) ==
    [drafts |-> IF written >= 1 THEN objs ELSE storage.drafts,
     events |-> IF written >= 2 THEN evs ELSE storage.events]

\* Mutant of Saved: only a registration saves the drafts, a review its events.
SavedTrail(objs, evs, written) ==
    [drafts |-> IF written = 1 THEN Drafts(objs) ELSE storage.drafts,
     events |-> IF written >= 2 THEN evs ELSE storage.events]

\* What saveDrafts() and then saveReviewEvents() leave in the storage when only
\* the first `written` of the two writes succeed.
Saved(objs, evs, written) ==
    [drafts |-> IF written >= 1 THEN Drafts(objs) ELSE storage.drafts,
     events |-> IF written >= 2 THEN evs ELSE storage.events]

\* The number of a handler's `writes` writes that may succeed before one fails
Succeeding(writes) == IF faults < MaxFaults THEN 0..writes ELSE {writes}

\* A handler that makes `writes` writes, `written` of which succeed, and draws
\* the page only if all did.
Stores(writes, written) ==
    /\ storage' = Saved(objects', events', written)
    /\ faults' = faults + (IF written < writes THEN 1 ELSE 0)
    /\ screen' = IF written = writes THEN Screen(objects', view') ELSE screen
    /\ UNCHANGED load

\* The page as a load of it finds it, drawn for the first time.
Loaded(stored) ==
    LET objs == LoadDrafts(stored.drafts) \o Seeds
        v == [type |-> "agent", risk |-> "all", certification |-> "all", query |-> {},
              selectedId |-> objs[1].id, showRegistration |-> FALSE, inError |-> FALSE]
    IN [objects |-> objs, events |-> stored.events, view |-> v, screen |-> Screen(objs, v)]

Init ==
    /\ storage = [drafts |-> <<>>, events |-> <<>>]
    /\ LET page == Loaded(storage)
       IN /\ objects = page.objects
          /\ events = page.events
          /\ view = page.view
          /\ screen = page.screen
    /\ load = 1
    /\ faults = 0

\* The reader reloads the page, or opens it again after the tab died.
Reload ==
    /\ load < MaxLoads
    /\ load' = load + 1
    /\ LET page == Loaded(storage)
       IN /\ objects' = page.objects
          /\ events' = page.events
          /\ view' = page.view
          /\ screen' = page.screen
    /\ UNCHANGED <<storage, faults>>

-----------------------------------------------------------------------------
(* Reviewing                                                               *)

ReviewActions == {"intake", "certify", "block"}

\* Mutant of Decided: the two states of an intake are swapped.
DecidedSwapped(o, action) ==
    CASE action = "intake" ->
            [o EXCEPT !.lifecycleState = "pending", !.approvalState = "pending_approval"]
      [] action = "certify" -> [o EXCEPT !.aiHarnessCertified = TRUE]
      [] action = "block" -> [o EXCEPT !.lifecycleState = "blocked"]

\* What a decision makes of an object
Decided(o, action) ==
    CASE action = "intake" ->
            [o EXCEPT !.lifecycleState = "pending_approval", !.approvalState = "pending",
                      !.evidence = "intake_here"]
      [] action = "certify" ->
            [o EXCEPT !.lifecycleState = "active", !.approvalState = "approved",
                      !.aiHarnessCertified = TRUE, !.evidence = "certified_here"]
      [] action = "block" ->
            [o EXCEPT !.lifecycleState = "blocked", !.approvalState = "blocked",
                      !.aiHarnessCertified = FALSE, !.evidence = "blocked_here"]

\* createReviewEvent(); the load it was made in stands for its timestamp.
CreateReviewEvent(o, action) == [objectId |-> o.id, action |-> action, load |-> load]

SavesOfReview == 2

\* A click on one of the review buttons drawn.  Only "certify" is looked at
\* again in the handler; an object that is gone is ignored.
ApplyReviewDecision(id, action) ==
    /\ <<id, action>> \in screen
    /\ id \in IdsOf(objects)
    /\ Len(events) < MaxEvents
    /\ LET item == Find(objects, id)
       IN IF action = "certify" /\ ~CanCertify(item)
          THEN /\ screen' = Screen(objects, view)
               /\ UNCHANGED <<objects, events, view, storage, load, faults>>
          ELSE /\ objects' = [i \in DOMAIN objects |->
                                 IF objects[i] = item THEN Decided(item, action) ELSE objects[i]]
               /\ events' = <<CreateReviewEvent(item, action)>> \o events
               /\ view' = [view EXCEPT !.selectedId = id]
               /\ \E written \in Succeeding(SavesOfReview) : Stores(SavesOfReview, written)

\* Mutant of EventsWithout: the events of the drafts are kept.
EventsKept(ids) == events

\* The events about other objects than those
EventsWithout(ids) == Where(events, LAMBDA e : e.objectId \notin ids)

\* "Clear drafts": the drafts and their events go.
ClearDrafts ==
    /\ <<"drafts", "clear">> \in screen
    /\ objects' = Where(objects, LAMBDA o : o.id \in SeedIds)
    /\ events' = EventsWithout(IdsOf(Drafts(objects)))
    /\ \E written \in Succeeding(2) :
          /\ view' = IF written < 2 THEN view
                     ELSE LET shown == Filtered(objects', view)
                          IN [view EXCEPT !.selectedId =
                                 IF shown # <<>> THEN shown[1].id ELSE objects'[1].id]
          /\ Stores(2, written)

-----------------------------------------------------------------------------
(* Registering                                                             *)

NormalizeId(typed) == IF typed \in DOMAIN NormalId THEN NormalId[typed] ELSE typed

\* The errors an id field is refused with
IdErrors(id) ==
    IF id = "" \/ id \in IllFormedIds \/ id \in IdsOf(objects) THEN {"id"} ELSE {}

LinksTo(form, type) == \E o \in ObjectsOf(objects) : o.id \in form.relationships /\ o.type = type

\* Mutant of LinkErrors: the links only have to be there.
LinkErrorsIfNone(form) == {field \in {"relationships"} : form.relationships = {}}

\* The errors its relationships are refused with
LinkErrors(form) ==
    {field \in {"relationships"} :
        \/ form.relationships = {}
        \/ ~(form.relationships \subseteq IdsOf(objects))
        \/ form.type = "agent" /\ ~LinksTo(form, "skill")
        \/ form.type = "skill" /\ ~LinksTo(form, "tool")}

\* validateRegistrationForm(): the fields in error
ValidateRegistrationForm(form) ==
    IdErrors(NormalizeId(form.id))
    \cup {field \in {"name"} : form.name = ""}
    \cup {field \in {"owner"} : form.owner \in {"", "unknown"}}
    \cup {field \in {"description"} : form.description # "long"}
    \cup {field \in {"policies"} : form.policies = {}}
    \cup {field \in {"sideEffects"} : form.type = "tool" /\ form.sideEffects = ""}
    \cup {field \in {"targetSystem"} : form.type = "tool" /\ form.targetSystem = ""}
    \cup LinkErrors(form)

Draft(form) ==
    [id |-> NormalizeId(form.id), type |-> form.type, owner |-> form.owner,
     riskTier |-> form.riskTier, lifecycleState |-> "draft", approvalState |-> "pending",
     aiHarnessCertified |-> FALSE, evidence |-> "requires_review",
     policies |-> form.policies, relationships |-> form.relationships,
     contract |-> IF form.type = "agent" THEN "none" ELSE "to_be_defined",
     sideEffects |-> IF form.type = "tool" THEN form.sideEffects ELSE "",
     targetSystem |-> IF form.type = "tool" THEN form.targetSystem ELSE ""]

RefuseRegistration(form) ==
    /\ <<"form", "submit">> \in screen
    /\ ValidateRegistrationForm(form) # {}
    /\ view' = [view EXCEPT !.inError = TRUE,
                            !.showRegistration = TRUE]
    /\ screen' = Screen(objects, view')
    /\ UNCHANGED <<objects, events, storage, load, faults>>

\* The draft is in the registry before it is saved; the form closes after.
Register(form) ==
    /\ <<"form", "submit">> \in screen
    /\ ValidateRegistrationForm(form) = {}
    /\ Len(Drafts(objects)) < MaxDrafts
    /\ objects' = <<Draft(form)>> \o objects
    /\ \E written \in Succeeding(1) :
          /\ view' = IF written < 1 THEN view
                     ELSE [type |-> form.type, risk |-> "all", certification |-> "all",
                           query |-> {}, selectedId |-> NormalizeId(form.id),
                           showRegistration |-> FALSE, inError |-> FALSE]
          /\ Stores(1, written)
    /\ UNCHANGED events

-----------------------------------------------------------------------------
(* Looking                                                                 *)

\* Every change of what is shown ends in render().
Shows(v) ==
    /\ view' = v
    /\ screen' = Screen(objects, v)
    /\ UNCHANGED <<objects, events, storage, load, faults>>

NewRegistration ==
    Shows([view EXCEPT !.inError = FALSE, !.showRegistration = ~view.showRegistration])

CancelRegistration ==
    /\ <<"form", "submit">> \in screen
    /\ Shows([view EXCEPT !.inError = FALSE, !.showRegistration = FALSE])

\* The first object shown is selected; the tab falls back to the first of all,
\* the other filters to the selection there was.
Narrowed(v, otherwise) ==
    LET shown == Filtered(objects, v)
    IN [v EXCEPT !.selectedId = IF shown # <<>> THEN shown[1].id ELSE otherwise]

\* How many filters are set
Narrowings(v) ==
    Cardinality({f \in {"type", "risk", "certification"} : v[f] # "all"})
    + (IF v.query = {} THEN 0 ELSE 1)

Filter(v, otherwise) == Narrowings(v) <= MaxFilters /\ Shows(Narrowed(v, otherwise))

ChooseTab(type) == Filter([view EXCEPT !.type = type], objects[1].id)
Search(query) == Filter([view EXCEPT !.query = query], view.selectedId)
FilterRisk(risk) == Filter([view EXCEPT !.risk = risk], view.selectedId)
FilterCertification(c) ==
    Filter([view EXCEPT !.certification = c], view.selectedId)

Select(id) ==
    /\ <<id, "select">> \in screen
    /\ Shows([view EXCEPT !.selectedId = id])

Next ==
    \/ Reload
    \/ \E id \in IdsOf(objects), action \in ReviewActions : ApplyReviewDecision(id, action)
    \/ ClearDrafts
    \/ \E form \in Forms : RefuseRegistration(form)
    \/ \E form \in Forms : Register(form)
    \/ NewRegistration
    \/ CancelRegistration
    \/ \E type \in Types \cup {"all"} : ChooseTab(type)
    \/ \E query \in Queries : Search(query)
    \/ \E risk \in Risks \cup {"all"} : FilterRisk(risk)
    \/ \E c \in {"all", "certified", "not_certified"} : FilterCertification(c)
    \/ \E button \in screen : Select(button[1])

Spec == Init /\ [][Next]_vars

-----------------------------------------------------------------------------
(* Properties                                                              *)

\* The registry, the events, the selection and the storage have their types.
TypeOK ==
    /\ \A o \in ObjectsOf(objects) \cup ObjectsOf(storage.drafts) :
          /\ o.type \in Types /\ o.riskTier \in RiskTiers
          /\ o.lifecycleState \in LifecycleStates /\ o.approvalState \in ApprovalStates
          /\ o.aiHarnessCertified \in BOOLEAN
    /\ \A e \in ObjectsOf(events) \cup ObjectsOf(storage.events) :
          e.action \in ReviewActions /\ e.load \in 1..load
    /\ view.type \in Types \cup {"all"} /\ view.query \in Queries
    /\ load \in 1..MaxLoads /\ faults \in 0..MaxFaults

\* An id names one object of the page, also after drafts were written, cleared
\* and read back (main.ts: validateRegistrationForm compares the normalized id,
\* saveDrafts leaves the seeds out).
UniqueIds ==
    /\ \A i, j \in DOMAIN objects : objects[i].id = objects[j].id => i = j
    /\ SeedIds \subseteq IdsOf(objects)

\* A certified object, on the page or in the storage, passes its whole checklist:
\* the page never shows "certified" next to a gap, whichever buttons a page that
\* failed to redraw still offers (main.ts: canCertify and applyReviewDecision).
CertifiedIsReady ==
    \A o \in ObjectsOf(objects) \cup ObjectsOf(storage.drafts) :
        o.aiHarnessCertified => FailedChecks(o) = {}

\* A registration never adds a dangling edge to the dependency graph: all that
\* relationshipGaps() counts as unknown comes with the seeds, and a draft agent
\* (skill) keeps a skill (tool) to use through reviews, clears and reloads.
DraftLinksResolve ==
    /\ UnknownLinks(objects) \subseteq UnknownLinks(Seeds)
    /\ \A o \in ObjectsOf(Drafts(objects)) :
          /\ o.type = "agent" => Linked(objects, {o}, "skill") # {}
          /\ o.type = "skill" => Linked(objects, {o}, "tool") # {}

\* The events of an object, the latest first, that its state still reflects: all
\* of a draft's, and those of a seed since the page was loaded.
Standing(o) == Where(events, LAMBDA e :
    e.objectId = o.id /\ (o.id \in SeedIds => e.load = load))

\* As long as no write failed, the evidence trail tells the truth about the
\* registry: what an object shows is what its latest standing decision made of
\* it, an object never decided on is as it was registered, and no event is about
\* an object that is gone.  A seed forgets its decisions in a reload, which is
\* why only those since then stand.
TrailTellsDecision == faults = 0 =>
    /\ \A o \in ObjectsOf(objects) :
          IF Standing(o) = <<>>
          THEN IF o.id \in SeedIds THEN o = Find(Seeds, o.id) ELSE o.lifecycleState = "draft"
          ELSE LET action == Standing(o)[1].action
               IN /\ o = Decided(o, action)
                  /\ o.aiHarnessCertified <=> action = "certify"
    /\ \A e \in ObjectsOf(events) : e.objectId \in IdsOf(objects)

\* As long as no write failed, a reload at any moment loses no draft, no decision
\* on a draft and no event.
StoredIsShown == faults = 0 =>
    storage = [drafts |-> Drafts(objects), events |-> events]

=============================================================================
