-------------------------- MODULE Inventory_proofs --------------------------
(***************************************************************************)
(* Theorems about Inventory, for every number of nodes, fleet, SSH config  *)
(* and bound; and, at the end, about ListView, for every list.             *)
(***************************************************************************)
EXTENDS Inventory, ListView, TLAPS

USE NodeCountAssumption DEF Node

----------------------------------------------------------------------------
(* Types *)

LEMMA NoCallIsACall == NoCall \in Calls
BY DEF NoCall, Calls

LEMMA InitTypeOK == Init => TypeOK
<1> SUFFICES ASSUME Init PROVE TypeOK
  OBVIOUS
<1>2. hosts \in Seq(Alias)
  BY HostListsAssumption DEF Init
<1>3. fleet \in [Node -> NodeState]
  BY FleetsAssumption DEF Init
<1>4. overlays \in [ID -> Overlay]
  BY DEF Init, Overlay, NoOverlay
<1>5. call \in Calls
  BY NoCallIsACall DEF Init
<1>6. seen \in [node : [Node -> SUBSET NodeState], overlay : [ID -> SUBSET Overlay]]
  BY DEF Init, Nothing
<1>7. rows \subseteq RowType
  BY DEF Init
<1>8. QED
  BY <1>2, <1>3, <1>4, <1>5, <1>6, <1>7, BoundsAssumption DEF Init, TypeOK

\* The machines of a config are machines.
LEMMA HostMachinesAreMachines ==
    ASSUME NEW aliases \in Seq(Alias) PROVE HostMachines(aliases) \subseteq Machine
<1>1. ASSUME NEW i \in DOMAIN aliases
      PROVE  /\ aliases[i] \in ID /\ i \in Nat
             /\ [id |-> aliases[i], place |-> i, health |-> "unknown",
                 named |-> TRUE] \in Machine
  BY DEF ID, Machine, Healths
<1>2. QED
  BY <1>1 DEF HostMachines

\* What SSM says of the nodes of a page.
LEMMA PagesAreTyped ==
    ASSUME fleet \in [Node -> NodeState], NEW upto \in 0 .. NodeCount
    PROVE  {[id |-> n, health |-> fleet[n].ssm] : n \in Page(upto, Registered)}
               \subseteq [id : Node, health : {"up", "down"}]
BY DEF Page, Registered, NodeState

\* The join has machines only.
LEMMA JoinIsTyped ==
    ASSUME call \in Calls, NEW tagged PROVE Join(tagged) \subseteq Machine
<1>1. ASSUME NEW x \in call.nodes
      PROVE  [id |-> x.id, place |-> x.id, health |-> x.health,
              named |-> x.id \in tagged] \in Machine
  <2>1. x.id \in Node /\ x.health \in {"up", "down"}
    BY DEF Calls
  <2>2. x.id \in ID /\ x.id \in Nat /\ x.health \in Healths /\ (x.id \in tagged) \in BOOLEAN
    BY <2>1 DEF ID, Healths
  <2>3. QED
    BY <2>2 DEF Machine
<1>2. QED
  BY <1>1 DEF Join

\* A row of a machine and an overlay.
LEMMA RowIsTyped ==
    ASSUME NEW m \in Machine, NEW overlay \in Overlay PROVE Row(m, overlay) \in RowType
BY DEF Row, RowType, Machine, Overlay, Healths

\* An answer keeps the types.
LEMMA AnswerIsTyped ==
    ASSUME TypeOK, NEW provider \in {"ssh", "aws"}, NEW ok \in BOOLEAN,
           NEW machines \in SUBSET Machine, Answer(provider, ok, machines)
    PROVE  TypeOK'
<1>1. call' \in Calls
  <2> call \in Calls /\ hosts \in Seq(Alias)
    BY DEF TypeOK
  <2>1. call.statuses \cup {[name |-> provider, ok |-> ok]}
            \in SUBSET [name : {"ssh", "aws"}, ok : BOOLEAN]
    BY DEF Calls
  <2>2. (IF provider = "ssh" /\ ok THEN hosts ELSE call.read) \in Seq(Alias)
    BY DEF Calls
  <2>3. QED
    BY <2>1, <2>2 DEF Answer, Calls
<1>2. QED
  BY <1>1 DEF Answer, Listing, world, counters, TypeOK

\* Each step of the listing keeps the types.
LEMMA ListStepTypeOK == TypeOK /\ ListStep => TypeOK'
<1> SUFFICES ASSUME TypeOK, ListStep PROVE TypeOK'
  OBVIOUS
<1>1. CASE ReadConfig
  <2>1. HostMachines(hosts) \in SUBSET Machine
    BY HostMachinesAreMachines DEF TypeOK
  <2>2. QED
    BY <1>1, <2>1, AnswerIsTyped DEF ReadConfig
<1>2. CASE SSHFails
  <2>1. Answer("ssh", FALSE, {}) /\ {} \in SUBSET Machine
    BY <1>2 DEF SSHFails
  <2>2. QED
    BY <2>1, AnswerIsTyped
<1>3. CASE AskAWS
  <2>1. call' \in Calls
    BY <1>3 DEF AskAWS, TypeOK, Calls
  <2>2. QED
    BY <1>3, <2>1 DEF AskAWS, Listing, world, counters, TypeOK
<1>4. ASSUME NEW upto \in 0 .. NodeCount, NEW more \in BOOLEAN, SSMPage(upto, more)
      PROVE  TypeOK'
  <2>1. call.nodes \cup {[id |-> n, health |-> fleet[n].ssm] :
                            n \in Page(upto, Registered)}
            \in SUBSET [id : Node, health : {"up", "down"}]
    BY PagesAreTyped DEF TypeOK, Calls
  <2>2. (IF more THEN upto ELSE 0) \in 0 .. NodeCount
            /\ (IF more THEN "ssm" ELSE "ec2") \in {"idle", "loop", "ssm", "ec2"}
    OBVIOUS
  <2>3. call' \in Calls
    BY <1>4, <2>1, <2>2 DEF SSMPage, TypeOK, Calls
  <2>4. QED
    BY <1>4, <2>3 DEF SSMPage, Listing, world, counters, TypeOK
<1>5. ASSUME NEW upto \in 0 .. NodeCount, NEW more \in BOOLEAN, EC2Page(upto, more)
      PROVE  TypeOK'
  <2>1. call' \in Calls
    BY <1>5 DEF EC2Page, Page, Tagged, TypeOK, Calls
  <2>2. QED
    BY <1>5, <2>1 DEF EC2Page, Listing, world, counters, TypeOK
<1>6. ASSUME NEW upto \in 0 .. NodeCount, LastEC2Page(upto) PROVE TypeOK'
  <2>1. Join(call.tagged \cup Page(upto, Tagged)) \in SUBSET Machine
    BY JoinIsTyped DEF TypeOK
  <2>2. QED
    BY <1>6, <2>1, AnswerIsTyped DEF LastEC2Page
<1>7. CASE AWSFails
  <2>1. Answer("aws", FALSE, {}) /\ {} \in SUBSET Machine
    BY <1>7 DEF AWSFails
  <2>2. QED
    BY <2>1, AnswerIsTyped
<1>8. ASSUME NEW m \in call.todo, Merge(m) PROVE TypeOK'
  <2>1. m \in Machine /\ m.id \in ID
    BY DEF TypeOK, Calls, Machine
  <2>2. PICK overlay \in {overlays[m.id]} \cup (IF StoreFails THEN {NoOverlay} ELSE {}) :
           /\ call' = [call EXCEPT
                  !.todo = @ \ {m},
                  !.got = IF overlay.hidden /\ ~call.show THEN @
                          ELSE @ \cup {Row(m, overlay)}]
           /\ seen' = [seen EXCEPT !.overlay[m.id] = @ \cup {overlay}]
    BY <1>8 DEF Merge
  <2>3. overlay \in Overlay
    <3>1. overlays[m.id] \in Overlay /\ NoOverlay \in Overlay
      BY <2>1 DEF TypeOK, Overlay, NoOverlay
    <3>2. QED
      BY <3>1
  <2>4. Row(m, overlay) \in RowType
    BY <2>1, <2>3, RowIsTyped
  <2>5. call' \in Calls
    BY <2>2, <2>4 DEF TypeOK, Calls
  <2>6. seen' \in [node : [Node -> SUBSET NodeState], overlay : [ID -> SUBSET Overlay]]
    BY <2>1, <2>2, <2>3 DEF TypeOK
  <2>7. QED
    BY <1>8, <2>5, <2>6 DEF Merge, Listing, world, counters, TypeOK
<1>9. CASE EndListing
  <2>1. call' \in Calls
    BY <1>9, NoCallIsACall DEF EndListing
  <2>2. seen' \in [node : [Node -> SUBSET NodeState], overlay : [ID -> SUBSET Overlay]]
    BY <1>9 DEF EndListing, Nothing
  <2>3. rows' \subseteq RowType
    BY <1>9 DEF EndListing, TypeOK, Calls
  <2>4. QED
    BY <1>9, <2>1, <2>2, <2>3 DEF EndListing, world, counters, TypeOK
<1>10. QED
  BY <1>1, <1>2, <1>3, <1>4, <1>5, <1>6, <1>7, <1>8, <1>9 DEF ListStep

\* So do the steps of the world and of the operator, and a new listing.
LEMMA OtherStepsTypeOK == TypeOK /\ (Begin \/ Outside) => TypeOK'
<1> SUFFICES ASSUME TypeOK, Begin \/ Outside PROVE TypeOK'
  OBVIOUS
<1>1. ASSUME NEW covers \in Sources, NEW show \in BOOLEAN, BeginListing(covers, show)
      PROVE  TypeOK'
  <2>1. covers \in SUBSET {"ssh", "aws"}
    BY SourcesAssumption
  <2>2. call' \in Calls
    BY <1>1, <2>1, NoCallIsACall DEF BeginListing, Calls
  <2>3. seen' \in [node : [Node -> SUBSET NodeState], overlay : [ID -> SUBSET Overlay]]
    BY <1>1 DEF BeginListing, TypeOK
  <2>4. listings' \in 0 .. MaxListings
    BY <1>1, BoundsAssumption DEF BeginListing, TypeOK
  <2>5. QED
    BY <1>1, <2>2, <2>3, <2>4 DEF BeginListing, world, TypeOK
<1>2. ASSUME NEW n \in Node, NEW state \in NodeState, ChangeFleet(n, state)
      PROVE  TypeOK'
  <2>1. fleet' \in [Node -> NodeState] /\ changes' \in 0 .. MaxChanges
    BY <1>2, BoundsAssumption DEF ChangeFleet, TypeOK
  <2>2. seen' \in [node : [Node -> SUBSET NodeState], overlay : [ID -> SUBSET Overlay]]
    BY <1>2 DEF ChangeFleet, TypeOK
  <2>3. QED
    BY <1>2, <2>1, <2>2 DEF ChangeFleet, TypeOK
<1>3. ASSUME NEW aliases \in HostLists, ChangeHosts(aliases) PROVE TypeOK'
  <2>1. hosts' \in Seq(Alias) /\ changes' \in 0 .. MaxChanges
    BY <1>3, HostListsAssumption, BoundsAssumption DEF ChangeHosts, TypeOK
  <2>2. QED
    BY <1>3, <2>1 DEF ChangeHosts, TypeOK
<1>4. ASSUME NEW m \in ID, NEW overlay \in Overlay, Save(m, overlay), Edit,
             rows' \subseteq RowType
      PROVE  TypeOK'
  <2>1. overlays' \in [ID -> Overlay] /\ edits' \in 0 .. MaxEdits
    BY <1>4, BoundsAssumption DEF Save, Edit, TypeOK
  <2>2. seen' \in [node : [Node -> SUBSET NodeState], overlay : [ID -> SUBSET Overlay]]
    BY <1>4 DEF Save, TypeOK
  <2>3. QED
    BY <1>4, <2>1, <2>2 DEF Save, TypeOK
<1>5. ASSUME NEW r \in rows, Check(r) PROVE TypeOK'
  <2>1. r \in RowType /\ r.id \in ID /\ overlays[r.id] \in Overlay
    BY DEF TypeOK, RowType
  <2>2. PICK health \in IF r.id \in Node THEN {r.health} ELSE {"up", "down"} :
           /\ Save(r.id, [overlays[r.id] EXCEPT !.health = health])
           /\ rows' = {IF x.id = r.id THEN [x EXCEPT !.health = health] ELSE x :
                          x \in rows}
    BY <1>5 DEF Check
  <2>3. health \in Healths
    BY <2>1, <2>2 DEF RowType, Healths
  <2>4. [overlays[r.id] EXCEPT !.health = health] \in Overlay
    BY <2>1, <2>3 DEF Overlay, Healths
  <2>5. ASSUME NEW x \in rows
        PROVE  x \in RowType /\ [x EXCEPT !.health = health] \in RowType
    <3>1. x \in RowType
      BY DEF TypeOK
    <3> QED
      BY <2>3, <3>1 DEF RowType
  <2>6. rows' \subseteq RowType
    BY <2>2, <2>5
  <2>7. QED
    BY <1>4, <1>5, <2>1, <2>2, <2>4, <2>6 DEF Check
<1>6. ASSUME NEW r \in rows, ToggleHidden(r) PROVE TypeOK'
  <2> DEFINE edited == [r EXCEPT !.hidden = ~@]
  <2>1. r \in RowType /\ r.id \in ID
    BY DEF TypeOK, RowType
  <2>2. edited \in RowType
    BY <2>1 DEF RowType
  <2>3. [hidden |-> edited.hidden, health |-> edited.health] \in Overlay
    BY <2>2 DEF RowType, Overlay, Healths
  <2>4. rows' \subseteq RowType
    BY <1>6, <2>2 DEF ToggleHidden, TypeOK
  <2>5. QED
    BY <1>4, <1>6, <2>1, <2>3, <2>4 DEF ToggleHidden
<1>7. QED
  BY <1>1, <1>2, <1>3, <1>5, <1>6 DEF Begin, Outside

\* Every variable keeps its type: a row never shows "none" for a health, and
\* the token and the pages stay within the nodes.
THEOREM TypesHold == Spec => []TypeOK
<1>1. TypeOK /\ [Next]_vars => TypeOK'
  <2>1. TypeOK /\ UNCHANGED vars => TypeOK'
    BY DEF TypeOK, vars, world, counters
  <2>2. QED
    BY <2>1, ListStepTypeOK, OtherStepsTypeOK DEF Next
<1>2. QED
  BY InitTypeOK, <1>1, PTL DEF Spec

----------------------------------------------------------------------------
(* The inductive invariant *)

InAWS == At("ssm") \/ At("ec2")

Asked(p) == p \in call.covers /\ p \notin call.ask

\* What the loop has behind it has one status each, what is ahead has none.
CallShape ==
    /\ call.ask \subseteq call.covers
    /\ At("idle") => call = NoCall
    /\ InAWS => call.todo = {} /\ "aws" \in call.ask
    /\ \A p \in {"ssh", "aws"} : Asked(p) => (Says(p, TRUE) <=> ~Says(p, FALSE))
    /\ \A p \in {"ssh", "aws"}, ok \in BOOLEAN : Says(p, ok) => Asked(p)

\* What is true now has been seen.
Seeing ==
    ~At("idle") => /\ \A n \in Node : fleet[n] \in seen.node[n]
                   /\ \A m \in ID : overlays[m] \in seen.overlay[m]

Was(n, ssm) == \E state \in seen.node[n] : state.ssm = ssm
WasTagged(n, tagged) == \E state \in seen.node[n] : state.ec2 = tagged

ListedAs(r) == [id |-> r.id, place |-> r.place, health |-> r.listed, named |-> r.named]

\* Every host that was read waits for its overlay, has its row or is hidden.
HostsAreKept ==
    /\ \A m \in call.todo : m.id \in Alias =>
          Says("ssh", TRUE) /\ m \in HostMachines(call.read)
    /\ \A r \in call.got : r.id \in Alias =>
          Says("ssh", TRUE) /\ ListedAs(r) \in HostMachines(call.read) /\ ShowsOverlay(r)
    /\ Says("ssh", TRUE) => \A m \in HostMachines(call.read) :
          \/ m \in call.todo
          \/ MayBeHidden(m.id)
          \/ \E r \in call.got : r.id = m.id /\ r.place = m.place

\* The pages up to a number hold each node up to it once, or it was absent.
SSMPagesHold(upto) ==
    /\ \A x \in call.nodes : x.id <= upto /\ Was(x.id, x.health)
    /\ \A x, y \in call.nodes : x.id = y.id => x = y
    /\ \A n \in 1 .. upto : Was(n, "absent") \/ \E x \in call.nodes : x.id = n

EC2PagesHold(upto) ==
    /\ call.tagged \subseteq 1 .. upto
    /\ \A n \in 1 .. upto : WasTagged(n, n \in call.tagged)

PagesAreKept ==
    /\ At("loop") /\ "aws" \in call.ask =>
          call.nodes = {} /\ call.tagged = {} /\ call.token = 0
    /\ At("ssm") => SSMPagesHold(call.token) /\ call.tagged = {}
    /\ At("ec2") => SSMPagesHold(NodeCount) /\ EC2PagesHold(call.token)

\* Every node waits for its overlay, has its row, is hidden or was absent.
NodesAreKept ==
    /\ \A m \in call.todo : m.id \in Node =>
          Says("aws", TRUE) /\ Was(m.id, m.health) /\ WasTagged(m.id, m.named)
    /\ \A r \in call.got : r.id \in Node =>
          /\ Says("aws", TRUE) /\ Was(r.id, r.listed) /\ WasTagged(r.id, r.named)
          /\ ShowsOverlay(r)
    /\ \A m, k \in call.todo : m.id \in Node /\ m.id = k.id => m = k
    /\ \A r, s \in call.got : r.id \in Node /\ r.id = s.id => r = s
    /\ \A m \in call.todo, r \in call.got : m.id \in Node => m.id # r.id
    /\ Says("aws", TRUE) => \A n \in Node :
          \/ Was(n, "absent")
          \/ MayBeHidden(n)
          \/ \E m \in call.todo : m.id = n
          \/ \E r \in call.got : r.id = n

IInv ==
    /\ TypeOK
    /\ CallShape
    /\ Seeing
    /\ HostsAreKept
    /\ PagesAreKept
    /\ NodesAreKept

----------------------------------------------------------------------------
(* Steps that leave the listing alone *)

\* What was seen during a call stays seen.
LEMMA SeenStays ==
    ASSUME \A n \in Node : seen.node[n] \subseteq seen'.node[n],
           \A m \in ID : seen.overlay[m] \subseteq seen'.overlay[m],
           call'.show = call.show
    PROVE  /\ \A n \in Node : \A ssm : Was(n, ssm) => Was(n, ssm)'
           /\ \A n \in Node : \A tagged : WasTagged(n, tagged) => WasTagged(n, tagged)'
           /\ \A m \in ID : MayBeHidden(m) => MayBeHidden(m)'
           /\ \A r \in RowType : ShowsOverlay(r) => ShowsOverlay(r)'
<1>1. \A n \in Node : \A ssm : Was(n, ssm) => Was(n, ssm)'
  BY DEF Was
<1>2. \A n \in Node : \A tagged : WasTagged(n, tagged) => WasTagged(n, tagged)'
  BY DEF WasTagged
<1>3. \A m \in ID : MayBeHidden(m) => MayBeHidden(m)'
  BY DEF MayBeHidden
<1>4. \A r \in RowType : ShowsOverlay(r) => ShowsOverlay(r)'
  BY DEF ShowsOverlay, RowType
<1>5. QED
  BY <1>1, <1>2, <1>3, <1>4

\* The machines of the config that was read have the IDs of hosts.
LEMMA HostIDs ==
    ASSUME NEW aliases \in Seq(Alias), NEW m \in HostMachines(aliases)
    PROVE  m.id \in Alias /\ m.id \in ID /\ m.id \notin Node
BY AliasAssumption DEF HostMachines, ID

LEMMA CallKept ==
    ASSUME IInv, call' = call,
           \A n \in Node : seen.node[n] \subseteq seen'.node[n],
           \A m \in ID : seen.overlay[m] \subseteq seen'.overlay[m]
    PROVE  CallShape' /\ HostsAreKept' /\ PagesAreKept' /\ NodesAreKept'
<1>1. /\ \A n \in Node : \A ssm : Was(n, ssm) => Was(n, ssm)'
      /\ \A n \in Node : \A tagged : WasTagged(n, tagged) => WasTagged(n, tagged)'
      /\ \A m \in ID : MayBeHidden(m) => MayBeHidden(m)'
      /\ \A r \in RowType : ShowsOverlay(r) => ShowsOverlay(r)'
  BY SeenStays
<1>2. call.read \in Seq(Alias) /\ call.got \subseteq RowType
      /\ call.nodes \subseteq [id : Node, health : {"up", "down"}]
      /\ call.token \in 0 .. NodeCount
  BY DEF IInv, TypeOK, Calls
<1>3. CallShape'
  BY DEF IInv, CallShape, At, InAWS, Asked, Says
<1>4. \A p, ok : Says(p, ok)' <=> Says(p, ok)
  BY DEF Says
<1>5. HostsAreKept'
  <2>1. \A m \in HostMachines(call.read) : m.id \in ID
    BY <1>2, HostIDs
  <2>2. QED
    BY <1>1, <1>2, <1>4, <2>1 DEF IInv, HostsAreKept
<1>6. PagesAreKept'
  <2>1. SSMPagesHold(call.token) => SSMPagesHold(call.token)'
    BY <1>1, <1>2 DEF SSMPagesHold
  <2>2. SSMPagesHold(NodeCount) => SSMPagesHold(NodeCount)'
    BY <1>1, <1>2 DEF SSMPagesHold
  <2>3. EC2PagesHold(call.token) => EC2PagesHold(call.token)'
    BY <1>1, <1>2 DEF EC2PagesHold
  <2>4. QED
    BY <2>1, <2>2, <2>3 DEF IInv, PagesAreKept, At
<1>7. NodesAreKept'
  <2>1. Node \subseteq ID
    BY DEF ID
  <2>2. QED
    BY <1>1, <1>2, <1>4, <2>1 DEF IInv, NodesAreKept
<1>8. QED
  BY <1>3, <1>5, <1>6, <1>7

LEMMA OutsideKeepsInv == IInv /\ Outside => IInv'
<1> SUFFICES ASSUME IInv, Outside PROVE IInv'
  OBVIOUS
<1>1. TypeOK'
  BY OtherStepsTypeOK DEF IInv
<1>2. ASSUME NEW n \in Node, NEW state \in NodeState, ChangeFleet(n, state)
      PROVE  IInv'
  <2>1. /\ call' = call /\ seen'.overlay = seen.overlay /\ overlays' = overlays
        /\ fleet' = [fleet EXCEPT ![n] = state]
        /\ seen'.node = [seen.node EXCEPT ![n] = IF At("idle") THEN @ ELSE @ \cup {state}]
    BY <1>2 DEF ChangeFleet, IInv, TypeOK
  <2>2. \A k \in Node : seen.node[k] \subseteq seen'.node[k]
    BY <2>1 DEF IInv, TypeOK
  <2>3. Seeing'
    BY <2>1 DEF IInv, TypeOK, Seeing, At
  <2>4. QED
    BY <1>1, <2>1, <2>2, <2>3, CallKept DEF IInv
<1>3. ASSUME NEW aliases \in HostLists, ChangeHosts(aliases) PROVE IInv'
  <2>1. call' = call /\ seen' = seen /\ fleet' = fleet /\ overlays' = overlays
    BY <1>3 DEF ChangeHosts
  <2>2. Seeing'
    BY <2>1 DEF IInv, Seeing, At
  <2>3. QED
    BY <1>1, <2>1, <2>2, CallKept DEF IInv
<1>4. ASSUME NEW m \in ID, NEW overlay, Save(m, overlay) PROVE IInv'
  <2>1. /\ call' = call /\ seen'.node = seen.node /\ fleet' = fleet
        /\ overlays' = [overlays EXCEPT ![m] = overlay]
        /\ seen'.overlay = [seen.overlay EXCEPT ![m] =
                               IF At("idle") THEN @ ELSE @ \cup {overlay}]
    BY <1>4 DEF Save, IInv, TypeOK
  <2>2. \A k \in ID : seen.overlay[k] \subseteq seen'.overlay[k]
    BY <2>1 DEF IInv, TypeOK
  <2>3. Seeing'
    BY <2>1 DEF IInv, TypeOK, Seeing, At
  <2>4. QED
    BY <1>1, <2>1, <2>2, <2>3, CallKept DEF IInv
<1>5. ASSUME NEW r \in rows PROVE r.id \in ID
  BY DEF IInv, TypeOK, RowType
<1>6. ASSUME NEW r \in rows, Check(r) PROVE IInv'
  BY <1>4, <1>5, <1>6 DEF Check
<1>7. ASSUME NEW r \in rows, ToggleHidden(r) PROVE IInv'
  BY <1>4, <1>5, <1>7 DEF ToggleHidden
<1>8. QED
  BY <1>2, <1>3, <1>6, <1>7 DEF Outside

----------------------------------------------------------------------------
(* The steps of the listing *)

\* An answer of a provider: what the loop has is left as it is, and the
\* provider has its status.
LEMMA AnswerKeeps ==
    ASSUME IInv, NEW provider \in {"ssh", "aws"}, NEW ok \in BOOLEAN,
           NEW machines \in SUBSET Machine, Answer(provider, ok, machines),
           provider \in call.ask, ~At("idle"), provider = "ssh" => ~InAWS
    PROVE  /\ TypeOK' /\ CallShape' /\ Seeing'
           /\ ~Says(provider, TRUE) /\ ~Says(provider, FALSE)
           /\ \A p, b : Says(p, b)' <=> Says(p, b) \/ (p = provider /\ b = ok)
           /\ call'.got = call.got /\ call'.todo = machines
           /\ call'.show = call.show /\ call'.ask = call.ask \ {provider}
           /\ call'.nodes = call.nodes /\ call'.tagged = call.tagged
           /\ call'.token = call.token /\ seen' = seen /\ call'.at = "loop"
           /\ call'.read = IF provider = "ssh" /\ ok THEN hosts ELSE call.read
<1>1. TypeOK'
  BY AnswerIsTyped DEF IInv
<1>2. /\ call'.got = call.got /\ call'.todo = machines
      /\ call'.show = call.show /\ call'.ask = call.ask \ {provider}
      /\ call'.nodes = call.nodes /\ call'.tagged = call.tagged
      /\ call'.token = call.token /\ seen' = seen /\ call'.at = "loop"
      /\ call'.covers = call.covers
      /\ call'.statuses = call.statuses \cup {[name |-> provider, ok |-> ok]}
      /\ call'.read = IF provider = "ssh" /\ ok THEN hosts ELSE call.read
  BY DEF IInv, TypeOK, Calls, Answer
<1>3. \A p, b : Says(p, b)' <=> Says(p, b) \/ (p = provider /\ b = ok)
  BY <1>2 DEF Says
<1>4. ~Says(provider, TRUE) /\ ~Says(provider, FALSE)
  BY DEF IInv, CallShape, Asked
<1>5. CallShape'
  <2>1. \A p : Asked(p)' <=> Asked(p) \/ p = provider
    BY <1>2 DEF Asked, IInv, CallShape
  <2>2. ~At("idle")' /\ ~InAWS'
    BY <1>2 DEF At, InAWS
  <2>3. call'.ask \subseteq call'.covers
    BY <1>2 DEF IInv, CallShape
  <2>4. \A p \in {"ssh", "aws"} : Asked(p)' => (Says(p, TRUE)' <=> ~Says(p, FALSE)')
    BY <1>3, <1>4, <2>1 DEF IInv, CallShape
  <2>5. \A p \in {"ssh", "aws"}, b \in BOOLEAN : Says(p, b)' => Asked(p)'
    BY <1>3, <2>1 DEF IInv, CallShape
  <2>6. QED
    BY <2>2, <2>3, <2>4, <2>5 DEF CallShape
<1>6. Seeing'
  BY <1>2 DEF IInv, Seeing, Answer, Listing, world
<1>7. QED
  BY <1>1, <1>2, <1>3, <1>4, <1>5, <1>6

\* What is said of seen alone does not change while it does not.
LEMMA SeenSame ==
    ASSUME seen' = seen, call'.show = call.show
    PROVE  /\ \A n, ssm : Was(n, ssm)' <=> Was(n, ssm)
           /\ \A n, tagged : WasTagged(n, tagged)' <=> WasTagged(n, tagged)
           /\ \A m : MayBeHidden(m)' <=> MayBeHidden(m)
           /\ \A r : ShowsOverlay(r)' <=> ShowsOverlay(r)
BY DEF Was, WasTagged, MayBeHidden, ShowsOverlay

\* IDs tell hosts and nodes apart.
LEMMA IDsDiffer == ASSUME NEW m \in ID PROVE m \in Alias <=> m \notin Node
BY AliasAssumption DEF ID

LEMMA SSHAnswerKeepsInv ==
    ASSUME IInv, Turn("ssh"), ReadConfig \/ SSHFails PROVE IInv'
<1> DEFINE ok == ReadConfig
           machines == IF ok THEN HostMachines(hosts) ELSE {}
<1>1. PICK b \in BOOLEAN : /\ Answer("ssh", b, machines)
                           /\ b = ok
  BY DEF ReadConfig, SSHFails
<1>2. hosts \in Seq(Alias) /\ machines \in SUBSET Machine
  BY HostMachinesAreMachines DEF IInv, TypeOK
<1>3. "ssh" \in call.ask /\ At("loop") /\ call.todo = {} /\ ~At("idle") /\ ~InAWS
  BY DEF Turn, At, InAWS
<1> HIDE DEF machines
<1>4. /\ TypeOK' /\ CallShape' /\ Seeing'
      /\ ~Says("ssh", TRUE) /\ ~Says("ssh", FALSE)
      /\ \A p, c : Says(p, c)' <=> Says(p, c) \/ (p = "ssh" /\ c = b)
      /\ call'.got = call.got /\ call'.todo = machines
      /\ call'.show = call.show /\ call'.ask = call.ask \ {"ssh"}
      /\ call'.nodes = call.nodes /\ call'.tagged = call.tagged
      /\ call'.token = call.token /\ seen' = seen /\ call'.at = "loop"
      /\ call'.read = IF b THEN hosts ELSE call.read
  <2>1. "ssh" = "ssh" => ~InAWS
    BY <1>3
  <2>2. /\ TypeOK' /\ CallShape' /\ Seeing'
        /\ ~Says("ssh", TRUE) /\ ~Says("ssh", FALSE)
        /\ \A p, c : Says(p, c)' <=> Says(p, c) \/ (p = "ssh" /\ c = b)
        /\ call'.got = call.got /\ call'.todo = machines
        /\ call'.show = call.show /\ call'.ask = call.ask \ {"ssh"}
        /\ call'.nodes = call.nodes /\ call'.tagged = call.tagged
        /\ call'.token = call.token /\ seen' = seen /\ call'.at = "loop"
        /\ call'.read = IF "ssh" = "ssh" /\ b THEN hosts ELSE call.read
    BY <1>1, <1>2, <1>3, <2>1, AnswerKeeps
  <2>3. QED
    BY <2>2
<1>5. /\ \A n, ssm : Was(n, ssm)' <=> Was(n, ssm)
      /\ \A n, tagged : WasTagged(n, tagged)' <=> WasTagged(n, tagged)
      /\ \A m : MayBeHidden(m)' <=> MayBeHidden(m)
      /\ \A r : ShowsOverlay(r)' <=> ShowsOverlay(r)
  BY <1>4, SeenSame
<1>6. b => machines = HostMachines(call'.read)
  BY <1>1, <1>4 DEF machines
<1>7. ~b => machines = {}
  BY <1>1 DEF machines
<1>8. \A m \in machines : m.id \in Alias /\ m.id \notin Node
  BY <1>2, <1>6, <1>7, HostIDs, <1>1 DEF machines
<1>9. HostsAreKept'
  <2>1. \A r \in call.got : r.id \notin Alias
    BY <1>4 DEF IInv, HostsAreKept
  <2>2. QED
    BY <1>4, <1>6, <1>7, <2>1 DEF HostsAreKept
<1>10. PagesAreKept'
  BY <1>3, <1>4 DEF IInv, PagesAreKept, At
<1>11. NodesAreKept'
  <2>1. Says("aws", TRUE)' <=> Says("aws", TRUE)
    <3>1. \A c : Says("aws", c)' <=> Says("aws", c) \/ ("aws" = "ssh" /\ c = b)
      BY <1>4
    <3>2. QED
      BY <3>1
  <2>2. QED
    BY <1>3, <1>4, <1>5, <1>8, <2>1 DEF IInv, NodesAreKept
<1>12. QED
  BY <1>4, <1>9, <1>10, <1>11 DEF IInv

\* An answer of AWS, whose machines are true and complete if it is one.
LEMMA AWSAnswerKeepsInv ==
    ASSUME IInv, InAWS, NEW ok \in BOOLEAN, NEW machines \in SUBSET Machine,
           Answer("aws", ok, machines),
           \A m \in machines : ok /\ m.id \in Node /\ Was(m.id, m.health)
                                  /\ WasTagged(m.id, m.named),
           \A m, k \in machines : m.id = k.id => m = k,
           ok => \A n \in Node : Was(n, "absent") \/ \E m \in machines : m.id = n
    PROVE  IInv'
<1>1. "aws" \in call.ask /\ call.todo = {} /\ ~At("idle")
  BY DEF IInv, CallShape, InAWS, At
<1>2. /\ TypeOK' /\ CallShape' /\ Seeing'
      /\ ~Says("aws", TRUE) /\ ~Says("aws", FALSE)
      /\ \A p, c : Says(p, c)' <=> Says(p, c) \/ (p = "aws" /\ c = ok)
      /\ call'.got = call.got /\ call'.todo = machines
      /\ call'.show = call.show /\ call'.ask = call.ask \ {"aws"}
      /\ seen' = seen /\ call'.at = "loop"
      /\ call'.read = call.read
  BY <1>1, AnswerKeeps
<1>3. /\ \A n, ssm : Was(n, ssm)' <=> Was(n, ssm)
      /\ \A n, tagged : WasTagged(n, tagged)' <=> WasTagged(n, tagged)
      /\ \A m : MayBeHidden(m)' <=> MayBeHidden(m)
      /\ \A r : ShowsOverlay(r)' <=> ShowsOverlay(r)
  BY <1>2, SeenSame
<1>4. \A m \in machines : m.id \notin Alias
  BY AliasAssumption
<1>5. HostsAreKept'
  <2>1. Says("ssh", TRUE)' <=> Says("ssh", TRUE)
    <3>1. Says("ssh", TRUE)' <=> Says("ssh", TRUE) \/ ("ssh" = "aws" /\ TRUE = ok)
      BY <1>2
    <3> QED
      BY <3>1
  <2>2. QED
    BY <1>1, <1>2, <1>3, <1>4, <2>1 DEF IInv, HostsAreKept
<1>6. PagesAreKept'
  BY <1>2 DEF PagesAreKept, At
<1>7. NodesAreKept'
  <2>1. \A r \in call.got : r.id \notin Node
    BY <1>2 DEF IInv, NodesAreKept
  <2>2. Says("aws", TRUE)' <=> ok
    BY <1>2
  <2>3. QED
    BY <1>2, <1>3, <2>1, <2>2 DEF NodesAreKept
<1>8. QED
  BY <1>2, <1>5, <1>6, <1>7 DEF IInv

LEMMA AskAWSKeepsInv == IInv /\ AskAWS => IInv'
<1> SUFFICES ASSUME IInv, AskAWS PROVE IInv'
  OBVIOUS
<1>1. /\ call' = [call EXCEPT !.at = "ssm"] /\ seen' = seen
      /\ fleet' = fleet /\ overlays' = overlays
      /\ At("loop") /\ call.todo = {} /\ "aws" \in call.ask
  BY DEF AskAWS, Listing, world, Turn
<1>2. /\ call'.at = "ssm" /\ call'.ask = call.ask /\ call'.covers = call.covers
      /\ call'.show = call.show /\ call'.read = call.read
      /\ call'.token = call.token /\ call'.tagged = call.tagged
      /\ call'.nodes = call.nodes /\ call'.todo = call.todo
      /\ call'.got = call.got /\ call'.statuses = call.statuses
  BY <1>1 DEF IInv, TypeOK, Calls
<1>3. TypeOK'
  BY ListStepTypeOK DEF IInv, ListStep
<1>4. \A p, b : Says(p, b)' <=> Says(p, b)
  BY <1>2 DEF Says
<1>5. /\ \A n, ssm : Was(n, ssm)' <=> Was(n, ssm)
      /\ \A n, tagged : WasTagged(n, tagged)' <=> WasTagged(n, tagged)
      /\ \A m : MayBeHidden(m)' <=> MayBeHidden(m)
      /\ \A r : ShowsOverlay(r)' <=> ShowsOverlay(r)
  BY <1>1, <1>2, SeenSame
<1>6. CallShape' /\ Seeing'
  BY <1>1, <1>2, <1>4 DEF IInv, CallShape, Seeing, At, InAWS, Asked
<1>7. HostsAreKept'
  BY <1>2, <1>4, <1>5 DEF IInv, HostsAreKept
<1>8. PagesAreKept'
  <2>1. call.nodes = {} /\ call.tagged = {} /\ call.token = 0
    BY <1>1 DEF IInv, PagesAreKept
  <2>2. SSMPagesHold(call.token)'
    BY <1>2, <2>1 DEF SSMPagesHold
  <2>3. QED
    BY <1>2, <2>1, <2>2 DEF PagesAreKept, At
<1>9. NodesAreKept'
  <2>1. NodesAreKept /\ call'.todo = call.todo /\ call'.got = call.got
    BY <1>2 DEF IInv
  <2>2. Says("aws", TRUE)' <=> Says("aws", TRUE)
    BY <1>4
  <2>3. QED
    BY <1>5, <2>1, <2>2 DEF NodesAreKept
<1>10. QED
  BY <1>3, <1>6, <1>7, <1>8, <1>9 DEF IInv

\* While AWS pages, no node is merged or waits.
LEMMA PagingKeeps ==
    ASSUME IInv, InAWS, call'.at \in {"ssm", "ec2"}, call'.ask = call.ask,
           call'.covers = call.covers, call'.show = call.show,
           call'.read = call.read, call'.todo = call.todo, call'.got = call.got,
           call'.statuses = call.statuses, seen' = seen,
           fleet' = fleet, overlays' = overlays
    PROVE  CallShape' /\ Seeing' /\ HostsAreKept' /\ NodesAreKept'
<1>1. \A p, b : Says(p, b)' <=> Says(p, b)
  BY DEF Says
<1>2. /\ \A n, ssm : Was(n, ssm)' <=> Was(n, ssm)
      /\ \A n, tagged : WasTagged(n, tagged)' <=> WasTagged(n, tagged)
      /\ \A m : MayBeHidden(m)' <=> MayBeHidden(m)
      /\ \A r : ShowsOverlay(r)' <=> ShowsOverlay(r)
  BY SeenSame
<1>3. CallShape' /\ Seeing'
  BY <1>1 DEF IInv, CallShape, Seeing, At, InAWS, Asked
<1>4. HostsAreKept'
  BY <1>1, <1>2 DEF IInv, HostsAreKept
<1>5. NodesAreKept'
  <2>1. NodesAreKept /\ call'.todo = call.todo /\ call'.got = call.got
    BY DEF IInv
  <2>2. Says("aws", TRUE)' <=> Says("aws", TRUE)
    BY <1>1
  <2>3. QED
    BY <1>2, <2>1, <2>2 DEF NodesAreKept
<1>6. QED
  BY <1>3, <1>4, <1>5

\* A page of SSM: the nodes up to its end are all in the pages so far, with a
\* state that is true now, or are absent now.
LEMMA SSMPageExtends ==
    ASSUME IInv, At("ssm"), NEW upto \in 0 .. NodeCount, NEW more \in BOOLEAN,
           More(upto, more, Registered), seen' = seen,
           call'.nodes = call.nodes \cup {[id |-> n, health |-> fleet[n].ssm] :
                                             n \in Page(upto, Registered)}
    PROVE  /\ SSMPagesHold(upto)'
           /\ ~more => SSMPagesHold(NodeCount)'
<1> DEFINE new == {[id |-> n, health |-> fleet[n].ssm] : n \in Page(upto, Registered)}
<1>1. /\ \A n \in Node : fleet[n] \in seen.node[n]
      /\ SSMPagesHold(call.token)
      /\ call.token \in 0 .. NodeCount /\ upto >= call.token
      /\ call.nodes \subseteq [id : Node, health : {"up", "down"}]
  BY DEF IInv, Seeing, PagesAreKept, At, TypeOK, Calls, More
<1>2. \A n, ssm : Was(n, ssm)' <=> Was(n, ssm)
  BY DEF Was
<1>3. \A n \in Node : Was(n, fleet[n].ssm)
  BY <1>1 DEF Was
<1>4. \A x \in new : /\ x.id \in Node /\ x.id > call.token /\ x.id <= upto
                     /\ x.health = fleet[x.id].ssm
  BY <1>1 DEF Page, Registered
<1>5. \A n \in call.token + 1 .. upto :
          n \in Node /\ (fleet[n].ssm = "absent" \/ \E x \in new : x.id = n)
  <2>1. ASSUME NEW n \in call.token + 1 .. upto, fleet[n].ssm # "absent"
        PROVE  \E x \in new : x.id = n
    <3>1. n \in Page(upto, Registered)
      BY <1>1, <2>1 DEF Page, Registered
    <3>2. [id |-> n, health |-> fleet[n].ssm] \in new
      BY <3>1
    <3>3. QED
      BY <3>2
  <2>2. QED
    BY <1>1, <2>1
<1>6. call'.nodes = call.nodes \cup new
  OBVIOUS
<1> HIDE DEF new
<1>7. \A x \in call'.nodes : x.id <= upto /\ Was(x.id, x.health)
  BY <1>1, <1>3, <1>4, <1>6 DEF SSMPagesHold
<1>8. \A x \in new : x = [id |-> x.id, health |-> fleet[x.id].ssm]
  BY DEF new
<1>9. \A x, y \in call'.nodes : x.id = y.id => x = y
  BY <1>1, <1>4, <1>6, <1>8 DEF SSMPagesHold
<1>10. \A n \in 1 .. upto : Was(n, "absent") \/ \E x \in call'.nodes : x.id = n
  BY <1>1, <1>3, <1>5, <1>6 DEF SSMPagesHold
<1>11. SSMPagesHold(upto)'
  BY <1>2, <1>7, <1>9, <1>10 DEF SSMPagesHold
<1>12. ASSUME ~more PROVE SSMPagesHold(NodeCount)'
  <2>1. \A n \in upto + 1 .. NodeCount : n \in Node /\ fleet[n].ssm = "absent"
    BY <1>12 DEF More, Registered
  <2>2. \A n \in 1 .. NodeCount : Was(n, "absent") \/ \E x \in call'.nodes : x.id = n
    BY <1>3, <1>10, <2>1
  <2>3. \A x \in call'.nodes : x.id <= NodeCount /\ Was(x.id, x.health)
    BY <1>1, <1>4, <1>6, <1>7
  <2>4. QED
    BY <1>2, <1>9, <2>2, <2>3 DEF SSMPagesHold
<1>13. QED
  BY <1>11, <1>12

LEMMA SSMPageKeepsInv ==
    ASSUME IInv, NEW upto \in 0 .. NodeCount, NEW more \in BOOLEAN, SSMPage(upto, more)
    PROVE  IInv'
<1>1. /\ At("ssm") /\ More(upto, more, Registered) /\ seen' = seen
      /\ fleet' = fleet /\ overlays' = overlays
  BY DEF SSMPage, Listing, world
<1>2. /\ call'.at = IF more THEN "ssm" ELSE "ec2"
      /\ call'.token = IF more THEN upto ELSE 0
      /\ call'.nodes = call.nodes \cup {[id |-> n, health |-> fleet[n].ssm] :
                                           n \in Page(upto, Registered)}
      /\ call'.ask = call.ask /\ call'.covers = call.covers
      /\ call'.show = call.show /\ call'.read = call.read
      /\ call'.tagged = call.tagged /\ call'.todo = call.todo
      /\ call'.got = call.got /\ call'.statuses = call.statuses
  BY DEF SSMPage, IInv, TypeOK, Calls
<1>3. SSMPagesHold(upto)' /\ (~more => SSMPagesHold(NodeCount)')
  BY <1>1, <1>2, SSMPageExtends
<1>4. TypeOK'
  BY ListStepTypeOK DEF IInv, ListStep
<1>5. CallShape' /\ Seeing' /\ HostsAreKept' /\ NodesAreKept'
  BY <1>1, <1>2, PagingKeeps DEF InAWS
<1>6. PagesAreKept'
  <2>1. call.tagged = {}
    BY <1>1 DEF IInv, PagesAreKept
  <2>2. ASSUME more PROVE PagesAreKept'
    <3>1. SSMPagesHold(call.token)'
      BY <1>2, <1>3, <2>2 DEF SSMPagesHold
    <3>2. QED
      BY <1>2, <2>1, <2>2, <3>1 DEF PagesAreKept, At
  <2>3. ASSUME ~more PROVE PagesAreKept'
    <3>1. EC2PagesHold(call.token)'
      BY <1>2, <2>1, <2>3 DEF EC2PagesHold
    <3>2. QED
      BY <1>2, <1>3, <2>3, <3>1 DEF PagesAreKept, At
  <2>4. QED
    BY <2>2, <2>3
<1>7. QED
  BY <1>4, <1>5, <1>6 DEF IInv

\* A page of EC2: of every node up to its end, whether it has tags was true.
LEMMA EC2PageExtends ==
    ASSUME IInv, At("ec2"), NEW upto \in 0 .. NodeCount, NEW more \in BOOLEAN,
           More(upto, more, Tagged), NEW tagged,
           tagged = call.tagged \cup Page(upto, Tagged)
    PROVE  /\ tagged \subseteq 1 .. upto
           /\ \A n \in 1 .. upto : WasTagged(n, n \in tagged)
           /\ ~more => \A n \in Node : WasTagged(n, n \in tagged)
<1>1. /\ \A n \in Node : fleet[n] \in seen.node[n]
      /\ EC2PagesHold(call.token)
      /\ call.token \in 0 .. NodeCount /\ upto >= call.token
      /\ fleet \in [Node -> NodeState]
  BY DEF IInv, Seeing, PagesAreKept, At, TypeOK, Calls, More
<1>2. \A n \in Node : WasTagged(n, fleet[n].ec2) /\ fleet[n].ec2 \in BOOLEAN
  BY <1>1 DEF WasTagged, NodeState
<1>3. tagged \subseteq 1 .. upto
  BY <1>1 DEF EC2PagesHold, Page, Tagged
<1>4. ASSUME NEW n \in 1 .. call.token PROVE WasTagged(n, n \in tagged)
  <2>1. (n \in tagged) = (n \in call.tagged)
    BY <1>1 DEF Page, Tagged
  <2>2. WasTagged(n, n \in call.tagged)
    BY <1>1 DEF EC2PagesHold
  <2>3. QED
    BY <2>1, <2>2
<1>5. ASSUME NEW n \in call.token + 1 .. upto PROVE WasTagged(n, n \in tagged)
  <2>1. n \in Node /\ n \notin call.tagged
    BY <1>1 DEF EC2PagesHold
  <2>2. (n \in tagged) = fleet[n].ec2
    BY <1>1, <1>2, <2>1 DEF Page, Tagged
  <2>3. QED
    BY <1>2, <2>1, <2>2
<1>6. \A n \in 1 .. upto : WasTagged(n, n \in tagged)
  BY <1>1, <1>4, <1>5
<1>7. ASSUME ~more, NEW n \in upto + 1 .. NodeCount PROVE WasTagged(n, n \in tagged)
  <2>1. n \in Node /\ n \notin Tagged
    BY <1>7 DEF More
  <2>2. fleet[n].ec2 = FALSE
    BY <1>2, <2>1 DEF Tagged
  <2>3. (n \in tagged) = FALSE
    BY <1>3, <2>1
  <2>4. QED
    BY <1>2, <2>1, <2>2, <2>3
<1>8. QED
  BY <1>3, <1>6, <1>7

LEMMA EC2PageKeepsInv ==
    ASSUME IInv, NEW upto \in 0 .. NodeCount, NEW more \in BOOLEAN, EC2Page(upto, more)
    PROVE  IInv'
<1>1. /\ At("ec2") /\ More(upto, more, Tagged) /\ seen' = seen
      /\ fleet' = fleet /\ overlays' = overlays
  BY DEF EC2Page, Listing, world
<1>2. /\ call'.at = "ec2" /\ call'.token = upto /\ call'.nodes = call.nodes
      /\ call'.tagged = call.tagged \cup Page(upto, Tagged)
      /\ call'.ask = call.ask /\ call'.covers = call.covers
      /\ call'.show = call.show /\ call'.read = call.read
      /\ call'.todo = call.todo
      /\ call'.got = call.got /\ call'.statuses = call.statuses
  BY <1>1 DEF EC2Page, IInv, TypeOK, Calls, At
<1>3. /\ call'.tagged \subseteq 1 .. upto
      /\ \A n \in 1 .. upto : WasTagged(n, n \in call'.tagged)
  BY <1>1, <1>2, EC2PageExtends
<1>4. TypeOK'
  BY ListStepTypeOK DEF IInv, ListStep
<1>5. CallShape' /\ Seeing' /\ HostsAreKept' /\ NodesAreKept'
  BY <1>1, <1>2, PagingKeeps DEF InAWS
<1>6. PagesAreKept'
  <2>1. SSMPagesHold(NodeCount)'
    BY <1>1, <1>2 DEF IInv, PagesAreKept, SSMPagesHold, Was
  <2>2. EC2PagesHold(call.token)'
    BY <1>1, <1>2, <1>3 DEF EC2PagesHold, WasTagged
  <2>3. QED
    BY <1>2, <2>1, <2>2 DEF PagesAreKept, At
<1>7. QED
  BY <1>4, <1>5, <1>6 DEF IInv

LEMMA LastEC2PageKeepsInv ==
    ASSUME IInv, NEW upto \in 0 .. NodeCount, LastEC2Page(upto) PROVE IInv'
<1> DEFINE tagged == call.tagged \cup Page(upto, Tagged)
<1>1. At("ec2") /\ More(upto, FALSE, Tagged) /\ Answer("aws", TRUE, Join(tagged))
  BY DEF LastEC2Page
<1>2. \A n \in Node : WasTagged(n, n \in tagged)
  BY <1>1, EC2PageExtends
<1> HIDE DEF tagged
<1>3. SSMPagesHold(NodeCount) /\ call.nodes \subseteq [id : Node, health : {"up", "down"}]
  BY <1>1 DEF IInv, PagesAreKept, TypeOK, Calls
<1>4. Join(tagged) \in SUBSET Machine
  BY JoinIsTyped DEF IInv, TypeOK
<1>5. \A m \in Join(tagged) : \E x \in call.nodes :
          m = [id |-> x.id, place |-> x.id, health |-> x.health,
               named |-> x.id \in tagged]
  BY DEF Join
<1>6. \A m \in Join(tagged) : m.id \in Node /\ Was(m.id, m.health)
                                            /\ WasTagged(m.id, m.named)
  <2>1. ASSUME NEW x \in call.nodes
        PROVE  x.id \in Node /\ Was(x.id, x.health) /\ WasTagged(x.id, x.id \in tagged)
    BY <1>2, <1>3 DEF SSMPagesHold
  <2>2. QED
    BY <1>5, <2>1
<1>7. \A m, k \in Join(tagged) : m.id = k.id => m = k
  BY <1>3, <1>5 DEF SSMPagesHold
<1>8. \A n \in Node : Was(n, "absent") \/ \E m \in Join(tagged) : m.id = n
  <2>1. ASSUME NEW n \in Node, NEW x \in call.nodes, x.id = n
        PROVE  \E m \in Join(tagged) : m.id = n
    <3>1. [id |-> x.id, place |-> x.id, health |-> x.health,
           named |-> x.id \in tagged] \in Join(tagged)
      BY DEF Join
    <3>2. QED
      BY <2>1, <3>1
  <2>2. QED
    BY <1>3, <2>1 DEF SSMPagesHold
<1>9. QED
  BY <1>1, <1>4, <1>6, <1>7, <1>8, AWSAnswerKeepsInv DEF InAWS

LEMMA AWSFailsKeepsInv == IInv /\ AWSFails => IInv'
<1> SUFFICES ASSUME IInv, AWSFails PROVE IInv'
  OBVIOUS
<1>1. InAWS /\ Answer("aws", FALSE, {}) /\ {} \in SUBSET Machine
  BY DEF AWSFails, InAWS
<1>2. QED
  BY <1>1, AWSAnswerKeepsInv

LEMMA MergeKeepsInv ==
    ASSUME IInv, NEW m \in call.todo, Merge(m) PROVE IInv'
<1>1. m \in Machine /\ m.id \in ID /\ call.todo \subseteq Machine
      /\ call.got \subseteq RowType /\ call.read \in Seq(Alias)
  BY DEF IInv, TypeOK, Calls, Machine
<1>2. PICK overlay \in {overlays[m.id]} \cup (IF StoreFails THEN {NoOverlay} ELSE {}) :
         /\ call' = [call EXCEPT
                !.todo = @ \ {m},
                !.got = IF overlay.hidden /\ ~call.show THEN @
                        ELSE @ \cup {Row(m, overlay)}]
         /\ seen' = [seen EXCEPT !.overlay[m.id] = @ \cup {overlay}]
  BY DEF Merge
<1>3. /\ At("loop") /\ fleet' = fleet /\ overlays' = overlays
  BY DEF Merge, Listing, world
<1>4. /\ call'.at = call.at /\ call'.todo = call.todo \ {m}
      /\ call'.got = IF overlay.hidden /\ ~call.show THEN call.got
                     ELSE call.got \cup {Row(m, overlay)}
      /\ call'.ask = call.ask /\ call'.covers = call.covers
      /\ call'.show = call.show /\ call'.read = call.read
      /\ call'.token = call.token /\ call'.tagged = call.tagged
      /\ call'.nodes = call.nodes /\ call'.statuses = call.statuses
  BY <1>2 DEF IInv, TypeOK, Calls
<1>5. /\ seen'.node = seen.node
      /\ seen'.overlay = [seen.overlay EXCEPT ![m.id] = @ \cup {overlay}]
      /\ \A k \in ID : seen.overlay[k] \subseteq seen'.overlay[k]
      /\ overlay \in seen'.overlay[m.id]
  BY <1>1, <1>2 DEF IInv, TypeOK
<1>6. TypeOK'
  BY ListStepTypeOK DEF IInv, ListStep
<1>7. \A p, b : Says(p, b)' <=> Says(p, b)
  BY <1>4 DEF Says
<1>8. /\ \A n \in Node : \A ssm : Was(n, ssm) => Was(n, ssm)'
      /\ \A n \in Node : \A tagged : WasTagged(n, tagged) => WasTagged(n, tagged)'
      /\ \A k \in ID : MayBeHidden(k) => MayBeHidden(k)'
      /\ \A r \in RowType : ShowsOverlay(r) => ShowsOverlay(r)'
  BY <1>4, <1>5, SeenStays
<1>9. CallShape'
  BY <1>3, <1>4, <1>7 DEF IInv, CallShape, At, InAWS, Asked
<1>10. Seeing'
  BY <1>3, <1>5 DEF IInv, Seeing, At
\* m is hidden, or has its row now.
<1>11. overlay.hidden /\ ~call.show => MayBeHidden(m.id)'
  BY <1>4, <1>5 DEF MayBeHidden
<1>12. /\ Row(m, overlay).id = m.id /\ Row(m, overlay).place = m.place
       /\ Row(m, overlay).listed = m.health /\ Row(m, overlay).named = m.named
       /\ ListedAs(Row(m, overlay)) = m
       /\ ShowsOverlay(Row(m, overlay))'
  <2>1. m = [id |-> m.id, place |-> m.place, health |-> m.health, named |-> m.named]
    BY <1>1 DEF Machine
  <2>2. ShowsOverlay(Row(m, overlay))'
    BY <1>5 DEF Row, ShowsOverlay
  <2>3. QED
    BY <2>1, <2>2 DEF Row, ListedAs
<1>13. m.id \in Alias <=> m.id \notin Node
  BY <1>1, IDsDiffer
<1> DEFINE row == Row(m, overlay)
<1>14. \A r \in call'.got : r \in call.got \/ r = row
  BY <1>4
<1>15. call.got \subseteq call'.got /\ (row \in call'.got \/ MayBeHidden(m.id)')
  BY <1>4, <1>11
<1> HIDE DEF row
<1>16. /\ row.id = m.id /\ row.place = m.place /\ row.listed = m.health
       /\ row.named = m.named /\ ListedAs(row) = m /\ ShowsOverlay(row)'
  BY <1>12 DEF row
<1>17. HostsAreKept'
  <2>1. \A k \in HostMachines(call.read) : k.id \in ID
    BY <1>1, HostIDs
  <2>2. \A k \in call'.todo : k.id \in Alias =>
            Says("ssh", TRUE)' /\ k \in HostMachines(call'.read)
    BY <1>4, <1>7 DEF IInv, HostsAreKept
  <2>3. \A r \in call'.got : r.id \in Alias =>
            Says("ssh", TRUE)' /\ ListedAs(r) \in HostMachines(call'.read)
                               /\ ShowsOverlay(r)'
    <3>1. ASSUME NEW r \in call.got, r.id \in Alias
          PROVE  Says("ssh", TRUE)' /\ ListedAs(r) \in HostMachines(call'.read)
                                    /\ ShowsOverlay(r)'
      BY <1>1, <1>4, <1>7, <1>8, <3>1 DEF IInv, HostsAreKept
    <3>2. ASSUME row.id \in Alias
          PROVE  Says("ssh", TRUE)' /\ ListedAs(row) \in HostMachines(call'.read)
                                    /\ ShowsOverlay(row)'
      BY <1>4, <1>7, <1>16, <3>2 DEF IInv, HostsAreKept
    <3>3. QED
      BY <1>14, <3>1, <3>2
  <2>4. ASSUME Says("ssh", TRUE)', NEW k \in HostMachines(call'.read)
        PROVE  \/ k \in call'.todo
               \/ MayBeHidden(k.id)'
               \/ \E r \in call'.got : r.id = k.id /\ r.place = k.place
    <3>1. \/ k \in call.todo
          \/ MayBeHidden(k.id)
          \/ \E r \in call.got : r.id = k.id /\ r.place = k.place
      BY <1>4, <1>7, <2>4 DEF IInv, HostsAreKept
    <3>2. k.id \in ID
      BY <1>4, <2>1
    <3>3. QED
      BY <1>4, <1>8, <1>15, <1>16, <3>1, <3>2
  <2>5. QED
    BY <2>2, <2>3, <2>4 DEF HostsAreKept
<1>18. PagesAreKept'
  BY <1>3, <1>4 DEF IInv, PagesAreKept, At
<1>19. NodesAreKept'
  <2>1. \A k \in call'.todo : k.id \in Node =>
            Says("aws", TRUE)' /\ Was(k.id, k.health)' /\ WasTagged(k.id, k.named)'
    BY <1>4, <1>7, <1>8 DEF IInv, NodesAreKept
  <2>2. \A r \in call'.got : r.id \in Node =>
            /\ Says("aws", TRUE)' /\ Was(r.id, r.listed)' /\ WasTagged(r.id, r.named)'
            /\ ShowsOverlay(r)'
    <3>1. ASSUME NEW r \in call.got, r.id \in Node
          PROVE  /\ Says("aws", TRUE)' /\ Was(r.id, r.listed)'
                 /\ WasTagged(r.id, r.named)' /\ ShowsOverlay(r)'
      BY <1>1, <1>7, <1>8, <3>1 DEF IInv, NodesAreKept
    <3>2. ASSUME row.id \in Node
          PROVE  /\ Says("aws", TRUE)' /\ Was(row.id, row.listed)'
                 /\ WasTagged(row.id, row.named)' /\ ShowsOverlay(row)'
      BY <1>7, <1>8, <1>16, <3>2 DEF IInv, NodesAreKept
    <3>3. QED
      BY <1>14, <3>1, <3>2
  <2>3. \A k, l \in call'.todo : k.id \in Node /\ k.id = l.id => k = l
    BY <1>4 DEF IInv, NodesAreKept
  <2>4. \A r, s \in call'.got : r.id \in Node /\ r.id = s.id => r = s
    BY <1>14, <1>16 DEF IInv, NodesAreKept
  <2>5. \A k \in call'.todo, r \in call'.got : k.id \in Node => k.id # r.id
    BY <1>4, <1>14, <1>16 DEF IInv, NodesAreKept
  <2>6. ASSUME Says("aws", TRUE)', NEW n \in Node
        PROVE  \/ Was(n, "absent")'
               \/ MayBeHidden(n)'
               \/ \E k \in call'.todo : k.id = n
               \/ \E r \in call'.got : r.id = n
    <3>1. \/ Was(n, "absent")
          \/ MayBeHidden(n)
          \/ \E k \in call.todo : k.id = n
          \/ \E r \in call.got : r.id = n
      BY <1>7, <2>6 DEF IInv, NodesAreKept
    <3>2. n \in ID
      BY DEF ID
    <3>3. QED
      BY <1>4, <1>8, <1>15, <1>16, <3>1, <3>2
  <2>7. QED
    BY <2>1, <2>2, <2>3, <2>4, <2>5, <2>6 DEF NodesAreKept
<1>20. QED
  BY <1>6, <1>9, <1>10, <1>17, <1>18, <1>19 DEF IInv

\* EndListing and a new listing have nothing asked, waiting or merged.
LEMMA NewCallKeepsInv ==
    ASSUME TypeOK', CallShape', Seeing', call'.statuses = {}, call'.todo = {},
           call'.got = {}, call'.nodes = {}, call'.tagged = {}, call'.token = 0,
           call'.at \in {"idle", "loop"}
    PROVE  IInv'
<1>1. \A p, ok : ~Says(p, ok)'
  BY DEF Says
<1>2. HostsAreKept'
  BY <1>1 DEF HostsAreKept
<1>3. PagesAreKept'
  BY DEF PagesAreKept, At
<1>4. NodesAreKept'
  BY <1>1 DEF NodesAreKept
<1>5. QED
  BY <1>2, <1>3, <1>4 DEF IInv

LEMMA NoCallShape == call' = NoCall => CallShape'
BY DEF NoCall, CallShape, InAWS, At, Asked, Says

LEMMA EndListingKeepsInv == IInv /\ EndListing => IInv'
<1> SUFFICES ASSUME IInv, EndListing PROVE IInv'
  OBVIOUS
<1>1. call' = NoCall
  BY DEF EndListing
<1>2. TypeOK'
  BY ListStepTypeOK DEF IInv, ListStep
<1>3. CallShape' /\ Seeing'
  BY <1>1, NoCallShape DEF Seeing, At, NoCall
<1>4. QED
  BY <1>1, <1>2, <1>3, NewCallKeepsInv DEF NoCall

LEMMA BeginKeepsInv == IInv /\ Begin => IInv'
<1> SUFFICES ASSUME IInv, NEW covers \in Sources, NEW show \in BOOLEAN,
                    BeginListing(covers, show)
             PROVE  IInv'
  BY DEF Begin
<1>1. TypeOK'
  BY OtherStepsTypeOK DEF IInv, Begin
<1>2. call' = [NoCall EXCEPT !.at = "loop", !.ask = covers, !.covers = covers,
                             !.show = show]
  BY DEF BeginListing
<1>3. /\ call'.at = "loop" /\ call'.ask = covers /\ call'.covers = covers
      /\ call'.statuses = {} /\ call'.todo = {} /\ call'.got = {}
      /\ call'.nodes = {} /\ call'.tagged = {} /\ call'.token = 0
  BY <1>2 DEF NoCall
<1>4. CallShape'
  BY <1>3 DEF CallShape, InAWS, At, Asked, Says
<1>5. Seeing'
  BY DEF BeginListing, Seeing, world
<1>6. QED
  BY <1>1, <1>3, <1>4, <1>5, NewCallKeepsInv

LEMMA InitInv == Init => IInv
<1> SUFFICES ASSUME Init PROVE IInv
  OBVIOUS
<1>1. TypeOK
  BY InitTypeOK
<1>2. call = NoCall
  BY DEF Init
<1>3. \A p, ok : ~Says(p, ok)
  BY <1>2 DEF Says, NoCall
<1>4. CallShape /\ Seeing
  BY <1>2, <1>3 DEF NoCall, CallShape, Seeing, InAWS, At, Asked
<1>5. HostsAreKept /\ PagesAreKept /\ NodesAreKept
  BY <1>2, <1>3 DEF HostsAreKept, PagesAreKept, NodesAreKept, NoCall, At
<1>6. QED
  BY <1>1, <1>4, <1>5 DEF IInv

LEMMA ListStepKeepsInv == IInv /\ ListStep => IInv'
<1> SUFFICES ASSUME IInv, ListStep PROVE IInv'
  OBVIOUS
<1>1. CASE ReadConfig \/ SSHFails
  <2>1. Turn("ssh")
    BY <1>1 DEF ReadConfig, SSHFails
  <2>2. QED
    BY <1>1, <2>1, SSHAnswerKeepsInv
<1>2. QED
  BY <1>1, AskAWSKeepsInv, SSMPageKeepsInv, EC2PageKeepsInv, LastEC2PageKeepsInv,
     AWSFailsKeepsInv, MergeKeepsInv, EndListingKeepsInv DEF ListStep

LEMMA StutterKeepsInv == IInv /\ UNCHANGED vars => IInv'
<1> SUFFICES ASSUME IInv, UNCHANGED vars PROVE IInv'
  OBVIOUS
<1>1. TypeOK'
  BY DEF IInv, TypeOK, vars, world, counters
<1>2. /\ call' = call /\ seen' = seen /\ fleet' = fleet /\ overlays' = overlays
  BY DEF vars, world
<1>3. Seeing'
  BY <1>2 DEF IInv, Seeing, At
<1>4. QED
  BY <1>1, <1>2, <1>3, CallKept DEF IInv

\* The inductive invariant holds of every listing, whatever the fleet, the config
\* and the overlays do between its calls.
THEOREM InvHolds == Spec => []IInv
<1>1. IInv /\ [Next]_vars => IInv'
  BY OutsideKeepsInv, BeginKeepsInv, ListStepKeepsInv, StutterKeepsInv DEF Next
<1>2. QED
  BY InitInv, <1>1, PTL DEF Spec

----------------------------------------------------------------------------
(* What follows *)

\* When List has its answer, nothing is asked or waits any more.
LEMMA AnsweredNodes == IInv => NodesAreListed
<1> SUFFICES ASSUME IInv, Answered, Says("aws", TRUE), NEW n \in Node
             PROVE  LET mine == {r \in call.got : r.id = n} IN
                    /\ \A r, s \in mine : r = s
                    /\ \A r \in mine :
                          /\ \E state \in seen.node[n] : state.ssm = r.listed
                          /\ \E state \in seen.node[n] : state.ec2 = r.named
                          /\ ShowsOverlay(r)
                    /\ mine = {} => \/ MayBeHidden(n)
                                    \/ \E state \in seen.node[n] : state.ssm = "absent"
  BY DEF NodesAreListed
<1> DEFINE mine == {r \in call.got : r.id = n}
<1>1. call.todo = {}
  BY DEF Answered
<1>2. \A r, s \in mine : r = s
  BY DEF IInv, NodesAreKept
<1>3. \A r \in mine : Was(n, r.listed) /\ WasTagged(n, r.named) /\ ShowsOverlay(r)
  <2>1. \A r \in call.got : r.id \in Node =>
            Was(r.id, r.listed) /\ WasTagged(r.id, r.named) /\ ShowsOverlay(r)
    BY DEF IInv, NodesAreKept
  <2> QED
    BY <2>1
<1>4. mine = {} => MayBeHidden(n) \/ Was(n, "absent")
  BY <1>1 DEF IInv, NodesAreKept
<1>5. QED
  BY <1>2, <1>3, <1>4 DEF Was, WasTagged

\* However nodes come and go between two pages of AWS and whatever the operator
\* saves meanwhile, a listing has each node at most once, as it was at some
\* time, and misses only nodes that were absent or hidden at some time.
THEOREM NodesHold == Spec => []NodesAreListed
BY InvHolds, AnsweredNodes, PTL

LEMMA AnsweredProviders == IInv => ProvidersFailApart
<1> SUFFICES ASSUME IInv, Answered PROVE ProvidersFailApart
  BY DEF ProvidersFailApart
<1>1. /\ call.todo = {} /\ call.ask = {} /\ call.covers \subseteq {"ssh", "aws"}
      /\ call.statuses \subseteq [name : {"ssh", "aws"}, ok : BOOLEAN]
      /\ call.got \subseteq RowType
  BY DEF Answered, IInv, TypeOK, Calls
<1>2. \A p \in call.covers : Says(p, TRUE) # Says(p, FALSE)
  <2>1. ASSUME NEW p \in call.covers PROVE Says(p, TRUE) <=> ~Says(p, FALSE)
    BY <1>1 DEF IInv, CallShape, Asked
  <2>2. Says("ssh", TRUE) \in BOOLEAN
    BY DEF Says
  <2>3. QED
    BY <2>1 DEF Says
<1>3. {s.name : s \in call.statuses} = call.covers
  <2>1. ASSUME NEW s \in call.statuses PROVE s.name \in call.covers
    <3>1. s.name \in {"ssh", "aws"} /\ s.ok \in BOOLEAN
          /\ s = [name |-> s.name, ok |-> s.ok]
      BY <1>1
    <3>2. Says(s.name, s.ok)
      BY <3>1 DEF Says
    <3>3. QED
      BY <3>1, <3>2 DEF IInv, CallShape, Asked
  <2>2. ASSUME NEW p \in call.covers PROVE \E s \in call.statuses : s.name = p
    <3>1. Says(p, TRUE) \/ Says(p, FALSE)
      BY <1>1 DEF IInv, CallShape, Asked
    <3>2. QED
      BY <3>1 DEF Says
  <2>3. QED
    BY <2>1, <2>2
<1>4. \A r \in call.got :
         \/ r.id \in Node /\ Says("aws", TRUE)
         \/ Says("ssh", TRUE) /\ ShowsOverlay(r)
            /\ ListedAs(r) \in HostMachines(call.read)
  <2>1. \A r \in call.got : r.id \in Alias \/ r.id \in Node
    BY <1>1 DEF RowType, ID
  <2>2. QED
    BY <2>1 DEF IInv, HostsAreKept, NodesAreKept
<1>5. Says("ssh", TRUE) => \A m \in HostMachines(call.read) :
         MayBeHidden(m.id) \/ \E r \in call.got : r.id = m.id /\ r.place = m.place
  BY <1>1 DEF IInv, HostsAreKept
<1>6. QED
  BY <1>2, <1>3, <1>4, <1>5 DEF ProvidersFailApart, ListedAs

\* A provider that fails takes nothing from the other one, and every provider
\* asked has one status, whatever fails when.
THEOREM ProvidersHold == Spec => []ProvidersFailApart
BY InvHolds, AnsweredProviders, PTL

LEMMA EditKeepsMachines ==
    TypeOK /\ [Next]_vars =>
        (edits' # edits =>
            /\ \A r, s \in rows \ rows' : r.id = s.id
            /\ \A r \in rows : (\A s \in rows : s.id = r.id => s = r) =>
                  \E t \in rows' : <<t.id, t.place, t.listed, t.named>>
                                       = <<r.id, r.place, r.listed, r.named>>)
<1> DEFINE Kept == /\ \A r, s \in rows \ rows' : r.id = s.id
                   /\ \A r \in rows : (\A s \in rows : s.id = r.id => s = r) =>
                         \E t \in rows' : <<t.id, t.place, t.listed, t.named>>
                                              = <<r.id, r.place, r.listed, r.named>>
<1> SUFFICES ASSUME TypeOK, [Next]_vars, edits' # edits PROVE Kept
  OBVIOUS
<1>1. \E r \in rows : Check(r) \/ ToggleHidden(r)
  BY DEF Next, Begin, BeginListing, ListStep, ReadConfig, SSHFails, AskAWS, SSMPage,
         EC2Page, LastEC2Page, AWSFails, Merge, EndListing, Answer, Listing, Outside,
         ChangeFleet, ChangeHosts, vars, counters
<1>2. ASSUME NEW r \in rows, Check(r) PROVE Kept
  <2>1. PICK health : rows' = {IF x.id = r.id THEN [x EXCEPT !.health = health] ELSE x :
                                  x \in rows}
    BY <1>2 DEF Check
  <2>2. \A x \in rows : x.id # r.id => x \in rows'
    BY <2>1
  <2>3. \A x \in rows : x.id = r.id => [x EXCEPT !.health = health] \in rows'
    BY <2>1
  <2>4. \A x \in rows : LET t == [x EXCEPT !.health = health]
                        IN  <<t.id, t.place, t.listed, t.named>>
                                = <<x.id, x.place, x.listed, x.named>>
    BY DEF TypeOK, RowType
  <2>5. QED
    BY <2>2, <2>3, <2>4
<1>3. ASSUME NEW r \in rows, ToggleHidden(r) PROVE Kept
  <2> DEFINE edited == [r EXCEPT !.hidden = ~@]
  <2>1. PICK first \in rows : first.id = r.id /\ rows' = (rows \ {first}) \cup {edited}
    BY <1>3 DEF ToggleHidden
  <2>2. <<edited.id, edited.place, edited.listed, edited.named>>
            = <<r.id, r.place, r.listed, r.named>>
    BY DEF TypeOK, RowType
  <2>3. QED
    BY <2>1, <2>2
<1>4. QED
  BY <1>1, <1>2, <1>3

\* A check or an edit changes the rows of one machine only, and loses no row of
\* a machine that has one.
THEOREM EditsHold == Spec => EditsKeepMachines
BY EditKeepsMachines, TypesHold, PTL DEF Spec, EditsKeepMachines

----------------------------------------------------------------------------
(* What the cockpit lists, in its order and on its screen (ListView) *)

\* sort.SliceStable needs a strict weak order and sorts by no other: the
\* comparison is one, with its five keys of which two are compared in part.
THEOREM OrderIsStrictWeak ==
    ASSUME NEW a \in Entry, NEW b \in Entry, NEW c \in Entry
    PROVE  /\ ~Less(a, a)
           /\ Less(a, b) /\ Less(b, c) => Less(a, c)
           /\ Same(a, b) /\ Same(b, c) => Same(a, c)
<1>1. /\ a.pinned \in BOOLEAN /\ a.up \in BOOLEAN /\ a.connected \in Nat /\ a.name \in Int
      /\ b.pinned \in BOOLEAN /\ b.up \in BOOLEAN /\ b.connected \in Nat /\ b.name \in Int
      /\ c.pinned \in BOOLEAN /\ c.up \in BOOLEAN /\ c.connected \in Nat /\ c.name \in Int
  BY DEF Entry
<1>2. ~Less(a, a)
  BY <1>1 DEF Less
<1>3. Less(a, b) /\ Less(b, c) => Less(a, c)
  BY <1>1 DEF Less
<1>4. Same(a, b) /\ Same(b, c) => Same(a, c)
  BY <1>1 DEF Less, Same
<1>5. QED
  BY <1>2, <1>3, <1>4

\* However the operator has moved, pinned and resized: the window has the row
\* under the cursor, only rows there are, and no more than fit.
THEOREM WindowHoldsCursor ==
    ASSUME NEW total \in Nat, NEW cursor \in 0 .. total - 1, NEW room \in Int
    PROVE  LET w == windowRange(cursor, total, room)
           IN  /\ 0 <= w.start /\ w.start <= cursor /\ cursor < w.end /\ w.end <= total
               /\ room >= 1 => w.end - w.start <= room
BY DEF windowRange

\* Both lists keep the row under the cursor within the panel body: fitLines,
\* which cuts the body to its height, never cuts that row, whatever the height
\* and the warnings.  (A terminal that is lower than the whole view, whose body
\* has eight lines at least, may cut it; that is not said here.)
THEOREM SelectedIsShown ==
    ASSUME NEW total \in Nat, NEW cursor \in 0 .. total - 1, NEW height \in Int,
           NEW warnings \in Nat, NEW compact \in BOOLEAN
    PROVE  LET body == bodyHeight(height, warnings)
               w == listWindow(cursor, total, body, compact)
           IN  /\ w.start <= cursor /\ cursor < w.end
               /\ \A i \in w.start .. w.end - 1 : rowLine(i, w) < body
<1> DEFINE body == bodyHeight(height, warnings)
           fit == body - (IF compact THEN 2 ELSE 3)
           w == windowRange(cursor, total, fit)
<1>1. body \in Int /\ body >= 8
  BY DEF bodyHeight
<1>2. fit \in Int /\ fit >= 1 /\ fit + 2 <= body
  BY <1>1
<1> HIDE DEF body, fit
<1>3. /\ w.start <= cursor /\ cursor < w.end /\ w.end - w.start <= fit
      /\ w.start \in Int /\ w.end \in Int
  BY <1>2 DEF windowRange
<1>4. \A i \in w.start .. w.end - 1 : 2 + (i - w.start) < body
  BY <1>1, <1>2, <1>3 DEF fit
<1>5. QED
  BY <1>3, <1>4 DEF body, fit, listWindow, rowLine

============================================================================
