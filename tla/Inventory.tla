----------------------------- MODULE Inventory -----------------------------
(***************************************************************************)
(* InventoryService.List (internal/app/app.go) over its two providers: the *)
(* SSH config and the AWS listing (internal/adapters/awsssm), which reads  *)
(* the nodes known to SSM page by page, then the details EC2 has of them   *)
(* page by page, and joins both.  Machines come and go, go up and down and *)
(* get and lose their EC2 tags meanwhile, a provider may fail at any call, *)
(* and the operator edits the overlays that the listing reads one by one.  *)
(*                                                                         *)
(* AWS answers in the order of node numbers.  A page holds what there is,  *)
(* when it is asked for, of the nodes after the token up to some number    *)
(* that AWS chooses, and says whether to ask for more.  Calls to AWS       *)
(* return.  An overlay is the hidden mark and the health it has saved; a   *)
(* row is known by its machine's ID and its place in the provider's        *)
(* listing, and its order among the others is in MachineOrder.  Checks and *)
(* edits take effect at once here; what may happen within them is in       *)
(* Cockpit.                                                                *)
(***************************************************************************)
EXTENDS Integers, FiniteSets, Sequences

CONSTANTS
    NodeCount,      \* the nodes are 1 .. NodeCount
    Fleets,         \* the fleets the program may find
    Alias,          \* the names of hosts
    HostLists,      \* what the SSH config may list: aliases, in its order
    Sources,        \* the sets of providers a listing may be asked to cover
    StoreFails,     \* whether an overlay may fail to load
    MaxListings,    \* bound: listings begun
    MaxChanges,     \* bound: changes of the fleet
    MaxEdits        \* bound: checks and edits

Node == 1 .. NodeCount
ID == Alias \cup Node

\* What SSM says of a node, and whether EC2 has its tags.
NodeState == [ssm : {"absent", "up", "down"}, ec2 : BOOLEAN]

Overlay == [hidden : BOOLEAN, health : {"none", "unknown", "up", "down"}]
NoOverlay == [hidden |-> FALSE, health |-> "none"]

ASSUME NodeCountAssumption == NodeCount \in Nat
ASSUME AliasAssumption == Alias \cap Node = {}
ASSUME FleetsAssumption == Fleets \subseteq [Node -> NodeState]
ASSUME HostListsAssumption == HostLists \subseteq Seq(Alias)
ASSUME SourcesAssumption == Sources \subseteq SUBSET {"ssh", "aws"}
ASSUME BoundsAssumption ==
    MaxListings \in Nat /\ MaxChanges \in Nat /\ MaxEdits \in Nat

VARIABLES
    hosts,      \* the aliases that the SSH config lists
    fleet,      \* the nodes, as AWS knows them
    overlays,   \* operator memory
    call,       \* the call of List under way
    rows,       \* Model.machines
    seen,       \* what nodes and overlays have been during it
    listings,   \* listings begun so far
    changes,    \* changes of the fleet so far
    edits       \* checks and edits so far

world == <<hosts, fleet, overlays>>
counters == <<listings, changes, edits>>
vars == <<world, call, rows, seen, counters>>

Healths == {"unknown", "up", "down"}
Machine == [id : ID, place : Nat, health : Healths, named : BOOLEAN]
RowType == [id : ID, place : Nat, named : BOOLEAN, listed : Healths,
            hidden : BOOLEAN, health : Healths]

\* List is at rest, in its loop, or in the pages of SSM or EC2; ask holds the
\* providers the loop has not come to, todo the machines it has to merge.
Calls == [at : {"idle", "loop", "ssm", "ec2"}, ask : SUBSET {"ssh", "aws"},
          covers : SUBSET {"ssh", "aws"}, show : BOOLEAN, read : Seq(Alias),
          token : 0 .. NodeCount, tagged : SUBSET Node,
          nodes : SUBSET [id : Node, health : {"up", "down"}],
          todo : SUBSET Machine, got : SUBSET RowType,
          statuses : SUBSET [name : {"ssh", "aws"}, ok : BOOLEAN]]

NoCall == [at |-> "idle", ask |-> {}, covers |-> {}, show |-> FALSE,
           read |-> <<>>, token |-> 0, tagged |-> {}, nodes |-> {},
           todo |-> {}, got |-> {}, statuses |-> {}]

Nothing == [node |-> [n \in Node |-> {}], overlay |-> [m \in ID |-> {}]]

At(step) == call.at = step

----------------------------------------------------------------------------
Init ==
    /\ hosts \in HostLists
    /\ fleet \in Fleets
    /\ overlays = [m \in ID |-> NoOverlay]
    /\ call = NoCall
    /\ rows = {}
    /\ seen = Nothing
    /\ listings = 0
    /\ changes = 0
    /\ edits = 0

----------------------------------------------------------------------------
(* List *)

\* A refresh: its query says what to cover and whether to show hidden rows.
BeginListing(covers, show) ==
    /\ At("idle")
    /\ listings < MaxListings
    /\ listings' = listings + 1
    /\ call' = [NoCall EXCEPT !.at = "loop", !.ask = covers, !.covers = covers,
                              !.show = show]
    /\ seen' = [node |-> [n \in Node |-> {fleet[n]}],
                overlay |-> [m \in ID |-> {overlays[m]}]]
    /\ UNCHANGED <<world, rows, changes, edits>>

Listing == UNCHANGED <<world, rows, counters>>

\* The loop comes to a provider when the machines of the one before are merged.
Turn(provider) ==
    /\ At("loop") /\ call.todo = {}
    /\ provider \in call.ask
    /\ provider = "aws" => "ssh" \notin call.ask

\* An answer leaves a status; a provider that fails is degraded and leaves
\* nothing to merge.
Answer(provider, ok, machines) ==
    /\ call' = [call EXCEPT
           !.at = "loop", !.ask = @ \ {provider}, !.todo = machines,
           !.read = IF provider = "ssh" /\ ok THEN hosts ELSE @,
           !.statuses = @ \cup {[name |-> provider, ok |-> ok]}]
    /\ UNCHANGED seen
    /\ Listing

\* The machines of a config, with the placeholder for their health.
HostMachines(aliases) ==
    {[id |-> aliases[i], place |-> i, health |-> "unknown", named |-> TRUE] :
        i \in DOMAIN aliases}

ReadConfig == Turn("ssh") /\ Answer("ssh", TRUE, HostMachines(hosts))

SSHFails == Turn("ssh") /\ Answer("ssh", FALSE, {})

AskAWS ==
    /\ Turn("aws")
    /\ call' = [call EXCEPT !.at = "ssm"]
    /\ UNCHANGED seen
    /\ Listing

\* A page: the nodes up to some number, of those S that are there.  AWS gives
\* a token while there are more, or one that leads to an empty page.
Page(upto, S) == S \cap call.token + 1 .. upto

More(upto, more, S) ==
    /\ upto >= call.token
    /\ more => call.token < upto /\ upto < NodeCount
    /\ S \cap upto + 1 .. NodeCount # {} => more

Registered == {n \in Node : fleet[n].ssm # "absent"}
Tagged == {n \in Node : fleet[n].ec2}

\* fetchSSM
SSMPage(upto, more) ==
    /\ At("ssm")
    /\ More(upto, more, Registered)
    /\ call' = [call EXCEPT
           !.at = IF more THEN "ssm" ELSE "ec2",
           !.token = IF more THEN upto ELSE 0,
           !.nodes = @ \cup {[id |-> n, health |-> fleet[n].ssm] :
                                n \in Page(upto, Registered)}]
    /\ UNCHANGED seen
    /\ Listing

\* fetchEC2, and at its end the join of both.
EC2Page(upto, more) ==
    /\ At("ec2")
    /\ More(upto, more, Tagged)
    /\ more
    /\ call' = [call EXCEPT !.token = upto,
                            !.tagged = @ \cup Page(upto, Tagged)]
    /\ UNCHANGED seen
    /\ Listing

JoinTagged(tagged) ==
    {[id |-> x.id, place |-> x.id, health |-> x.health, named |-> TRUE] :
        x \in {y \in call.nodes : y.id \in tagged}}

Join(tagged) ==
    {[id |-> x.id, place |-> x.id, health |-> x.health,
      named |-> x.id \in tagged] : x \in call.nodes}

LastEC2Page(upto) ==
    /\ At("ec2")
    /\ More(upto, FALSE, Tagged)
    /\ Answer("aws", TRUE, Join(call.tagged \cup Page(upto, Tagged)))

\* A failing page fails the provider, whatever the pages before it brought.
AWSFailsWithRest ==
    /\ At("ssm") \/ At("ec2")
    /\ Answer("aws", FALSE, Join(call.tagged))

AWSFailsAndRetries ==
    /\ At("ssm") \/ At("ec2")
    /\ call' = [call EXCEPT !.at = "ssm", !.token = 0, !.nodes = {}, !.tagged = {}]
    /\ UNCHANGED seen
    /\ Listing

AWSFails ==
    /\ At("ssm") \/ At("ec2")
    /\ Answer("aws", FALSE, {})

\* ApplyOverlay: the health that was saved, if any, replaces the one listed.
RowAsSaved(m, overlay) ==
    [id |-> m.id, place |-> m.place, named |-> m.named, listed |-> m.health,
     hidden |-> overlay.hidden, health |-> overlay.health]

Row(m, overlay) ==
    [id |-> m.id, place |-> m.place, named |-> m.named, listed |-> m.health,
     hidden |-> overlay.hidden,
     health |-> IF overlay.health = "none" THEN m.health ELSE overlay.health]

\* One overlay is merged, or none when it cannot be loaded.
Merge(m) ==
    /\ At("loop")
    /\ \E overlay \in {overlays[m.id]} \cup (IF StoreFails THEN {NoOverlay} ELSE {}) :
          /\ call' = [call EXCEPT
                 !.todo = @ \ {m},
                 !.got = IF overlay.hidden /\ ~call.show THEN @
                         ELSE @ \cup {Row(m, overlay)}]
          /\ seen' = [seen EXCEPT !.overlay[m.id] = @ \cup {overlay}]
    /\ Listing

\* The answer becomes the rows of the cockpit.
Answered == At("loop") /\ call.todo = {} /\ call.ask = {}

EndListing ==
    /\ Answered
    /\ call' = NoCall
    /\ rows' = call.got
    /\ seen' = Nothing
    /\ UNCHANGED <<world, counters>>

ListStep ==
    \/ ReadConfig
    \/ SSHFails
    \/ AskAWS
    \/ \E upto \in 0 .. NodeCount, more \in BOOLEAN : SSMPage(upto, more)
    \/ \E upto \in 0 .. NodeCount, more \in BOOLEAN : EC2Page(upto, more)
    \/ \E upto \in 0 .. NodeCount : LastEC2Page(upto)
    \/ AWSFails
    \/ \E m \in call.todo : Merge(m)
    \/ EndListing

----------------------------------------------------------------------------
(* What changes meanwhile *)

\* A node is registered, starts, stops, is tagged or goes.
ChangeFleet(n, state) ==
    /\ changes < MaxChanges
    /\ changes' = changes + 1
    /\ fleet' = [fleet EXCEPT ![n] = state]
    /\ seen' = [seen EXCEPT !.node[n] = IF At("idle") THEN @ ELSE @ \cup {state}]
    /\ UNCHANGED <<hosts, overlays, call, rows, listings, edits>>

\* The SSH config is edited.
ChangeHosts(aliases) ==
    /\ changes < MaxChanges
    /\ changes' = changes + 1
    /\ hosts' = aliases
    /\ UNCHANGED <<fleet, overlays, call, rows, seen, listings, edits>>

Edit == edits < MaxEdits /\ edits' = edits + 1

Save(m, overlay) ==
    /\ overlays' = [overlays EXCEPT ![m] = overlay]
    /\ seen' = [seen EXCEPT !.overlay[m] = IF At("idle") THEN @
                                           ELSE @ \cup {overlay}]
    /\ UNCHANGED <<hosts, fleet, call, listings, changes>>

\* A check of a host dials it; a check of a node takes its row's health.
Check(r) ==
    /\ Edit
    /\ \E health \in IF r.id \in Node THEN {r.health} ELSE {"up", "down"} :
          /\ Save(r.id, [overlays[r.id] EXCEPT !.health = health])
          /\ rows' = {IF x.id = r.id THEN [x EXCEPT !.health = health] ELSE x :
                         x \in rows}

\* `x`: replaceMachine replaces the first row that has the machine's ID, and
\* saveOverlay saves the whole row.
ToggleHiddenInPlace(r) ==
    LET edited == [r EXCEPT !.hidden = ~@]
    IN  /\ Edit
        /\ \E first \in {x \in rows : x.place = r.place} :
              rows' = (rows \ {first}) \cup {edited}
        /\ Save(r.id, [hidden |-> edited.hidden, health |-> edited.health])

ToggleHidden(r) ==
    LET edited == [r EXCEPT !.hidden = ~@]
    IN  /\ Edit
        /\ \E first \in {x \in rows : x.id = r.id} :
              rows' = (rows \ {first}) \cup {edited}
        /\ Save(r.id, [hidden |-> edited.hidden, health |-> edited.health])

Outside ==
    \/ \E n \in Node : \E state \in NodeState \ {fleet[n]} : ChangeFleet(n, state)
    \/ \E aliases \in HostLists \ {hosts} : ChangeHosts(aliases)
    \/ \E r \in rows : Check(r) \/ ToggleHidden(r)

Begin == \E covers \in Sources, show \in BOOLEAN : BeginListing(covers, show)

Next == Begin \/ ListStep \/ Outside

Fairness == WF_vars(ListStep)

Spec == Init /\ [][Next]_vars /\ Fairness

----------------------------------------------------------------------------
(* Properties *)

\* Every variable has its kind of value, the call its parts.
TypeOK ==
    /\ hosts \in Seq(Alias)
    /\ fleet \in [Node -> NodeState]
    /\ overlays \in [ID -> Overlay]
    /\ call \in Calls
    /\ rows \subseteq RowType
    /\ seen \in [node : [Node -> SUBSET NodeState], overlay : [ID -> SUBSET Overlay]]
    /\ listings \in 0 .. MaxListings
    /\ changes \in 0 .. MaxChanges
    /\ edits \in 0 .. MaxEdits

Says(provider, ok) == [name |-> provider, ok |-> ok] \in call.statuses

\* A machine may be missing only if it was hidden at some time.
MayBeHidden(m) == ~call.show /\ \E overlay \in seen.overlay[m] : overlay.hidden

\* A row shows one of the overlays its machine had during the listing.
ShowsOverlay(r) ==
    \E overlay \in seen.overlay[r.id] :
        /\ r.hidden = overlay.hidden
        /\ r.health = IF overlay.health = "none" THEN r.listed ELSE overlay.health

\* However nodes come and go between two pages, a listing that AWS did not
\* refuse has each node at most once, with an answer of SSM, one of EC2 and an
\* overlay that were true at some time during it, and misses only nodes that
\* were absent or hidden at some time.
NodesAreListed ==
    Answered /\ Says("aws", TRUE) =>
        \A n \in Node :
            LET mine == {r \in call.got : r.id = n} IN
            /\ \A r, s \in mine : r = s
            /\ \A r \in mine :
                  /\ \E state \in seen.node[n] : state.ssm = r.listed
                  /\ \E state \in seen.node[n] : state.ec2 = r.named
                  /\ ShowsOverlay(r)
            /\ mine = {} => \/ MayBeHidden(n)
                            \/ \E state \in seen.node[n] : state.ssm = "absent"

\* A degraded provider takes nothing from the other one: the hosts of the
\* config as it was read are listed, whatever AWS did, and AWS has rows only
\* if it did not fail.  Every provider asked has one status.
ProvidersFailApart ==
    Answered =>
        /\ \A p \in call.covers : Says(p, TRUE) # Says(p, FALSE)
        /\ {s.name : s \in call.statuses} = call.covers
        /\ \A r \in call.got :
              \/ r.id \in Node /\ Says("aws", TRUE)
              \/ Says("ssh", TRUE) /\ ShowsOverlay(r)
                 /\ [id |-> r.id, place |-> r.place, health |-> r.listed,
                     named |-> r.named] \in HostMachines(call.read)
        /\ Says("ssh", TRUE) => \A m \in HostMachines(call.read) :
              MayBeHidden(m.id) \/ \E r \in call.got :
                                      r.id = m.id /\ r.place = m.place

\* A check or an edit changes the rows of one machine only, and a machine that
\* has one row keeps it.  (Of an alias on two Host lines, which has two, a row
\* may be lost: replaceMachine goes by ID.)
EditsKeepMachines ==
    [][edits' # edits =>
          /\ \A r, s \in rows \ rows' : r.id = s.id
          /\ \A r \in rows : (\A s \in rows : s.id = r.id => s = r) =>
                \E t \in rows' : <<t.id, t.place, t.listed, t.named>>
                                     = <<r.id, r.place, r.listed, r.named>>]_vars

\* Every listing ends, also when AWS gives tokens that lead to empty pages and
\* the fleet changes between them.
ListingEnds == ~At("idle") ~> At("idle")

----------------------------------------------------------------------------
(* What a comment of the code says, and a run refutes *)

\* A check of a node records the health that the latest listing gave it.
ChecksAreCurrent ==
    [][\A r \in rows : Check(r) /\ r.id \in Node =>
          overlays'[r.id].health = r.listed]_vars

============================================================================
