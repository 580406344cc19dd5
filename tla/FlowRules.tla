------------------------------ MODULE FlowRules ------------------------------
(***************************************************************************)
(* The flow rules, shared actions and tunnels of one port: what config.c   *)
(* does for a line that cmdline_flow.c has parsed, and what closing the    *)
(* port does to them. struct rte_port keeps three lists, each with its     *)
(* newest entry, which has the highest number, first; the device keeps     *)
(* rules and actions of its own. The device may refuse anything it is      *)
(* asked; memory never runs out.                                           *)
(*                                                                         *)
(* The serial number of a rule stands for the rte_flow or                  *)
(* rte_flow_shared_action it has; two patterns and two lists of actions    *)
(* are told apart.                                                         *)
(***************************************************************************)
EXTENDS Integers, FiniteSets, SequencesExt, ListsAndSums

CONSTANTS
    AskedRules,     \* rules a line can give: [group, priority, pattern, acts]
    MaxSerial,      \* rules and actions made in all (bound)
    MaxFlowLines    \* lines carried out (bound)

Patterns == {r.pattern : r \in AskedRules}
ActionLists == {r.acts : r \in AskedRules}

ASSUME RulesAssumption ==
    /\ AskedRules \subseteq [group : Nat, priority : Nat, pattern : Patterns, acts : ActionLists]
    /\ MaxSerial \in Nat

VARIABLES
    port_open,      \* the port is attached; a line for another port is refused
    flow_list,      \* port->flow_list
    actions_list,   \* port->actions_list
    tunnels,        \* port->flow_tunnel_list
    flow_device,    \* serial numbers the device has: [flows, actions]
    serial,         \* the next one
    shown,          \* what the last line printed: ids of rules, in order
    flow_lines,     \* lines so far
    mishaps         \* what has happened that the lists do not recover from

fvars == <<port_open, flow_list, actions_list, tunnels, flow_device, serial, shown, flow_lines, mishaps>>

None == "none"

FInit ==
    /\ port_open = TRUE
    /\ flow_list = <<>> /\ actions_list = <<>> /\ tunnels = <<>>
    /\ flow_device = [flows |-> {}, actions |-> {}]
    /\ serial = 0
    /\ shown = <<>>
    /\ flow_lines = 0
    /\ mishaps = {}

\* cmd_flow_parsed() carries out one line
cmd_flow_parsed(changes) ==
    /\ flow_lines < MaxFlowLines
    /\ flow_lines' = flow_lines + 1
    /\ changes

Ids(list) == {list[k].id : k \in DOMAIN list}
Serials(list) == {list[k].serial : k \in DOMAIN list}

Places(list, ids) == {k \in DOMAIN list : list[k].id \in ids}
With(list, ids) == Only(list, Places(list, ids))
Without(list, ids) == Only(list, DOMAIN list \ Places(list, ids))
NextId(list, first) == IF list = <<>> THEN first ELSE list[1].id + 1

-----------------------------------------------------------------------------
\* Tunnels: one for each type, and vxlan is the only type.
port_flow_tunnel_create ==
    /\ tunnels' = IF tunnels # <<>> THEN tunnels
                  ELSE <<[id |-> NextId(tunnels, 1), items |-> None, actions |-> None]>>
    /\ UNCHANGED <<port_open, flow_list, actions_list, flow_device, serial, shown, mishaps>>

port_flow_tunnel_destroy(id) ==
    /\ tunnels' = Without(tunnels, {id})
    /\ UNCHANGED <<port_open, flow_list, actions_list, flow_device, serial, shown, mishaps>>

port_flow_locate_tunnel_id(id) == {k \in DOMAIN tunnels : tunnels[k].id = id}

\* A line with tunnel_set gives the tunnel its actions, after those of the device,
\* and one with tunnel_match its items. The device may refuse either, and what
\* the tunnel was given before stays with it.
Prepared(t, ops, refused) ==
    [t EXCEPT !.actions = IF ops.actions /\ refused # "decap_set" THEN ops.rule.acts ELSE @,
              !.items = IF ops.items /\ refused = None THEN ops.rule.pattern ELSE @]

\* Seeded fault: the items stay with the tunnel.
Released_Items(t, ops) == [t EXCEPT !.actions = IF ops.actions THEN None ELSE @]

Released(t, ops) ==
    [t EXCEPT !.actions = IF ops.actions THEN None ELSE @, !.items = IF ops.items THEN None ELSE @]

\* A closed port has no device, and rte_flow refuses whatever it is asked of it.
Refusals(ops) ==
    LET told == {r \in {"decap_set"} : ops.actions} \cup {r \in {"match"} : ops.items}
    IN  IF port_open \/ told = {} THEN {None} \cup told
        ELSE IF ops.actions THEN {"decap_set"} ELSE {"match"}
Answers == {FALSE} \cup {b \in {TRUE} : port_open}

\* The rule is made of what the tunnel has, whichever line it has it from.
MadeOf(t, rule) ==
    [group |-> rule.group, priority |-> rule.priority,
     pattern |-> IF t.items # None THEN t.items ELSE rule.pattern,
     acts |-> IF t.actions # None THEN t.actions ELSE rule.acts]

\* The tunnels, the rule for the device, and whether the line got as far as that
port_flow_tunnel_offload_cmd_prep(ops, refused) ==
    LET found == port_flow_locate_tunnel_id(ops.id)
        k == CHOOSE x \in found : TRUE
        t == Prepared(tunnels[k], ops, refused)
    IN  IF ~ops.actions /\ ~ops.items
          THEN [tunnels |-> tunnels, released |-> tunnels, rule |-> ops.rule, ready |-> TRUE]
        ELSE IF found = {} THEN [tunnels |-> tunnels, released |-> tunnels, rule |-> ops.rule, ready |-> FALSE]
        ELSE [tunnels |-> [tunnels EXCEPT ![k] = t], released |-> [tunnels EXCEPT ![k] = Released(t, ops)],
              rule |-> MadeOf(t, ops.rule), ready |-> refused = None]

\* A line that fails after it gave the tunnel something leaves that there.
LeftWithTunnel(prep, done) == {m \in {"tunnel"} : ~done /\ prep.tunnels # tunnels}

\* What the tunnel holds is released only when the rule is valid.
port_flow_validate(ops, refused, valid) ==
    LET prep == port_flow_tunnel_offload_cmd_prep(ops, refused)
    IN  /\ tunnels' = IF prep.ready /\ valid THEN prep.released ELSE prep.tunnels
        /\ mishaps' = mishaps \cup LeftWithTunnel(prep, prep.ready /\ valid)
        /\ UNCHANGED <<port_open, flow_list, actions_list, flow_device, serial, shown>>

port_flow_create(ops, refused, taken) ==
    LET prep == port_flow_tunnel_offload_cmd_prep(ops, refused)
        pf == [id |-> NextId(flow_list, 0), serial |-> serial, asked |-> ops.rule, rule |-> prep.rule]
    IN  /\ IF prep.ready
             THEN /\ tunnels' = prep.released
                  /\ IF taken /\ serial < MaxSerial
                       THEN /\ flow_list' = <<pf>> \o flow_list
                            /\ flow_device' = [flow_device EXCEPT !.flows = @ \cup {serial}]
                            /\ serial' = serial + 1
                       ELSE UNCHANGED <<flow_list, flow_device, serial>>
             ELSE /\ tunnels' = prep.tunnels
                  /\ UNCHANGED <<flow_list, flow_device, serial>>
        /\ mishaps' = mishaps \cup LeftWithTunnel(prep, prep.ready)
        /\ UNCHANGED <<port_open, actions_list, shown>>

-----------------------------------------------------------------------------
\* The rules the line names are destroyed, but for those the device keeps.
port_flow_destroy(ids, kept) ==
    LET gone == (ids \cap Ids(flow_list)) \ kept
    IN  /\ port_open
        /\ flow_list' = Without(flow_list, gone)
        /\ flow_device' = [flow_device EXCEPT !.flows = @ \ Serials(With(flow_list, gone))]
        /\ UNCHANGED <<port_open, actions_list, tunnels, serial, shown, mishaps>>

\* The rules are forgotten whether or not the device has flushed them.
Flushed(done) ==
    /\ flow_list' = <<>>
    /\ IF flow_list = <<>> \/ done
         THEN mishaps' = mishaps
         ELSE mishaps' = mishaps \cup {"flush"}

port_flow_flush(done) ==
    /\ port_open
    /\ Flushed(done)
    /\ flow_device' = IF done /\ flow_list # <<>> THEN [flow_device EXCEPT !.flows = {}] ELSE flow_device
    /\ UNCHANGED <<port_open, actions_list, tunnels, serial, shown>>

port_flow_query(id) ==
    /\ port_open
    /\ shown' = IF id \in Ids(flow_list) THEN <<id>> ELSE <<>>
    /\ UNCHANGED <<port_open, flow_list, actions_list, tunnels, flow_device, serial, mishaps>>

\* The device tells which rules have aged by the context it was given with each;
\* with "destroy" each is destroyed by its number.
port_flow_aged(aged, destroy, kept) ==
    LET listed == Only(flow_list, {k \in DOMAIN flow_list : flow_list[k].serial \in aged})
        gone == IF destroy THEN Ids(listed) \ kept ELSE {}
    IN  /\ port_open
        /\ aged \subseteq flow_device.flows \cap Serials(flow_list)
        /\ shown' = [k \in DOMAIN listed |-> listed[k].id]
        /\ flow_list' = Without(flow_list, gone)
        /\ flow_device' = [flow_device EXCEPT !.flows = @ \ Serials(With(flow_list, gone))]
        /\ UNCHANGED <<port_open, actions_list, tunnels, serial, mishaps>>

\* Seeded fault: by priority, whatever the group.
Past_Priority(r, s) ==
    \/ r.asked.priority > s.asked.priority
    \/ r.asked.priority = s.asked.priority /\ r.id > s.id

\* The list is sorted by insertion: past every rule that is not after this one
Past(r, s) ==
    \/ r.asked.group > s.asked.group
    \/ r.asked.group = s.asked.group /\ r.asked.priority > s.asked.priority
    \/ r.asked.group = s.asked.group /\ r.asked.priority = s.asked.priority /\ r.id > s.id

Inserted(list, r) ==
    LET at == CHOOSE k \in 1 .. Len(list) + 1 :
                /\ \A j \in 1 .. k - 1 : Past(r, list[j])
                /\ k <= Len(list) => ~Past(r, list[k])
    IN  InsertAt(list, at, r)

\* No groups in the line: all of them
port_flow_list(groups) ==
    LET chosen == Only(flow_list, {k \in DOMAIN flow_list : groups = {} \/ flow_list[k].asked.group \in groups})
        sorted == FoldLeft(Inserted, <<>>, chosen)
    IN  /\ port_open
        /\ shown' = [k \in DOMAIN sorted |-> sorted[k].id]
        /\ UNCHANGED <<port_open, flow_list, actions_list, tunnels, flow_device, serial, mishaps>>

-----------------------------------------------------------------------------
\* Seeded fault: always the first of the list.
Placed_First(list, psa) == <<psa>> \o list

\* A shared action gets the number the line asks for, or the one after the
\* highest; it is put in its place in the list before the device is asked.
Placed(list, psa) ==
    Only(list, {k \in DOMAIN list : list[k].id > psa.id}) \o <<psa>> \o
    Only(list, {k \in DOMAIN list : list[k].id < psa.id})

AnyId == -1
action_alloc(id) == IF id = AnyId THEN NextId(actions_list, 0) ELSE id

port_shared_action_create(asked, taken) ==
    LET id == action_alloc(asked)
    IN  /\ port_open
        /\ IF id \notin Ids(actions_list) /\ taken /\ serial < MaxSerial
             THEN /\ actions_list' = Placed(actions_list, [id |-> id, serial |-> serial])
                  /\ flow_device' = [flow_device EXCEPT !.actions = @ \cup {serial}]
                  /\ serial' = serial + 1
             ELSE UNCHANGED <<actions_list, flow_device, serial>>
        /\ UNCHANGED <<port_open, flow_list, tunnels, shown, mishaps>>

port_shared_action_destroy(ids, kept) ==
    LET gone == (ids \cap Ids(actions_list)) \ kept
    IN  /\ port_open
        /\ actions_list' = Without(actions_list, gone)
        /\ flow_device' = [flow_device EXCEPT !.actions = @ \ Serials(With(actions_list, gone))]
        /\ UNCHANGED <<port_open, flow_list, tunnels, serial, shown, mishaps>>

\* Updating or querying an action looks it up.
port_shared_action_get_by_id(id) ==
    /\ port_open
    /\ shown' = IF id \in Ids(actions_list) THEN <<id>> ELSE <<>>
    /\ UNCHANGED <<port_open, flow_list, actions_list, tunnels, flow_device, serial, mishaps>>

-----------------------------------------------------------------------------
\* Closing the port flushes its rules; its other lists stay, and so they are
\* there when a port is attached under the same number.
close_port_rules(done) ==
    /\ port_open
    /\ Flushed(TRUE)
    /\ port_open' = FALSE
    /\ flow_device' = [flows |-> {}, actions |-> {}]
    /\ flow_lines' = flow_lines
    /\ UNCHANGED <<actions_list, tunnels, serial, shown>>

attach_port_rules ==
    /\ ~port_open
    /\ port_open' = TRUE
    /\ mishaps' = mishaps \cup {m \in {"attached"} : actions_list # <<>>}
    /\ UNCHANGED <<flow_list, actions_list, tunnels, flow_device, serial, shown, flow_lines>>

RuleIds == 0 .. MaxSerial
Groups == {r.group : r \in AskedRules}
Ops == [id : 1 .. 2, actions : BOOLEAN, items : BOOLEAN, rule : AskedRules]

FLine ==
    \/ port_flow_tunnel_create
    \/ \E id \in 1 .. 2 : port_flow_tunnel_destroy(id)
    \/ \E ops \in Ops : \E refused \in Refusals(ops), ok \in Answers :
         port_flow_validate(ops, refused, ok) \/ port_flow_create(ops, refused, ok)
    \/ \E ids \in SUBSET Ids(flow_list) : \E kept \in SUBSET ids : port_flow_destroy(ids, kept)
    \/ \E done \in BOOLEAN : port_flow_flush(done)
    \/ \E id \in RuleIds : port_flow_query(id) \/ port_shared_action_get_by_id(id)
    \/ \E aged \in SUBSET flow_device.flows, destroy \in BOOLEAN : port_flow_aged(aged, destroy, {})
    \/ \E groups \in SUBSET Groups : port_flow_list(groups)
    \/ \E id \in RuleIds \cup {AnyId}, taken \in BOOLEAN : port_shared_action_create(id, taken)
    \/ \E ids \in SUBSET Ids(actions_list) : \E kept \in SUBSET ids : port_shared_action_destroy(ids, kept)

FNext == \/ cmd_flow_parsed(FLine)
         \/ close_port_rules(TRUE)
         \/ attach_port_rules

FSpec == FInit /\ [][FNext]_fvars

-----------------------------------------------------------------------------
Descending(list) == \A i, j \in DOMAIN list : i < j => list[i].id > list[j].id

IdsDescend == Descending(flow_list) /\ Descending(actions_list)

RulesMatchDevice == port_open /\ "flush" \notin mishaps => Serials(flow_list) = flow_device.flows
ActionsMatchDevice == port_open /\ "attached" \notin mishaps => Serials(actions_list) = flow_device.actions

\* The lists are what the device has, unless the device failed to flush, or the
\* port was closed with shared actions and attached again; no two rules, and no two
\* shared actions, have one number, in whatever order they are made and destroyed.
ListsMatchDevice == IdsDescend /\ RulesMatchDevice /\ ActionsMatchDevice

\* A rule is made of the pattern and the actions of its own line, unless a line
\* with a tunnel failed before and left its own with the tunnel.
RulesAreAsAsked ==
    "tunnel" \notin mishaps => \A k \in DOMAIN flow_list : flow_list[k].rule = flow_list[k].asked

\* Rules are listed by group, then by priority, then by number, each once.
RuleOf(id) == CHOOSE k \in DOMAIN flow_list : flow_list[k].id = id
Key(id) == LET r == flow_list[RuleOf(id)] IN <<r.asked.group, r.asked.priority, id>>
Before(k, l) == \/ k[1] < l[1]
                \/ k[1] = l[1] /\ k[2] < l[2]
                \/ k[1] = l[1] /\ k[2] = l[2] /\ k[3] < l[3]
ListedInOrder ==
    [][\A groups \in SUBSET Groups :
         port_flow_list(groups) =>
            /\ \A i, j \in DOMAIN shown' : i < j => Before(Key(shown'[i]), Key(shown'[j]))
            /\ {shown'[k] : k \in DOMAIN shown'} = {id \in Ids(flow_list) : groups = {} \/ Key(id)[1] \in groups}]_fvars
=============================================================================
