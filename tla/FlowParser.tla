----------------------------- MODULE FlowParser ------------------------------
(***************************************************************************)
(* The parser of the flow commands: cmdline_flow.c reads a line word by    *)
(* word with one static context, struct context, and fills struct buffer,  *)
(* which the command that the line ends in is carried out from. The same   *)
(* parse functions run without a buffer while the user asks for            *)
(* completions. There is no grammar but the tokens: each word pops the     *)
(* list it is looked up in and pushes lists and places for later words, so *)
(* where a value is stored depends on all the words before it.             *)
(*                                                                         *)
(* Entries of a pattern or of an action list are counted; what headers     *)
(* they stand for is left out.                                             *)
(***************************************************************************)
EXTENDS FlowTokens, Integers, SequencesExt

CONSTANTS
    CTX_STACK_SIZE,             \* entries of each stack of the context
    ACTION_RSS_QUEUE_NUM,       \* queues an RSS action can list
    Room,                       \* entries a result buffer has room for
    MaxIds                      \* identifiers in a line (bound)

VARIABLES
    ctx,        \* cmd_flow_context
    out,        \* the result buffer, as cmd_flow_parsed() will read it
    given,      \* the line is parsed into a buffer: it is not just completed
    line,       \* "idle", "words" while the line is read, "ran"
    asked,      \* the last word that names what the next value is
    stored      \* what the last word stored: the set of one value, or none

pvars == <<ctx, out, given, line, asked, stored>>

Nothing == <<"nothing">>
NULL == <<"NULL">>

NewContext(first, lists) ==
    [next |-> lists, args |-> <<>>, curr |-> first, object |-> NULL, objmask |-> FALSE, count |-> 0]

NewBuffer ==
    [command |-> "", pattern |-> [n |-> 0, ended |-> FALSE],
     actions |-> [set |-> FALSE, n |-> 0, ended |-> FALSE], last |-> Nothing, ids |-> 0]

PInit ==
    /\ ctx = NewContext(<<"ZERO">>, <<>>)
    /\ out = NewBuffer
    /\ given = TRUE
    /\ line = "idle"
    /\ asked = Nothing
    /\ stored = {}

-----------------------------------------------------------------------------
\* One word: the token taken from the top list pushes its lists and places,
\* unless a stack is full, after its parse function has left the context as c.
Fits(c, t) == /\ Len(c.next) - 1 + Len(Next_(t)) <= CTX_STACK_SIZE
              /\ Len(c.args) + Len(Args_(t)) <= CTX_STACK_SIZE

cmd_flow_parse(c, t) ==
    [c EXCEPT !.next = Front(@) \o Next_(t), !.args = @ \o Args_(t), !.curr = t]

Candidate(t) == line = "words" /\ ctx.next # <<>> /\ t \in ListOf(Last(ctx.next))

\* Words that name what the value after them is
Names(t) == Len(t) = 3 \/ t[1] \in {"GROUP", "PRIORITY", "TUNNEL_SET", "TUNNEL_MATCH", "TUNNEL_DESTROY_ID",
                                    "TUNNEL_CREATE_TYPE", "ISOLATE"}

Word_(t, c, o) ==
    /\ Candidate(t)
    /\ Fits(c, t)
    /\ ctx' = cmd_flow_parse(c, t)
    /\ out' = o
    /\ asked' = IF Names(t) THEN t ELSE asked
    /\ stored' = {}
    /\ UNCHANGED <<given, line>>

\* Point the context at an object. Without a buffer a parse function does not.
At(object, mask) == IF given THEN [ctx EXCEPT !.object = object, !.objmask = mask] ELSE ctx
Filled(o) == IF given THEN o ELSE out

-----------------------------------------------------------------------------
\* Words without a parse function of their own
parse_default ==
    \E t \in ListOf(Last(ctx.next)) :
        /\ \/ t[1] \in {"SHARED_ACTION_CREATE_ID", "SHARED_ACTION_SPEC", "ECPRI_COMMON", "ECPRI_TYPE", "END_SET"}
           \/ t \in {<<"ITEM", "/">>, <<"ACTION", "/">>}
           \/ t[1] = "ITEM" /\ Len(t) = 3
           \/ t[1] = "ACTION" /\ Len(t) = 3
                 /\ (t[2] \in SelfSelected \cup IndexedActions /\ t[3] # "queues")
        /\ Word_(t, ctx, out)

\* "flow" and "set" clear the buffer.
parse_init ==
    /\ Candidate(<<"FLOW">>)
    /\ Word_(<<"FLOW">>, At(<<"out">>, FALSE), Filled(NewBuffer))

parse_set_init ==
    /\ Candidate(<<"SET">>)
    /\ Word_(<<"SET">>, At(<<"entries">>, FALSE), Filled([NewBuffer EXCEPT !.command = "SET"]))

\* The command of a line: the port, and everything relative to the buffer, next.
\* "validate" and "create", "destroy", "flush", "dump", "query", "list", "aged",
\* "isolate", "tunnel" and "shared_action" do the same to an empty buffer.
FirstWords == {"VALIDATE", "CREATE", "DESTROY", "FLUSH", "DUMP", "QUERY", "LIST", "AGED", "ISOLATE", "TUNNEL",
               "SHARED_ACTION"}

Command(w) ==
    /\ w \in FirstWords
    /\ given => out.command = ""
    /\ Word_(<<w>>, At(<<"out">>, FALSE), Filled([out EXCEPT !.command = w]))

\* The second word of "tunnel" is the command; what it names is an option of a tunnel.
parse_tunnel(w) ==
    \/ /\ w \in {"TUNNEL_CREATE", "TUNNEL_DESTROY", "TUNNEL_LIST"}
       /\ Word_(<<w>>, ctx, Filled([out EXCEPT !.command = w]))
    \/ /\ w \in {"TUNNEL_CREATE_TYPE", "TUNNEL_DESTROY_ID"}
       /\ Word_(<<w>>, IF given THEN [ctx EXCEPT !.object = <<"tunnel_ops">>] ELSE ctx, out)

parse_aged(w) == w = "AGED_DESTROY" /\ Word_(<<w>>, ctx, out)

\* Each identifier of "destroy", "list" and "shared_action destroy" is an entry of
\* an array behind the buffer.
AnotherId(w) ==
    /\ w \in {"DESTROY_RULE", "LIST_GROUP", "SHARED_ACTION_DESTROY_ID"}
    /\ out.ids < MaxIds
    /\ Word_(<<w>>, At(<<"id">>, FALSE), Filled([out EXCEPT !.ids = @ + 1]))

parse_sa_destroy(w) ==
    /\ w = "SHARED_ACTION_DESTROY"
    /\ given => out.command = "SHARED_ACTION"
    /\ Word_(<<w>>, At(<<"out">>, FALSE), Filled([out EXCEPT !.command = w]))

parse_sa(w) ==
    \/ /\ w \in {"SHARED_ACTION_CREATE", "SHARED_ACTION_UPDATE"}
       /\ Word_(<<w>>, At(<<"out">>, FALSE), Filled([out EXCEPT !.command = w, !.actions.set = TRUE]))
    \/ /\ w = "SHARED_ACTION_QUERY"
       /\ Word_(<<w>>, At(<<"out">>, FALSE), Filled([out EXCEPT !.command = w]))
    \/ /\ w \in {"SHARED_ACTION_INGRESS", "SHARED_ACTION_EGRESS", "SHARED_ACTION_TRANSFER"}
       /\ Word_(<<w>>, ctx, out)

parse_set_raw_encap_decap(w) ==
    /\ w \in {"SET_RAW_ENCAP", "SET_RAW_DECAP"}
    /\ given => out.command # ""
    /\ Word_(<<w>>, At(<<"out">>, FALSE), Filled([out EXCEPT !.command = w]))

parse_set_sample_action(w) ==
    /\ w = "SET_SAMPLE_ACTIONS"
    /\ given => out.command # ""
    /\ Word_(<<w>>, At(<<"out">>, FALSE), Filled([out EXCEPT !.command = w, !.actions.set = TRUE]))

-----------------------------------------------------------------------------
\* parse_vc() after the command: attributes first
Attribute(w) ==
    \/ /\ w \in {"GROUP", "PRIORITY", "INGRESS", "EGRESS", "TRANSFER"}
       /\ Word_(<<w>>, At(<<"attr">>, FALSE), out)
    \/ /\ w \in {"TUNNEL_SET", "TUNNEL_MATCH"}
       /\ Word_(<<w>>, At(<<"tunnel_ops">>, FALSE), out)
    \/ /\ w = "PATTERN"
       /\ Word_(<<w>>, At(<<"entries">>, FALSE), out)
    \/ /\ w = "ACTIONS"
       /\ Word_(<<w>>, At(<<"entries">>, FALSE), Filled([out EXCEPT !.actions.set = TRUE]))

AddItem(i) == [out EXCEPT !.pattern = [n |-> @.n + 1, ended |-> i = "end"], !.last = <<"ITEM", i>>]
AddAction(a) == [out EXCEPT !.actions = [set |-> TRUE, n |-> @.n + 1, ended |-> a = "end"], !.last = <<"ACTION", a>>]

\* then entries. Whether one is an item or an action is told by whether the line
\* got to the actions. Refused when the entry and its data do not fit.
parse_vc(t, object) ==
    /\ \/ ~given
       \/ out.pattern.n + out.actions.n < Room
    /\ Word_(t, IF given THEN [At(object, FALSE) EXCEPT !.count = 0] ELSE ctx,
             Filled(IF out.actions.set THEN AddAction(t[2]) ELSE AddItem(t[2])))

Item ==
    \E t \in ListOf(Last(ctx.next)) :
        /\ t[1] = "ITEM" /\ Len(t) = 2 /\ t[2] # "/"
        /\ parse_vc(t, <<"item">>)

\* Actions with a parse function of their own leave the context at their data.
OwnParser == {"rss", "raw_encap", "raw_decap", "sample"}
             \cup {"vxlan_encap", "nvgre_encap", "l2_encap", "l2_decap", "mplsogre_encap", "mplsogre_decap",
                   "mplsoudp_encap", "mplsoudp_decap"}

Action ==
    \E t \in ListOf(Last(ctx.next)) :
        /\ t[1] = "ACTION" /\ Len(t) = 2 /\ t[2] # "/"
        /\ parse_vc(t, IF t[2] \in OwnParser THEN ActionData(t[2]) ELSE <<"action">>)

\* The data of the last entry of the buffer
LastData == IF out.last[1] = "ITEM" THEN ItemData(out.last[2])
            ELSE IF out.last[1] = "ACTION" THEN ActionData(out.last[2]) ELSE Nothing

\* A parameter of a field selects the copy of the data its value is stored in;
\* "prefix" has the next word read as a prefix length, whatever the field is.
parse_vc_spec(p) ==
    LET t == <<"PARAM", p>>
        c == At(LastData, p = "is")
    IN  /\ Candidate(t)
        /\ given => out.pattern.n > 0
        /\ p = "prefix" => Len(ctx.next) >= 2
        /\ Word_(t, IF p = "prefix" THEN [c EXCEPT !.next[Len(c.next) - 1] = <<"PREFIX">>] ELSE c, out)

\* Seeded fault: the object stays that of the action itself.
parse_vc_conf_Action ==
    \E t \in ListOf(Last(ctx.next)) :
        /\ t[1] = "ACTION" /\ Len(t) = 3
        /\ t[2] \notin SelfSelected \cup IndexedActions \/ t[3] = "queues"
        /\ Word_(t, ctx, out)

\* A field of an action goes to the data of the last entry.
parse_vc_conf ==
    \E t \in ListOf(Last(ctx.next)) :
        /\ t[1] = "ACTION" /\ Len(t) = 3
        /\ t[2] \notin SelfSelected \cup IndexedActions \/ t[3] = "queues"
        /\ Word_(t, At(LastData, FALSE), out)

-----------------------------------------------------------------------------
\* Values. The places they need are popped; one is stored when there is an object.
Pop(n) == SubSeq(ctx.args, 1, Len(ctx.args) - n)
Stored(t, place, object) ==
    IF object = NULL THEN {} ELSE {[by |-> t, place |-> place, object |-> object, asked |-> asked]}

Value(t, c, place, object) ==
    /\ Candidate(t)
    /\ Fits(c, t)
    /\ ctx' = cmd_flow_parse(c, t)
    /\ asked' = Nothing
    /\ stored' = Stored(t, place, object)
    /\ UNCHANGED <<out, given, line>>

\* parse_int() and the parse functions of one place
SimpleValues == {"INTEGER", Uns, "PREFIX", Bool, Mac, Ip4, Ip6, "FILE_PATH", "RULE_ID", "GROUP_ID", "PRIORITY_LEVEL",
                 "SHARED_ACTION_ID", "QUERY_ACTION"}

parse_int(v) ==
    /\ ctx.args # <<>>
    /\ Value(<<v>>, [ctx EXCEPT !.args = Pop(1)], Last(ctx.args), ctx.object)

\* A string stores its bytes, its length and its address: three places.
parse_string(v) ==
    /\ Len(ctx.args) >= 3
    /\ Value(<<v>>, [ctx EXCEPT !.args = Pop(3)], ctx.args[Len(ctx.args) - 2], ctx.object)

\* Without a buffer the port goes to a local one.
parse_port(v) ==
    /\ ctx.args # <<>>
    /\ LET c == [ctx EXCEPT !.args = Pop(1)]
       IN  Value(<<v>>, IF given THEN c ELSE [c EXCEPT !.object = NULL, !.objmask = FALSE],
                 Last(ctx.args), ctx.object)

\* An identifier of a shared action is read into a local variable.
parse_sa_id2ptr ==
    /\ ctx.args # <<>>
    /\ Value(<<"SHARED_ACTION_ID2PTR">>, [ctx EXCEPT !.args = Pop(1), !.objmask = FALSE], Last(ctx.args), <<"id">>)

\* The word that is the type of an eCPRI header writes it to the data itself.
parse_vc_item_ecpri_type(w) ==
    \/ /\ ctx.object = NULL
       /\ Word_(<<"ECPRI", w>>, ctx, out)
    \/ /\ ctx.object # NULL
       /\ ctx.args # <<>>
       /\ Value(<<"ECPRI", w>>, [ctx EXCEPT !.args = Pop(1)], Last(ctx.args), LastData)

parse_vc_action_rss_func(f) ==
    /\ Candidate(<<"RSS_FUNC", f>>)
    /\ Value(<<"RSS_FUNC", f>>, ctx, Place(ActionData("rss"), "func"), ctx.object)

\* Types and queues are listed until "end": the list they are in is pushed again.
Again(c, t) == [c EXCEPT !.next = Append(@, t)]

parse_vc_action_rss_type ==
    LET t == <<"RSS_TYPE">>
    IN  \/ Value(t, [ctx EXCEPT !.count = 0], Place(ActionData("rss"), "types"), ctx.object)
        \/ /\ Len(ctx.next) < CTX_STACK_SIZE
           /\ Value(t, Again([ctx EXCEPT !.count = 1], t), Place(ActionData("rss"), "types"), ctx.object)

parse_vc_action_rss_queue ==
    LET t == <<"RSS_QUEUE">>
    IN  \/ Value(t, [ctx EXCEPT !.count = 0], Place(ActionData("rss"), "queues"), ctx.object)
        \/ /\ ctx.count < ACTION_RSS_QUEUE_NUM
           /\ Len(ctx.args) < CTX_STACK_SIZE
           /\ Len(ctx.next) < CTX_STACK_SIZE
           /\ Value(t, Again([ctx EXCEPT !.count = @ + 1], t), Place(ActionData("rss"), "queues"), ctx.object)

\* An index of what "set" prepared: the place is pushed and popped at once.
parse_vc_action_index(a) ==
    /\ Len(ctx.args) < CTX_STACK_SIZE
    /\ Value(<<"INDEX", a>>, ctx, Place(ActionData(a), "index"), ctx.object)

-----------------------------------------------------------------------------
\* Begin a line, of cmd_flow or of cmd_set_raw: the context starts over. It is
\* parsed into a buffer, or read without one for completions.
cmd_flow_context_init(first, buffered) ==
    /\ line = "idle"
    /\ ctx' = NewContext(<<first>>, <<Next_(<<first>>)[1]>>)
    /\ out' = NewBuffer
    /\ given' = buffered
    /\ line' = "words"
    /\ asked' = Nothing
    /\ stored' = {}

\* Seeded fault: a line may end anywhere.
cmd_flow_tok_Anywhere ==
    /\ line = "words"
    /\ given
    /\ line' = "ran"
    /\ stored' = {}
    /\ UNCHANGED <<ctx, out, given, asked>>

\* The line is complete when no list is left, or at its end when the list on top
\* says it may end here.
cmd_flow_tok ==
    /\ line = "words"
    /\ ctx.next # <<>> => <<"END">> \in ListOf(Last(ctx.next))
    /\ given
    /\ line' = "ran"
    /\ stored' = {}
    /\ UNCHANGED <<ctx, out, given, asked>>

\* A line that is refused, or only was completed, or that has been carried out.
Leave ==
    /\ line # "idle"
    /\ ctx' = NewContext(<<"ZERO">>, <<>>)
    /\ out' = NewBuffer
    /\ given' = TRUE
    /\ line' = "idle"
    /\ asked' = Nothing
    /\ stored' = {}

Values == \/ \E v \in SimpleValues : parse_int(v)
          \/ \E v \in {"STRING", "HEX"} : parse_string(v)
          \/ \E v \in {"PORT_ID", "SET_RAW_INDEX", "SET_SAMPLE_INDEX"} : parse_port(v)
          \/ parse_sa_id2ptr
          \/ \E w \in DOMAIN EcpriTypes : parse_vc_item_ecpri_type(w)
          \/ \E f \in RssFuncs : parse_vc_action_rss_func(f)
          \/ parse_vc_action_rss_type
          \/ parse_vc_action_rss_queue
          \/ \E a \in IndexedActions : parse_vc_action_index(a)

CommandWord(w) == \/ Command(w)
                  \/ parse_tunnel(w)
                  \/ parse_aged(w)
                  \/ AnotherId(w)
                  \/ parse_sa_destroy(w)
                  \/ parse_sa(w)
                  \/ parse_set_raw_encap_decap(w)
                  \/ parse_set_sample_action(w)
                  \/ Attribute(w)

ReadWord ==
    /\ line = "words"
    /\ ctx.next # <<>>
    /\ \/ parse_default
       \/ parse_init
       \/ parse_set_init
       \/ \E w \in DOMAIN NamedTokens \cup {"AGED_DESTROY"} : CommandWord(w)
       \/ Item
       \/ Action
       \/ \E p \in {"is", "spec", "last", "mask", "prefix"} : parse_vc_spec(p)
       \/ parse_vc_conf
       \/ Values

PNext == \/ \E first \in {"ZERO", "START_SET"}, buffered \in BOOLEAN : cmd_flow_context_init(first, buffered)
         \/ ReadWord
         \/ cmd_flow_tok
         \/ Leave

PSpec == PInit /\ [][PNext]_pvars

-----------------------------------------------------------------------------
\* What a value is by its own name, or else by the last word that names one
Meant(s) ==
    IF s.by[1] \in {"PORT_ID", "SET_RAW_INDEX", "SET_SAMPLE_INDEX"} THEN {"port"}
    ELSE IF s.by[1] = "RULE_ID" THEN {"rule"}
    ELSE IF s.by[1] = "QUERY_ACTION" THEN {"action"}
    ELSE IF s.by[1] = "SHARED_ACTION_ID" THEN {"group", "action_id"}
    ELSE IF s.by[1] = "FILE_PATH" THEN {"file", "type"}
    ELSE IF s.asked = Nothing THEN {s.place.field}
    ELSE IF Len(s.asked) = 3 THEN {s.asked[3]}
    ELSE IF s.asked[1] = "GROUP" THEN {"group"}
    ELSE IF s.asked[1] = "PRIORITY" THEN {"priority"}
    ELSE IF s.asked[1] = "ISOLATE" THEN {"set"}
    ELSE {"id"}

\* Each value is stored in the field that the words before it name, and in an
\* object of the kind that field is an offset into; while a line is only completed
\* no parse function has an object to store in, or fills the buffer.
StoredWhereMeant ==
    /\ \A s \in stored : /\ s.place.of = s.object
                          /\ s.place.field \in Meant(s)
    /\ ~given => ctx.object = NULL /\ out = NewBuffer

\* After every entry of a line the stacks are where they were after the first, so
\* a line may have any number of entries; "set raw" keeps the place of an index
\* it was not given.
EntriesBalance ==
    given /\ line = "words" /\ ctx.curr \in {<<"ITEM", "/">>, <<"ACTION", "/">>}
        => /\ Len(ctx.next) = 1
           /\ Len(ctx.args) <= IF out.command \in {"SET_RAW_ENCAP", "SET_RAW_DECAP"} THEN 1 ELSE 0

\* A rule or a shared action is carried out with lists that end, and a sample has
\* an action, unless the line was broken off with the word that ends "set" lines.
ListsEnd ==
    line = "ran" /\ ctx.curr # <<"END_SET">> =>
        /\ out.command \in {"VALIDATE", "CREATE"} => out.pattern.ended /\ out.actions.ended
        /\ out.command \in {"SHARED_ACTION_CREATE", "SHARED_ACTION_UPDATE"} => out.actions.ended
        /\ out.command = "SET_SAMPLE_ACTIONS" => out.actions.n > 0

\* What a rule, a shared action or a sample is made of is complete.
LinesHoldTogether == EntriesBalance /\ ListsEnd
=============================================================================
