--------------------------- MODULE FlowParser_proofs ---------------------------
(***************************************************************************)
(* What the parser of the flow commands keeps, for any stacks, buffers and *)
(* lines: each value is stored where the words before it say, entries      *)
(* leave the stacks balanced, and a line is carried out with lists that    *)
(* end.                                                                    *)
(*                                                                         *)
(* The tokens are the only grammar there is, so the proof has to say what  *)
(* the stacks can look like: Shape lists the kinds of places a line moves  *)
(* between, PhaseOf how far it is at each of them, and each parse function *)
(* is shown to lead from one of the places to another.                     *)
(***************************************************************************)
EXTENDS Prompt, TLAPS

-----------------------------------------------------------------------------
(* The places of the grammar, and the invariant. *)

\* A line moves between few kinds of places of the grammar. What the stacks hold at each is said of
\* g (there is a buffer), n (the lists that are left), p (the places that wait for values), q (the
\* word that names the next value), o (the object) and d (the data of the last entry).
Points(g, o, x) == o = IF g THEN x ELSE NULL
Of(g, d, x) == g => d = x

\* At a list of words: no value is to come.
RestNames ==
    {"FLOW", "SET", "flow_commands", "set_commands", "next_sa_subcmd", "next_sa_create_attr", "SHARED_ACTION_SPEC",
     "SHARED_ACTION_DESTROY_ID", "next_sa_destroy_attr", "END", "next_vc_attr", "DESTROY_RULE", "next_destroy_attr",
     "next_list_attr", "next_aged_attr", "tunnel_commands", "TUNNEL_CREATE_TYPE", "TUNNEL_DESTROY_ID", "next_item",
     "ACTIONS", "next_action", "next_action_sample"}

RestList(g, l, o, d) ==
    \/ \E w \in RestNames : l = <<w>> /\ (w \in {"next_sa_create_attr", "tunnel_commands"} => Points(g, o, <<"out">>))
    \/ l = <<"ACTION", "/">>
    \/ \E i \in DOMAIN ItemFields : l = <<"AFTER_ITEM", i>> /\ Of(g, d, ItemData(i))
    \/ \E f : l \in {<<"AFTER_TYPE", f>>, <<"AFTER_MESSAGE", f>>} /\ Of(g, d, ItemData("ecpri"))
    \/ l = <<"ECPRI_TYPE">> /\ Of(g, d, ItemData("ecpri"))
    \/ \E a \in DOMAIN ActionFields : /\ l = <<"AFTER_ACTION", a>>
                                      /\ Of(g, d, ActionData(a))
                                      /\ a \in OwnParser => Points(g, o, ActionData(a))

AtRest(g, n, p, q, o, d) ==
    p = <<>> /\ q = Nothing /\ (n = <<>> \/ \E l : n = <<l>> /\ RestList(g, l, o, d))

\* At values of the buffer itself
PortWords == (FirstWords \ {"TUNNEL"}) \cup {"TUNNEL_CREATE", "TUNNEL_DESTROY", "TUNNEL_LIST"}
AfterPort == {"next_sa_subcmd", "next_vc_attr", "DESTROY_RULE", "next_list_attr", "next_aged_attr", "TUNNEL_CREATE_TYPE",
              "TUNNEL_DESTROY_ID"}

OutValues(n, p) ==
    \/ \E x \in AfterPort : n = << <<x>>, <<"PORT_ID">> >> /\ p = <<Out("port")>>
    \/ n = << <<"PORT_ID">> >> /\ p = <<Out("port")>>
    \/ n = << <<"next_dump_attr">>, <<"PORT_ID">> >> /\ p = <<Out("file"), Out("port")>>
    \/ n = << <<"next_dump_attr">> >> /\ p = <<Out("file")>>
    \/ /\ n = << <<"QUERY_ACTION">>, <<"RULE_ID">>, <<"PORT_ID">> >>
       /\ p = <<Out("action"), Out("rule"), Out("port")>>
    \/ n = << <<"QUERY_ACTION">>, <<"RULE_ID">> >> /\ p = <<Out("action"), Out("rule")>>
    \/ n = << <<"QUERY_ACTION">> >> /\ p = <<Out("action")>>
    \/ n = << <<"BOOLEAN">>, <<"PORT_ID">> >> /\ p = <<Out("set"), Out("port")>>
    \/ n = << <<"BOOLEAN">> >> /\ p = <<Out("set")>>
    \/ \E x \in {"SHARED_ACTION_SPEC", "next_sa_create_attr"} : /\ n = << <<x>>, <<"SHARED_ACTION_ID">> >>
                                                              /\ p = <<Out("group")>>
    \/ n = << <<"END">>, <<"SHARED_ACTION_ID">> >> /\ p = <<Out("action_id")>>
    \/ n \in {<< <<"next_set_raw">> >>, << <<"SET_SAMPLE_INDEX">> >>} /\ p = <<Out("port")>>

AtOut(g, n, p, q, o) ==
    /\ OutValues(n, p) /\ Points(g, o, <<"out">>)
    /\ q = Nothing \/ (q = <<"ISOLATE">> /\ n = << <<"BOOLEAN">>, <<"PORT_ID">> >>)

\* At an identifier, and at a value that its word names
IdWords == {"DESTROY_RULE", "LIST_GROUP", "SHARED_ACTION_DESTROY_ID"}
AtId(g, n, p, q, o) ==
    /\ q = Nothing /\ Points(g, o, <<"id">>)
    /\ \E w \in IdWords : n = Next_(<<w>>) /\ p = Args_(<<w>>)

NamedWords == {"GROUP", "PRIORITY", "TUNNEL_SET", "TUNNEL_MATCH", "TUNNEL_CREATE_TYPE", "TUNNEL_DESTROY_ID"}
AtNamed(g, n, p, q, o) ==
    \E w \in NamedWords :
        /\ n = Next_(<<w>>) /\ p = Args_(<<w>>) /\ q = <<w>>
        /\ Points(g, o, IF w \in {"GROUP", "PRIORITY"} THEN <<"attr">> ELSE <<"tunnel_ops">>)

\* At a value of kind v for field f of some data
Kinds == {Uns, Bool, Mac, Ip4, Ip6, "INTEGER"}
PlacesOf(data, f, v) ==
    IF v \in {"STRING", "HEX"}
      THEN <<Place(data, f), Place(data, IF v = "HEX" THEN "key_len" ELSE "length"), Place(data, "bytes")>>
      ELSE <<Place(data, f)>>

\* Field f of item i, after which list l is next
ItemValue(g, l, v, p, q, d, i, f) ==
    /\ v \in Kinds \cup {"STRING", "PREFIX"}
    /\ p = PlacesOf(ItemData(i), f, v)
    /\ q \in {Nothing, <<"ITEM", i, f>>}
    /\ l = <<"AFTER_ITEM", i>> \/ (i = "ecpri" /\ l = <<"AFTER_MESSAGE", f>>)
    /\ Of(g, d, ItemData(i))

AtParam(g, n, p, q, d) ==
    \E i \in DOMAIN ItemFields : \E f, l, v, x :
        /\ n = <<l, <<v>>, x>> /\ ItemValue(g, l, v, p, q, d, i, f)
        /\ x \in {<<"item_param">>, <<"raw_param">>, <<"tag_param">>}
        /\ v = "STRING" => x = <<"raw_param">>

AtItem(g, n, p, q, o, d) ==
    \E i \in DOMAIN ItemFields : \E f, l, v :
        n = <<l, <<v>>>> /\ ItemValue(g, l, v, p, q, d, i, f) /\ Points(g, o, ItemData(i))

AtType(g, n, p, q, d) ==
    n = << <<"ecpri_types">> >> /\ p = <<Place(ItemData("ecpri"), "type")>> /\ q = Nothing /\ Of(g, d, ItemData("ecpri"))

\* Field f of action a
AtAction(g, n, p, q, o, d) ==
    \E a \in DOMAIN ActionFields : \E f, v :
        /\ n = << <<"AFTER_ACTION", a>>, <<v>> >>
        /\ v \in Kinds \cup {"HEX"}
        /\ p = PlacesOf(ActionData(a), f, v)
        /\ q = <<"ACTION", a, f>>
        /\ Of(g, d, ActionData(a)) /\ Points(g, o, ActionData(a))

\* The lists of an RSS action need no places.
RssList(f) == IF f = "func" THEN "rss_funcs" ELSE IF f = "types" THEN "RSS_TYPE" ELSE "RSS_QUEUE"
AtRss(g, n, p, q, o, d) ==
    /\ p = <<>>
    /\ \E f \in {"func", "types", "queues"} : /\ n = << <<"AFTER_ACTION", "rss">>, <<RssList(f)>> >>
                                              /\ q \in {Nothing, <<"ACTION", "rss", f>>}
    /\ Of(g, d, ActionData("rss")) /\ Points(g, o, ActionData("rss"))

AtIndex(g, n, p, q, o) ==
    /\ p = <<>>
    /\ \E a \in IndexedActions : n = << <<"INDEX", a>> >> /\ q = <<"ACTION", a, "index">> /\ Points(g, o, ActionData(a))

AtShared(n, p, q) == n = << <<"SHARED_ACTION_ID2PTR">> >> /\ p = <<Place(<<"id">>, "id")>> /\ q = Nothing

Shape(g, n, p, q, o, d) ==
    \/ AtRest(g, n, p, q, o, d)
    \/ AtOut(g, n, p, q, o)
    \/ AtId(g, n, p, q, o)
    \/ AtNamed(g, n, p, q, o)
    \/ AtParam(g, n, p, q, d)
    \/ AtItem(g, n, p, q, o, d)
    \/ AtType(g, n, p, q, d)
    \/ AtAction(g, n, p, q, o, d)
    \/ AtRss(g, n, p, q, o, d)
    \/ AtIndex(g, n, p, q, o)
    \/ AtShared(n, p, q)

\* Under the places that wait there are places that nothing will take: of an index "set raw" was not
\* given, of the port that "shared_action destroy" pushes again, of types that are only completed.
KeptPlaces == {Out("port"), Place(ItemData("ecpri"), "type")}
ItemLists == {"next_item", "AFTER_ITEM", "AFTER_TYPE", "AFTER_MESSAGE", "ECPRI_TYPE", "ecpri_types"}
EntryLists == {"next_action", "AFTER_ACTION", "INDEX", "SHARED_ACTION_ID2PTR", "ACTION"}
RuleCommands == {"VALIDATE", "CREATE"}
RawCommands == {"SET_RAW_ENCAP", "SET_RAW_DECAP"}
MadeCommands == {"SHARED_ACTION_CREATE", "SHARED_ACTION_UPDATE"}
Heeded == RuleCommands \cup MadeCommands \cup {"SET_SAMPLE_ACTIONS"}

OverKept(n) ==
    \/ n = <<>>
    \/ n[1][1] \in ItemLists \cup EntryLists \cup {"ACTIONS", "SHARED_ACTION_DESTROY_ID", "next_sa_destroy_attr"}
KeptBelow(g, base, n, b) ==
    /\ base \in Seq(KeptPlaces)
    /\ g => \/ base = <<>>
            \/ base = <<Out("port")>> /\ b.command \in RawCommands \cup {"SHARED_ACTION_DESTROY"} /\ OverKept(n)

\* How far a line with buffer b is, told by the first word of the list at the bottom of the stack
StartNames == {"FLOW", "SET", "flow_commands", "set_commands", "next_sa_subcmd"}
PhaseOf(x, b) ==
    /\ x \in StartNames => b.command \notin Heeded /\ b.actions.set = FALSE
    /\ x = "next_vc_attr" => b.command \in RuleCommands /\ b.actions.set = FALSE
    /\ x \in ItemLists => b.command \in RuleCommands \cup RawCommands /\ b.actions.set = FALSE
    /\ x = "next_set_raw" => b.command \in RawCommands /\ b.actions.set = FALSE
    /\ x = "ACTIONS" =>
          b.command \in RuleCommands \cup RawCommands /\ b.actions.set = FALSE /\ b.pattern.ended = TRUE
    /\ x \in {"next_sa_create_attr", "SHARED_ACTION_SPEC"} => b.command \in MadeCommands /\ b.actions.set = TRUE
    /\ x \in EntryLists =>
          /\ b.command \in RawCommands \cup Heeded
          /\ b.actions.set = TRUE
          /\ b.command \in RuleCommands => b.pattern.ended = TRUE
    /\ x \in {"SET_SAMPLE_INDEX", "next_action_sample"} => b.command = "SET_SAMPLE_ACTIONS" /\ b.actions.set = TRUE

HeededNames == StartNames \cup ItemLists \cup EntryLists
               \cup {"next_vc_attr", "next_set_raw", "ACTIONS", "next_sa_create_attr", "SHARED_ACTION_SPEC",
                     "SET_SAMPLE_INDEX", "next_action_sample"}

Complete(b) ==
    /\ b.command \in RuleCommands => b.pattern.ended = TRUE /\ b.actions.ended = TRUE
    /\ b.command \in MadeCommands => b.actions.ended = TRUE
    /\ b.command = "SET_SAMPLE_ACTIONS" => b.actions.n > 0

Phased(n, word, b) ==
    IF n = <<>> THEN word = <<"END_SET">> \/ Complete(b)
    ELSE /\ PhaseOf(n[1][1], b)
         /\ n[1][1] \notin HeededNames => b.command \notin Heeded

\* The data of the last entry of a buffer
DataOf(b) == IF b.last[1] = "ITEM" THEN ItemData(b.last[2])
             ELSE IF b.last[1] = "ACTION" THEN ActionData(b.last[2]) ELSE Nothing

Slashes == {<<"ITEM", "/">>, <<"ACTION", "/">>}
Balanced(n, args, b) == Len(n) = 1 /\ Len(args) <= IF b.command \in RawCommands THEN 1 ELSE 0

CtxFields == {"next", "args", "curr", "object", "objmask", "count"}
OutFields == {"command", "pattern", "actions", "last", "ids"}
Whole(c, b) ==
    /\ DOMAIN c = CtxFields /\ DOMAIN b = OutFields /\ DOMAIN b.actions = {"set", "n", "ended"}
    /\ b.actions.n \in Nat

WellStored(st) == \A s \in st : s.place.of = s.object /\ s.place.field \in Meant(s)

\* What every word and value keeps
Reading(g, c, b, q) ==
    /\ \E base, p : /\ c.args = base \o p
                    /\ KeptBelow(g, base, c.next, b)
                    /\ Shape(g, c.next, p, q, c.object, DataOf(b))
    /\ g => /\ Phased(c.next, c.curr, b)
            /\ c.curr \in Slashes => Balanced(c.next, c.args, b)
            /\ c.object = NULL => c.next # <<>> /\ c.next[1][1] \in {"FLOW", "SET"}

PInv ==
    /\ Whole(ctx, out)
    /\ given \in BOOLEAN
    /\ WellStored(stored)
    /\ ~given => ctx.object = NULL /\ out = NewBuffer
    /\ line = "words" => Reading(given, ctx, out, asked)
    /\ line = "ran" => given = TRUE /\ (ctx.curr = <<"END_SET">> \/ Complete(out))
    /\ line = "idle" => given = TRUE

LEMMA LastDataIs == LastData = DataOf(out)
BY DEF LastData, DataOf

\* The invariant is as strong as the properties.
LEMMA PMeans == ASSUME PInv PROVE StoredWhereMeant /\ LinesHoldTogether
<1>1. StoredWhereMeant
  BY DEF PInv, WellStored, StoredWhereMeant
<1>2. EntriesBalance
  BY DEF PInv, Reading, Slashes, Balanced, RawCommands, EntriesBalance
<1>3. ListsEnd
  <2> SUFFICES ASSUME line = "ran", ctx.curr # <<"END_SET">>
               PROVE  /\ out.command \in {"VALIDATE", "CREATE"} => out.pattern.ended /\ out.actions.ended
                      /\ out.command \in {"SHARED_ACTION_CREATE", "SHARED_ACTION_UPDATE"} => out.actions.ended
                      /\ out.command = "SET_SAMPLE_ACTIONS" => out.actions.n > 0
    BY DEF ListsEnd
  <2>1. Complete(out)
    BY DEF PInv
  <2> QED
    BY <2>1 DEF Complete, RuleCommands, MadeCommands
<1> QED
  BY <1>1, <1>2, <1>3 DEF LinesHoldTogether

LEMMA PInitially == PInit => PInv
<1> SUFFICES ASSUME PInit
             PROVE  PInv
  OBVIOUS
<1>1. Whole(ctx, out)
  BY DEF PInit, Whole, NewContext, NewBuffer, CtxFields, OutFields
<1>2. stored = {} /\ given = TRUE /\ line = "idle"
  BY DEF PInit
<1> QED
  BY <1>1, <1>2 DEF PInv, WellStored

-----------------------------------------------------------------------------
(* What the tables of tokens say. *)

LEMMA WordOne == ASSUME NEW a, NEW p PROVE Word(<<a>>, p).next = << <<a>> >> /\ Word(<<a>>, p).args = p
BY DEF Word

LEMMA WordTwo == ASSUME NEW a, NEW b, NEW p PROVE Word(<<a, b>>, p).next = << <<a>>, <<b>> >> /\ Word(<<a, b>>, p).args = p
BY DEF Word

LEMMA WordThree ==
    ASSUME NEW a, NEW b, NEW c, NEW p
    PROVE  Word(<<a, b, c>>, p).next = << <<a>>, <<b>>, <<c>> >> /\ Word(<<a, b, c>>, p).args = p
BY DEF Word

\* The words of each table, and of all
LEMMA TokenNames ==
    /\ DOMAIN CommandTokens = {"ZERO", "START_SET", "FLOW", "SHARED_ACTION", "SHARED_ACTION_CREATE", "SHARED_ACTION_UPDATE",
        "SHARED_ACTION_DESTROY", "SHARED_ACTION_QUERY", "VALIDATE", "CREATE", "DESTROY", "FLUSH", "DUMP", "QUERY",
        "LIST", "AGED", "ISOLATE"}
    /\ DOMAIN AttributeTokens = {"TUNNEL", "TUNNEL_CREATE", "TUNNEL_CREATE_TYPE", "TUNNEL_DESTROY", "TUNNEL_DESTROY_ID", "TUNNEL_LIST",
        "DESTROY_RULE", "LIST_GROUP", "GROUP", "PRIORITY", "INGRESS", "EGRESS", "TRANSFER", "TUNNEL_SET",
        "TUNNEL_MATCH", "PATTERN"}
    /\ DOMAIN EntryTokens = {"ACTIONS"}
    /\ DOMAIN SetTokens = {"SET", "SET_RAW_ENCAP", "SET_RAW_DECAP", "SET_RAW_INDEX", "SET_SAMPLE_INDEX", "SET_SAMPLE_ACTIONS"}
    /\ DOMAIN SharedTokens = {"SHARED_ACTION_DESTROY_ID", "SHARED_ACTION_CREATE_ID", "SHARED_ACTION_INGRESS", "SHARED_ACTION_EGRESS",
        "SHARED_ACTION_TRANSFER", "SHARED_ACTION_SPEC"}
    /\ DOMAIN EcpriTokens = {"ECPRI_COMMON", "ECPRI_TYPE"}
BY DEF CommandTokens, AttributeTokens, EntryTokens, SetTokens, SharedTokens, EcpriTokens

LEMMA TokensOfAll ==
    /\ \A w \in DOMAIN CommandTokens : w \in DOMAIN NamedTokens /\ NamedTokens[w] = CommandTokens[w]
    /\ \A w \in DOMAIN AttributeTokens : w \in DOMAIN NamedTokens /\ NamedTokens[w] = AttributeTokens[w]
    /\ \A w \in DOMAIN EntryTokens : w \in DOMAIN NamedTokens /\ NamedTokens[w] = EntryTokens[w]
    /\ \A w \in DOMAIN SetTokens : w \in DOMAIN NamedTokens /\ NamedTokens[w] = SetTokens[w]
    /\ \A w \in DOMAIN SharedTokens : w \in DOMAIN NamedTokens /\ NamedTokens[w] = SharedTokens[w]
    /\ \A w \in DOMAIN EcpriTokens : w \in DOMAIN NamedTokens /\ NamedTokens[w] = EcpriTokens[w]
    /\ DOMAIN NamedTokens = DOMAIN CommandTokens \cup DOMAIN AttributeTokens \cup DOMAIN EntryTokens
                             \cup DOMAIN SetTokens \cup DOMAIN SharedTokens \cup DOMAIN EcpriTokens
BY TokenNames DEF NamedTokens, Joined

LEMMA NamedTurn ==
    ASSUME NEW w \in DOMAIN NamedTokens
    PROVE  Next_(<<w>>) = NamedTokens[w].next /\ Args_(<<w>>) = NamedTokens[w].args
BY DEF Next_, Args_

\* What the words of CommandTokens push
LEMMA CommandTurns ==
    /\ Next_(<<"ZERO">>) = << <<"FLOW">> >> /\ Args_(<<"ZERO">>) = <<>>
    /\ Next_(<<"START_SET">>) = << <<"SET">> >> /\ Args_(<<"START_SET">>) = <<>>
    /\ Next_(<<"FLOW">>) = << <<"flow_commands">> >> /\ Args_(<<"FLOW">>) = <<>>
    /\ Next_(<<"SHARED_ACTION">>) = << <<"next_sa_subcmd">>, <<"PORT_ID">> >>
    /\ Args_(<<"SHARED_ACTION">>) = <<Out("port")>>
    /\ Next_(<<"SHARED_ACTION_CREATE">>) = << <<"next_sa_create_attr">> >> /\ Args_(<<"SHARED_ACTION_CREATE">>) = <<>>
    /\ Next_(<<"SHARED_ACTION_UPDATE">>) = << <<"SHARED_ACTION_SPEC">>, <<"SHARED_ACTION_ID">> >>
    /\ Args_(<<"SHARED_ACTION_UPDATE">>) = <<Out("group")>>
    /\ Next_(<<"SHARED_ACTION_DESTROY">>) = << <<"SHARED_ACTION_DESTROY_ID">> >>
    /\ Args_(<<"SHARED_ACTION_DESTROY">>) = <<Out("port")>>
    /\ Next_(<<"SHARED_ACTION_QUERY">>) = << <<"END">>, <<"SHARED_ACTION_ID">> >>
    /\ Args_(<<"SHARED_ACTION_QUERY">>) = <<Out("action_id")>>
    /\ Next_(<<"VALIDATE">>) = << <<"next_vc_attr">>, <<"PORT_ID">> >> /\ Args_(<<"VALIDATE">>) = <<Out("port")>>
    /\ Next_(<<"CREATE">>) = << <<"next_vc_attr">>, <<"PORT_ID">> >> /\ Args_(<<"CREATE">>) = <<Out("port")>>
    /\ Next_(<<"DESTROY">>) = << <<"DESTROY_RULE">>, <<"PORT_ID">> >> /\ Args_(<<"DESTROY">>) = <<Out("port")>>
    /\ Next_(<<"FLUSH">>) = << <<"PORT_ID">> >> /\ Args_(<<"FLUSH">>) = <<Out("port")>>
    /\ Next_(<<"DUMP">>) = << <<"next_dump_attr">>, <<"PORT_ID">> >> /\ Args_(<<"DUMP">>) = <<Out("file"), Out("port")>>
    /\ Next_(<<"QUERY">>) = << <<"QUERY_ACTION">>, <<"RULE_ID">>, <<"PORT_ID">> >>
    /\ Args_(<<"QUERY">>) = <<Out("action"), Out("rule"), Out("port")>>
    /\ Next_(<<"LIST">>) = << <<"next_list_attr">>, <<"PORT_ID">> >> /\ Args_(<<"LIST">>) = <<Out("port")>>
    /\ Next_(<<"AGED">>) = << <<"next_aged_attr">>, <<"PORT_ID">> >> /\ Args_(<<"AGED">>) = <<Out("port")>>
    /\ Next_(<<"ISOLATE">>) = << <<"BOOLEAN">>, <<"PORT_ID">> >> /\ Args_(<<"ISOLATE">>) = <<Out("set"), Out("port")>>
<1>1. Next_(<<"ZERO">>) = << <<"FLOW">> >> /\ Args_(<<"ZERO">>) = <<>>
  <2>1. "ZERO" \in DOMAIN CommandTokens /\ CommandTokens["ZERO"] = Word(<<"FLOW">>, <<>>)
    BY DEF CommandTokens
  <2> QED
    BY <2>1, TokensOfAll, NamedTurn, WordOne
<1>2. Next_(<<"START_SET">>) = << <<"SET">> >> /\ Args_(<<"START_SET">>) = <<>>
  <2>1. "START_SET" \in DOMAIN CommandTokens /\ CommandTokens["START_SET"] = Word(<<"SET">>, <<>>)
    BY DEF CommandTokens
  <2> QED
    BY <2>1, TokensOfAll, NamedTurn, WordOne
<1>3. Next_(<<"FLOW">>) = << <<"flow_commands">> >> /\ Args_(<<"FLOW">>) = <<>>
  <2>1. "FLOW" \in DOMAIN CommandTokens /\ CommandTokens["FLOW"] = Word(<<"flow_commands">>, <<>>)
    BY DEF CommandTokens
  <2> QED
    BY <2>1, TokensOfAll, NamedTurn, WordOne
<1>4. /\ Next_(<<"SHARED_ACTION">>) = << <<"next_sa_subcmd">>, <<"PORT_ID">> >>
      /\ Args_(<<"SHARED_ACTION">>) = <<Out("port")>>
  <2>1. /\ "SHARED_ACTION" \in DOMAIN CommandTokens
        /\ CommandTokens["SHARED_ACTION"] = Word(<<"next_sa_subcmd", "PORT_ID">>, <<Out("port")>>)
    BY DEF CommandTokens
  <2> QED
    BY <2>1, TokensOfAll, NamedTurn, WordTwo
<1>5. Next_(<<"SHARED_ACTION_CREATE">>) = << <<"next_sa_create_attr">> >> /\ Args_(<<"SHARED_ACTION_CREATE">>) = <<>>
  <2>1. /\ "SHARED_ACTION_CREATE" \in DOMAIN CommandTokens
        /\ CommandTokens["SHARED_ACTION_CREATE"] = Word(<<"next_sa_create_attr">>, <<>>)
    BY DEF CommandTokens
  <2> QED
    BY <2>1, TokensOfAll, NamedTurn, WordOne
<1>6. /\ Next_(<<"SHARED_ACTION_UPDATE">>) = << <<"SHARED_ACTION_SPEC">>, <<"SHARED_ACTION_ID">> >>
      /\ Args_(<<"SHARED_ACTION_UPDATE">>) = <<Out("group")>>
  <2>1. /\ "SHARED_ACTION_UPDATE" \in DOMAIN CommandTokens
        /\ CommandTokens["SHARED_ACTION_UPDATE"] = Word(<<"SHARED_ACTION_SPEC", "SHARED_ACTION_ID">>, <<Out("group")>>)
    BY DEF CommandTokens
  <2> QED
    BY <2>1, TokensOfAll, NamedTurn, WordTwo
<1>7. /\ Next_(<<"SHARED_ACTION_DESTROY">>) = << <<"SHARED_ACTION_DESTROY_ID">> >>
      /\ Args_(<<"SHARED_ACTION_DESTROY">>) = <<Out("port")>>
  <2>1. /\ "SHARED_ACTION_DESTROY" \in DOMAIN CommandTokens
        /\ CommandTokens["SHARED_ACTION_DESTROY"] = Word(<<"SHARED_ACTION_DESTROY_ID">>, <<Out("port")>>)
    BY DEF CommandTokens
  <2> QED
    BY <2>1, TokensOfAll, NamedTurn, WordOne
<1>8. /\ Next_(<<"SHARED_ACTION_QUERY">>) = << <<"END">>, <<"SHARED_ACTION_ID">> >>
      /\ Args_(<<"SHARED_ACTION_QUERY">>) = <<Out("action_id")>>
  <2>1. /\ "SHARED_ACTION_QUERY" \in DOMAIN CommandTokens
        /\ CommandTokens["SHARED_ACTION_QUERY"] = Word(<<"END", "SHARED_ACTION_ID">>, <<Out("action_id")>>)
    BY DEF CommandTokens
  <2> QED
    BY <2>1, TokensOfAll, NamedTurn, WordTwo
<1>9. Next_(<<"VALIDATE">>) = << <<"next_vc_attr">>, <<"PORT_ID">> >> /\ Args_(<<"VALIDATE">>) = <<Out("port")>>
  <2>1. /\ "VALIDATE" \in DOMAIN CommandTokens
        /\ CommandTokens["VALIDATE"] = Word(<<"next_vc_attr", "PORT_ID">>, <<Out("port")>>)
    BY DEF CommandTokens
  <2> QED
    BY <2>1, TokensOfAll, NamedTurn, WordTwo
<1>10. Next_(<<"CREATE">>) = << <<"next_vc_attr">>, <<"PORT_ID">> >> /\ Args_(<<"CREATE">>) = <<Out("port")>>
  <2>1. /\ "CREATE" \in DOMAIN CommandTokens
        /\ CommandTokens["CREATE"] = Word(<<"next_vc_attr", "PORT_ID">>, <<Out("port")>>)
    BY DEF CommandTokens
  <2> QED
    BY <2>1, TokensOfAll, NamedTurn, WordTwo
<1>11. Next_(<<"DESTROY">>) = << <<"DESTROY_RULE">>, <<"PORT_ID">> >> /\ Args_(<<"DESTROY">>) = <<Out("port")>>
  <2>1. /\ "DESTROY" \in DOMAIN CommandTokens
        /\ CommandTokens["DESTROY"] = Word(<<"DESTROY_RULE", "PORT_ID">>, <<Out("port")>>)
    BY DEF CommandTokens
  <2> QED
    BY <2>1, TokensOfAll, NamedTurn, WordTwo
<1>12. Next_(<<"FLUSH">>) = << <<"PORT_ID">> >> /\ Args_(<<"FLUSH">>) = <<Out("port")>>
  <2>1. "FLUSH" \in DOMAIN CommandTokens /\ CommandTokens["FLUSH"] = Word(<<"PORT_ID">>, <<Out("port")>>)
    BY DEF CommandTokens
  <2> QED
    BY <2>1, TokensOfAll, NamedTurn, WordOne
<1>13. Next_(<<"DUMP">>) = << <<"next_dump_attr">>, <<"PORT_ID">> >> /\ Args_(<<"DUMP">>) = <<Out("file"), Out("port")>>
  <2>1. /\ "DUMP" \in DOMAIN CommandTokens
        /\ CommandTokens["DUMP"] = Word(<<"next_dump_attr", "PORT_ID">>, <<Out("file"), Out("port")>>)
    BY DEF CommandTokens
  <2> QED
    BY <2>1, TokensOfAll, NamedTurn, WordTwo
<1>14. /\ Next_(<<"QUERY">>) = << <<"QUERY_ACTION">>, <<"RULE_ID">>, <<"PORT_ID">> >>
       /\ Args_(<<"QUERY">>) = <<Out("action"), Out("rule"), Out("port")>>
  <2>1. /\ "QUERY" \in DOMAIN CommandTokens
        /\ CommandTokens["QUERY"] = Word(<<"QUERY_ACTION", "RULE_ID", "PORT_ID">>, <<Out("action"), Out("rule"), Out("port")>>)
    BY DEF CommandTokens
  <2> QED
    BY <2>1, TokensOfAll, NamedTurn, WordThree
<1>15. Next_(<<"LIST">>) = << <<"next_list_attr">>, <<"PORT_ID">> >> /\ Args_(<<"LIST">>) = <<Out("port")>>
  <2>1. "LIST" \in DOMAIN CommandTokens /\ CommandTokens["LIST"] = Word(<<"next_list_attr", "PORT_ID">>, <<Out("port")>>)
    BY DEF CommandTokens
  <2> QED
    BY <2>1, TokensOfAll, NamedTurn, WordTwo
<1>16. Next_(<<"AGED">>) = << <<"next_aged_attr">>, <<"PORT_ID">> >> /\ Args_(<<"AGED">>) = <<Out("port")>>
  <2>1. "AGED" \in DOMAIN CommandTokens /\ CommandTokens["AGED"] = Word(<<"next_aged_attr", "PORT_ID">>, <<Out("port")>>)
    BY DEF CommandTokens
  <2> QED
    BY <2>1, TokensOfAll, NamedTurn, WordTwo
<1>17. Next_(<<"ISOLATE">>) = << <<"BOOLEAN">>, <<"PORT_ID">> >> /\ Args_(<<"ISOLATE">>) = <<Out("set"), Out("port")>>
  <2>1. /\ "ISOLATE" \in DOMAIN CommandTokens
        /\ CommandTokens["ISOLATE"] = Word(<<"BOOLEAN", "PORT_ID">>, <<Out("set"), Out("port")>>)
    BY DEF CommandTokens
  <2> QED
    BY <2>1, TokensOfAll, NamedTurn, WordTwo
<1> QED
  BY <1>1, <1>2, <1>3, <1>4, <1>5, <1>6, <1>7, <1>8, <1>9, <1>10, <1>11, <1>12, <1>13, <1>14, <1>15, <1>16, <1>17

\* What the words of AttributeTokens push
LEMMA AttributeTurns ==
    /\ Next_(<<"TUNNEL">>) = << <<"tunnel_commands">> >> /\ Args_(<<"TUNNEL">>) = <<>>
    /\ Next_(<<"TUNNEL_CREATE">>) = << <<"TUNNEL_CREATE_TYPE">>, <<"PORT_ID">> >>
    /\ Args_(<<"TUNNEL_CREATE">>) = <<Out("port")>>
    /\ Next_(<<"TUNNEL_CREATE_TYPE">>) = << <<"FILE_PATH">> >>
    /\ Args_(<<"TUNNEL_CREATE_TYPE">>) = <<Place(<<"tunnel_ops">>, "type")>>
    /\ Next_(<<"TUNNEL_DESTROY">>) = << <<"TUNNEL_DESTROY_ID">>, <<"PORT_ID">> >>
    /\ Args_(<<"TUNNEL_DESTROY">>) = <<Out("port")>>
    /\ Next_(<<"TUNNEL_DESTROY_ID">>) = << <<"UNSIGNED">> >>
    /\ Args_(<<"TUNNEL_DESTROY_ID">>) = <<Place(<<"tunnel_ops">>, "id")>>
    /\ Next_(<<"TUNNEL_LIST">>) = << <<"PORT_ID">> >> /\ Args_(<<"TUNNEL_LIST">>) = <<Out("port")>>
    /\ Next_(<<"DESTROY_RULE">>) = << <<"next_destroy_attr">>, <<"RULE_ID">> >>
    /\ Args_(<<"DESTROY_RULE">>) = <<Place(<<"id">>, "rule")>>
    /\ Next_(<<"LIST_GROUP">>) = << <<"next_list_attr">>, <<"GROUP_ID">> >>
    /\ Args_(<<"LIST_GROUP">>) = <<Place(<<"id">>, "group")>>
    /\ Next_(<<"GROUP">>) = << <<"next_vc_attr">>, <<"GROUP_ID">> >>
    /\ Args_(<<"GROUP">>) = <<Place(<<"attr">>, "group")>>
    /\ Next_(<<"PRIORITY">>) = << <<"next_vc_attr">>, <<"PRIORITY_LEVEL">> >>
    /\ Args_(<<"PRIORITY">>) = <<Place(<<"attr">>, "priority")>>
    /\ Next_(<<"INGRESS">>) = << <<"next_vc_attr">> >> /\ Args_(<<"INGRESS">>) = <<>>
    /\ Next_(<<"EGRESS">>) = << <<"next_vc_attr">> >> /\ Args_(<<"EGRESS">>) = <<>>
    /\ Next_(<<"TRANSFER">>) = << <<"next_vc_attr">> >> /\ Args_(<<"TRANSFER">>) = <<>>
    /\ Next_(<<"TUNNEL_SET">>) = << <<"next_vc_attr">>, <<"UNSIGNED">> >>
    /\ Args_(<<"TUNNEL_SET">>) = <<Place(<<"tunnel_ops">>, "id")>>
    /\ Next_(<<"TUNNEL_MATCH">>) = << <<"next_vc_attr">>, <<"UNSIGNED">> >>
    /\ Args_(<<"TUNNEL_MATCH">>) = <<Place(<<"tunnel_ops">>, "id")>>
    /\ Next_(<<"PATTERN">>) = << <<"next_item">> >> /\ Args_(<<"PATTERN">>) = <<>>
<1>1. Next_(<<"TUNNEL">>) = << <<"tunnel_commands">> >> /\ Args_(<<"TUNNEL">>) = <<>>
  <2>1. "TUNNEL" \in DOMAIN AttributeTokens /\ AttributeTokens["TUNNEL"] = Word(<<"tunnel_commands">>, <<>>)
    BY DEF AttributeTokens
  <2> QED
    BY <2>1, TokensOfAll, NamedTurn, WordOne
<1>2. /\ Next_(<<"TUNNEL_CREATE">>) = << <<"TUNNEL_CREATE_TYPE">>, <<"PORT_ID">> >>
      /\ Args_(<<"TUNNEL_CREATE">>) = <<Out("port")>>
  <2>1. /\ "TUNNEL_CREATE" \in DOMAIN AttributeTokens
        /\ AttributeTokens["TUNNEL_CREATE"] = Word(<<"TUNNEL_CREATE_TYPE", "PORT_ID">>, <<Out("port")>>)
    BY DEF AttributeTokens
  <2> QED
    BY <2>1, TokensOfAll, NamedTurn, WordTwo
<1>3. /\ Next_(<<"TUNNEL_CREATE_TYPE">>) = << <<"FILE_PATH">> >>
      /\ Args_(<<"TUNNEL_CREATE_TYPE">>) = <<Place(<<"tunnel_ops">>, "type")>>
  <2>1. /\ "TUNNEL_CREATE_TYPE" \in DOMAIN AttributeTokens
        /\ AttributeTokens["TUNNEL_CREATE_TYPE"] = Word(<<"FILE_PATH">>, <<Place(<<"tunnel_ops">>, "type")>>)
    BY DEF AttributeTokens
  <2> QED
    BY <2>1, TokensOfAll, NamedTurn, WordOne
<1>4. /\ Next_(<<"TUNNEL_DESTROY">>) = << <<"TUNNEL_DESTROY_ID">>, <<"PORT_ID">> >>
      /\ Args_(<<"TUNNEL_DESTROY">>) = <<Out("port")>>
  <2>1. /\ "TUNNEL_DESTROY" \in DOMAIN AttributeTokens
        /\ AttributeTokens["TUNNEL_DESTROY"] = Word(<<"TUNNEL_DESTROY_ID", "PORT_ID">>, <<Out("port")>>)
    BY DEF AttributeTokens
  <2> QED
    BY <2>1, TokensOfAll, NamedTurn, WordTwo
<1>5. /\ Next_(<<"TUNNEL_DESTROY_ID">>) = << <<"UNSIGNED">> >>
      /\ Args_(<<"TUNNEL_DESTROY_ID">>) = <<Place(<<"tunnel_ops">>, "id")>>
  <2>1. /\ "TUNNEL_DESTROY_ID" \in DOMAIN AttributeTokens
        /\ AttributeTokens["TUNNEL_DESTROY_ID"] = Word(<<"UNSIGNED">>, <<Place(<<"tunnel_ops">>, "id")>>)
    BY DEF AttributeTokens
  <2> QED
    BY <2>1, TokensOfAll, NamedTurn, WordOne
<1>6. Next_(<<"TUNNEL_LIST">>) = << <<"PORT_ID">> >> /\ Args_(<<"TUNNEL_LIST">>) = <<Out("port")>>
  <2>1. "TUNNEL_LIST" \in DOMAIN AttributeTokens /\ AttributeTokens["TUNNEL_LIST"] = Word(<<"PORT_ID">>, <<Out("port")>>)
    BY DEF AttributeTokens
  <2> QED
    BY <2>1, TokensOfAll, NamedTurn, WordOne
<1>7. /\ Next_(<<"DESTROY_RULE">>) = << <<"next_destroy_attr">>, <<"RULE_ID">> >>
      /\ Args_(<<"DESTROY_RULE">>) = <<Place(<<"id">>, "rule")>>
  <2>1. /\ "DESTROY_RULE" \in DOMAIN AttributeTokens
        /\ AttributeTokens["DESTROY_RULE"] = Word(<<"next_destroy_attr", "RULE_ID">>, <<Place(<<"id">>, "rule")>>)
    BY DEF AttributeTokens
  <2> QED
    BY <2>1, TokensOfAll, NamedTurn, WordTwo
<1>8. /\ Next_(<<"LIST_GROUP">>) = << <<"next_list_attr">>, <<"GROUP_ID">> >>
      /\ Args_(<<"LIST_GROUP">>) = <<Place(<<"id">>, "group")>>
  <2>1. /\ "LIST_GROUP" \in DOMAIN AttributeTokens
        /\ AttributeTokens["LIST_GROUP"] = Word(<<"next_list_attr", "GROUP_ID">>, <<Place(<<"id">>, "group")>>)
    BY DEF AttributeTokens
  <2> QED
    BY <2>1, TokensOfAll, NamedTurn, WordTwo
<1>9. Next_(<<"GROUP">>) = << <<"next_vc_attr">>, <<"GROUP_ID">> >> /\ Args_(<<"GROUP">>) = <<Place(<<"attr">>, "group")>>
  <2>1. /\ "GROUP" \in DOMAIN AttributeTokens
        /\ AttributeTokens["GROUP"] = Word(<<"next_vc_attr", "GROUP_ID">>, <<Place(<<"attr">>, "group")>>)
    BY DEF AttributeTokens
  <2> QED
    BY <2>1, TokensOfAll, NamedTurn, WordTwo
<1>10. /\ Next_(<<"PRIORITY">>) = << <<"next_vc_attr">>, <<"PRIORITY_LEVEL">> >>
       /\ Args_(<<"PRIORITY">>) = <<Place(<<"attr">>, "priority")>>
  <2>1. /\ "PRIORITY" \in DOMAIN AttributeTokens
        /\ AttributeTokens["PRIORITY"] = Word(<<"next_vc_attr", "PRIORITY_LEVEL">>, <<Place(<<"attr">>, "priority")>>)
    BY DEF AttributeTokens
  <2> QED
    BY <2>1, TokensOfAll, NamedTurn, WordTwo
<1>11. Next_(<<"INGRESS">>) = << <<"next_vc_attr">> >> /\ Args_(<<"INGRESS">>) = <<>>
  <2>1. "INGRESS" \in DOMAIN AttributeTokens /\ AttributeTokens["INGRESS"] = Word(<<"next_vc_attr">>, <<>>)
    BY DEF AttributeTokens
  <2> QED
    BY <2>1, TokensOfAll, NamedTurn, WordOne
<1>12. Next_(<<"EGRESS">>) = << <<"next_vc_attr">> >> /\ Args_(<<"EGRESS">>) = <<>>
  <2>1. "EGRESS" \in DOMAIN AttributeTokens /\ AttributeTokens["EGRESS"] = Word(<<"next_vc_attr">>, <<>>)
    BY DEF AttributeTokens
  <2> QED
    BY <2>1, TokensOfAll, NamedTurn, WordOne
<1>13. Next_(<<"TRANSFER">>) = << <<"next_vc_attr">> >> /\ Args_(<<"TRANSFER">>) = <<>>
  <2>1. "TRANSFER" \in DOMAIN AttributeTokens /\ AttributeTokens["TRANSFER"] = Word(<<"next_vc_attr">>, <<>>)
    BY DEF AttributeTokens
  <2> QED
    BY <2>1, TokensOfAll, NamedTurn, WordOne
<1>14. /\ Next_(<<"TUNNEL_SET">>) = << <<"next_vc_attr">>, <<"UNSIGNED">> >>
       /\ Args_(<<"TUNNEL_SET">>) = <<Place(<<"tunnel_ops">>, "id")>>
  <2>1. /\ "TUNNEL_SET" \in DOMAIN AttributeTokens
        /\ AttributeTokens["TUNNEL_SET"] = Word(<<"next_vc_attr", "UNSIGNED">>, <<Place(<<"tunnel_ops">>, "id")>>)
    BY DEF AttributeTokens
  <2> QED
    BY <2>1, TokensOfAll, NamedTurn, WordTwo
<1>15. /\ Next_(<<"TUNNEL_MATCH">>) = << <<"next_vc_attr">>, <<"UNSIGNED">> >>
       /\ Args_(<<"TUNNEL_MATCH">>) = <<Place(<<"tunnel_ops">>, "id")>>
  <2>1. /\ "TUNNEL_MATCH" \in DOMAIN AttributeTokens
        /\ AttributeTokens["TUNNEL_MATCH"] = Word(<<"next_vc_attr", "UNSIGNED">>, <<Place(<<"tunnel_ops">>, "id")>>)
    BY DEF AttributeTokens
  <2> QED
    BY <2>1, TokensOfAll, NamedTurn, WordTwo
<1>16. Next_(<<"PATTERN">>) = << <<"next_item">> >> /\ Args_(<<"PATTERN">>) = <<>>
  <2>1. "PATTERN" \in DOMAIN AttributeTokens /\ AttributeTokens["PATTERN"] = Word(<<"next_item">>, <<>>)
    BY DEF AttributeTokens
  <2> QED
    BY <2>1, TokensOfAll, NamedTurn, WordOne
<1> QED
  BY <1>1, <1>2, <1>3, <1>4, <1>5, <1>6, <1>7, <1>8, <1>9, <1>10, <1>11, <1>12, <1>13, <1>14, <1>15, <1>16

\* What the words of EntryTokens push
LEMMA EntryTurns ==
    /\ Next_(<<"ACTIONS">>) = << <<"next_action">> >> /\ Args_(<<"ACTIONS">>) = <<>>
<1>1. Next_(<<"ACTIONS">>) = << <<"next_action">> >> /\ Args_(<<"ACTIONS">>) = <<>>
  <2>1. "ACTIONS" \in DOMAIN EntryTokens /\ EntryTokens["ACTIONS"] = Word(<<"next_action">>, <<>>)
    BY DEF EntryTokens
  <2> QED
    BY <2>1, TokensOfAll, NamedTurn, WordOne
<1> QED
  BY <1>1

\* What the words of SetTokens push
LEMMA SetTurns ==
    /\ Next_(<<"SET">>) = << <<"set_commands">> >> /\ Args_(<<"SET">>) = <<>>
    /\ Next_(<<"SET_RAW_ENCAP">>) = << <<"next_set_raw">> >> /\ Args_(<<"SET_RAW_ENCAP">>) = <<Out("port")>>
    /\ Next_(<<"SET_RAW_DECAP">>) = << <<"next_set_raw">> >> /\ Args_(<<"SET_RAW_DECAP">>) = <<Out("port")>>
    /\ Next_(<<"SET_RAW_INDEX">>) = << <<"next_item">> >> /\ Args_(<<"SET_RAW_INDEX">>) = <<>>
    /\ Next_(<<"SET_SAMPLE_INDEX">>) = << <<"next_action_sample">> >> /\ Args_(<<"SET_SAMPLE_INDEX">>) = <<>>
    /\ Next_(<<"SET_SAMPLE_ACTIONS">>) = << <<"SET_SAMPLE_INDEX">> >> /\ Args_(<<"SET_SAMPLE_ACTIONS">>) = <<Out("port")>>
<1>1. Next_(<<"SET">>) = << <<"set_commands">> >> /\ Args_(<<"SET">>) = <<>>
  <2>1. "SET" \in DOMAIN SetTokens /\ SetTokens["SET"] = Word(<<"set_commands">>, <<>>)
    BY DEF SetTokens
  <2> QED
    BY <2>1, TokensOfAll, NamedTurn, WordOne
<1>2. Next_(<<"SET_RAW_ENCAP">>) = << <<"next_set_raw">> >> /\ Args_(<<"SET_RAW_ENCAP">>) = <<Out("port")>>
  <2>1. "SET_RAW_ENCAP" \in DOMAIN SetTokens /\ SetTokens["SET_RAW_ENCAP"] = Word(<<"next_set_raw">>, <<Out("port")>>)
    BY DEF SetTokens
  <2> QED
    BY <2>1, TokensOfAll, NamedTurn, WordOne
<1>3. Next_(<<"SET_RAW_DECAP">>) = << <<"next_set_raw">> >> /\ Args_(<<"SET_RAW_DECAP">>) = <<Out("port")>>
  <2>1. "SET_RAW_DECAP" \in DOMAIN SetTokens /\ SetTokens["SET_RAW_DECAP"] = Word(<<"next_set_raw">>, <<Out("port")>>)
    BY DEF SetTokens
  <2> QED
    BY <2>1, TokensOfAll, NamedTurn, WordOne
<1>4. Next_(<<"SET_RAW_INDEX">>) = << <<"next_item">> >> /\ Args_(<<"SET_RAW_INDEX">>) = <<>>
  <2>1. "SET_RAW_INDEX" \in DOMAIN SetTokens /\ SetTokens["SET_RAW_INDEX"] = Word(<<"next_item">>, <<>>)
    BY DEF SetTokens
  <2> QED
    BY <2>1, TokensOfAll, NamedTurn, WordOne
<1>5. Next_(<<"SET_SAMPLE_INDEX">>) = << <<"next_action_sample">> >> /\ Args_(<<"SET_SAMPLE_INDEX">>) = <<>>
  <2>1. "SET_SAMPLE_INDEX" \in DOMAIN SetTokens /\ SetTokens["SET_SAMPLE_INDEX"] = Word(<<"next_action_sample">>, <<>>)
    BY DEF SetTokens
  <2> QED
    BY <2>1, TokensOfAll, NamedTurn, WordOne
<1>6. Next_(<<"SET_SAMPLE_ACTIONS">>) = << <<"SET_SAMPLE_INDEX">> >> /\ Args_(<<"SET_SAMPLE_ACTIONS">>) = <<Out("port")>>
  <2>1. /\ "SET_SAMPLE_ACTIONS" \in DOMAIN SetTokens
        /\ SetTokens["SET_SAMPLE_ACTIONS"] = Word(<<"SET_SAMPLE_INDEX">>, <<Out("port")>>)
    BY DEF SetTokens
  <2> QED
    BY <2>1, TokensOfAll, NamedTurn, WordOne
<1> QED
  BY <1>1, <1>2, <1>3, <1>4, <1>5, <1>6

\* What the words of SharedTokens push
LEMMA SharedTurns ==
    /\ Next_(<<"SHARED_ACTION_DESTROY_ID">>) = << <<"next_sa_destroy_attr">>, <<"SHARED_ACTION_ID">> >>
    /\ Args_(<<"SHARED_ACTION_DESTROY_ID">>) = <<Place(<<"id">>, "action_id")>>
    /\ Next_(<<"SHARED_ACTION_CREATE_ID">>) = << <<"next_sa_create_attr">>, <<"SHARED_ACTION_ID">> >>
    /\ Args_(<<"SHARED_ACTION_CREATE_ID">>) = <<Out("group")>>
    /\ Next_(<<"SHARED_ACTION_INGRESS">>) = << <<"next_sa_create_attr">> >> /\ Args_(<<"SHARED_ACTION_INGRESS">>) = <<>>
    /\ Next_(<<"SHARED_ACTION_EGRESS">>) = << <<"next_sa_create_attr">> >> /\ Args_(<<"SHARED_ACTION_EGRESS">>) = <<>>
    /\ Next_(<<"SHARED_ACTION_TRANSFER">>) = << <<"next_sa_create_attr">> >> /\ Args_(<<"SHARED_ACTION_TRANSFER">>) = <<>>
    /\ Next_(<<"SHARED_ACTION_SPEC">>) = << <<"next_action">> >> /\ Args_(<<"SHARED_ACTION_SPEC">>) = <<>>
<1>1. /\ Next_(<<"SHARED_ACTION_DESTROY_ID">>) = << <<"next_sa_destroy_attr">>, <<"SHARED_ACTION_ID">> >>
      /\ Args_(<<"SHARED_ACTION_DESTROY_ID">>) = <<Place(<<"id">>, "action_id")>>
  <2>1. /\ "SHARED_ACTION_DESTROY_ID" \in DOMAIN SharedTokens
        /\ SharedTokens["SHARED_ACTION_DESTROY_ID"] = Word(<<"next_sa_destroy_attr", "SHARED_ACTION_ID">>, <<Place(<<"id">>, "action_id")>>)
    BY DEF SharedTokens
  <2> QED
    BY <2>1, TokensOfAll, NamedTurn, WordTwo
<1>2. /\ Next_(<<"SHARED_ACTION_CREATE_ID">>) = << <<"next_sa_create_attr">>, <<"SHARED_ACTION_ID">> >>
      /\ Args_(<<"SHARED_ACTION_CREATE_ID">>) = <<Out("group")>>
  <2>1. /\ "SHARED_ACTION_CREATE_ID" \in DOMAIN SharedTokens
        /\ SharedTokens["SHARED_ACTION_CREATE_ID"] = Word(<<"next_sa_create_attr", "SHARED_ACTION_ID">>, <<Out("group")>>)
    BY DEF SharedTokens
  <2> QED
    BY <2>1, TokensOfAll, NamedTurn, WordTwo
<1>3. Next_(<<"SHARED_ACTION_INGRESS">>) = << <<"next_sa_create_attr">> >> /\ Args_(<<"SHARED_ACTION_INGRESS">>) = <<>>
  <2>1. /\ "SHARED_ACTION_INGRESS" \in DOMAIN SharedTokens
        /\ SharedTokens["SHARED_ACTION_INGRESS"] = Word(<<"next_sa_create_attr">>, <<>>)
    BY DEF SharedTokens
  <2> QED
    BY <2>1, TokensOfAll, NamedTurn, WordOne
<1>4. Next_(<<"SHARED_ACTION_EGRESS">>) = << <<"next_sa_create_attr">> >> /\ Args_(<<"SHARED_ACTION_EGRESS">>) = <<>>
  <2>1. /\ "SHARED_ACTION_EGRESS" \in DOMAIN SharedTokens
        /\ SharedTokens["SHARED_ACTION_EGRESS"] = Word(<<"next_sa_create_attr">>, <<>>)
    BY DEF SharedTokens
  <2> QED
    BY <2>1, TokensOfAll, NamedTurn, WordOne
<1>5. Next_(<<"SHARED_ACTION_TRANSFER">>) = << <<"next_sa_create_attr">> >> /\ Args_(<<"SHARED_ACTION_TRANSFER">>) = <<>>
  <2>1. /\ "SHARED_ACTION_TRANSFER" \in DOMAIN SharedTokens
        /\ SharedTokens["SHARED_ACTION_TRANSFER"] = Word(<<"next_sa_create_attr">>, <<>>)
    BY DEF SharedTokens
  <2> QED
    BY <2>1, TokensOfAll, NamedTurn, WordOne
<1>6. Next_(<<"SHARED_ACTION_SPEC">>) = << <<"next_action">> >> /\ Args_(<<"SHARED_ACTION_SPEC">>) = <<>>
  <2>1. "SHARED_ACTION_SPEC" \in DOMAIN SharedTokens /\ SharedTokens["SHARED_ACTION_SPEC"] = Word(<<"next_action">>, <<>>)
    BY DEF SharedTokens
  <2> QED
    BY <2>1, TokensOfAll, NamedTurn, WordOne
<1> QED
  BY <1>1, <1>2, <1>3, <1>4, <1>5, <1>6

\* What the words of EcpriTokens push
LEMMA EcpriTurns ==
    /\ Next_(<<"ECPRI_COMMON">>) = << <<"ECPRI_TYPE">> >> /\ Args_(<<"ECPRI_COMMON">>) = <<>>
    /\ Next_(<<"ECPRI_TYPE">>) = << <<"ecpri_types">> >>
    /\ Args_(<<"ECPRI_TYPE">>) = <<Place(<<"data", "ITEM", "ecpri">>, "type")>>
<1>1. Next_(<<"ECPRI_COMMON">>) = << <<"ECPRI_TYPE">> >> /\ Args_(<<"ECPRI_COMMON">>) = <<>>
  <2>1. "ECPRI_COMMON" \in DOMAIN EcpriTokens /\ EcpriTokens["ECPRI_COMMON"] = Word(<<"ECPRI_TYPE">>, <<>>)
    BY DEF EcpriTokens
  <2> QED
    BY <2>1, TokensOfAll, NamedTurn, WordOne
<1>2. /\ Next_(<<"ECPRI_TYPE">>) = << <<"ecpri_types">> >>
      /\ Args_(<<"ECPRI_TYPE">>) = <<Place(<<"data", "ITEM", "ecpri">>, "type")>>
  <2>1. /\ "ECPRI_TYPE" \in DOMAIN EcpriTokens
        /\ EcpriTokens["ECPRI_TYPE"] = Word(<<"ecpri_types">>, <<Place(<<"data", "ITEM", "ecpri">>, "type")>>)
    BY DEF EcpriTokens
  <2> QED
    BY <2>1, TokensOfAll, NamedTurn, WordOne
<1> QED
  BY <1>1, <1>2

-----------------------------------------------------------------------------
(* Short stacks. *)

LEMMA TopOfOne == ASSUME NEW a PROVE Last(<<a>>) = a /\ Front(<<a>>) = <<>> /\ Len(<<a>>) = 1 /\ <<a>> # <<>>
BY DEF Last, Front

\* Places on top of others
LEMMA OnTopOne ==
    ASSUME NEW S, NEW s \in Seq(S), NEW x
    PROVE  LET a == s \o <<x>>
           IN  a # <<>> /\ Last(a) = x /\ SubSeq(a, 1, Len(a) - 1) = s /\ Len(a) = Len(s) + 1
BY DEF Last

\* A short sequence is the tuple of what it holds.
LEMMA AsOne == ASSUME NEW S, NEW s \in Seq(S), Len(s) = 1 PROVE s = <<s[1]>>
OBVIOUS

LEMMA AsTwo == ASSUME NEW S, NEW s \in Seq(S), Len(s) = 2 PROVE s = <<s[1], s[2]>>
OBVIOUS

LEMMA TopOfTwo ==
    ASSUME NEW a, NEW b
    PROVE  Last(<<a, b>>) = b /\ Front(<<a, b>>) = <<a>> /\ Len(<<a, b>>) = 2 /\ <<a, b>> # <<>>
<1>1. <<a, b>> \in Seq({a, b})
  OBVIOUS
<1> DEFINE u == SubSeq(<<a, b>>, 1, 1)
<1>2. u \in Seq({a, b}) /\ Len(u) = 1 /\ u[1] = a
  BY <1>1
<1>3. u = <<a>>
  <2> HIDE DEF u
  <2> QED
    BY <1>2, AsOne
<1>4. Front(<<a, b>>) = u
  BY DEF Front
<1> QED
  BY <1>3, <1>4 DEF Last

LEMMA TopOfThree ==
    ASSUME NEW a, NEW b, NEW c
    PROVE  Last(<<a, b, c>>) = c /\ Front(<<a, b, c>>) = <<a, b>> /\ Len(<<a, b, c>>) = 3 /\ <<a, b, c>> # <<>>
<1>1. <<a, b, c>> \in Seq({a, b, c})
  OBVIOUS
<1> DEFINE u == SubSeq(<<a, b, c>>, 1, 2)
<1>2. u \in Seq({a, b, c}) /\ Len(u) = 2 /\ u[1] = a /\ u[2] = b
  BY <1>1
<1>3. u = <<a, b>>
  <2> HIDE DEF u
  <2> QED
    BY <1>2, AsTwo
<1>4. Front(<<a, b, c>>) = u
  BY DEF Front
<1> QED
  BY <1>3, <1>4 DEF Last

LEMMA OnTopTwo ==
    ASSUME NEW S, NEW s \in Seq(S), NEW x, NEW y
    PROVE  LET a == s \o <<x, y>>
           IN  a # <<>> /\ Last(a) = y /\ SubSeq(a, 1, Len(a) - 1) = s \o <<x>>
BY DEF Last

LEMMA OnTopThree ==
    ASSUME NEW S, NEW s \in Seq(S), NEW x, NEW y, NEW z
    PROVE  LET a == s \o <<x, y, z>>
           IN  /\ a # <<>> /\ Last(a) = z /\ SubSeq(a, 1, Len(a) - 1) = s \o <<x, y>>
               /\ a[Len(a) - 2] = x /\ SubSeq(a, 1, Len(a) - 3) = s
BY DEF Last

LEMMA NoneOnTop == ASSUME NEW S, NEW s \in Seq(S) PROVE s \o <<>> = s /\ Len(s) \in Nat
OBVIOUS

-----------------------------------------------------------------------------
(* The fields of items and actions. *)

\* What the tables say of a field and the value it expects
ItemFits(i, f, v) == (i = "raw" /\ f = "pattern") \/ v \in Kinds
ActionFits(a, f, v) ==
    /\ v \in Kinds \cup {"HEX"}
    /\ f = "key" <=> v = "HEX"
    /\ f \notin {"func", "types", "queues"}
    /\ a \in IndexedActions => f # "index"
ItemsFit(table) == \A i \in DOMAIN table : \A f \in DOMAIN table[i] : ItemFits(i, f, table[i][f])
ActionsFit(table) == \A a \in DOMAIN table : \A f \in DOMAIN table[a] : ActionFits(a, f, table[a][f])

LEMMA JoinedFit ==
    ASSUME NEW s, NEW t
    PROVE  /\ DOMAIN Joined(s, t) = DOMAIN s \cup DOMAIN t
           /\ ItemsFit(s) /\ ItemsFit(t) => ItemsFit(Joined(s, t))
           /\ ActionsFit(s) /\ ActionsFit(t) => ActionsFit(Joined(s, t))
<1>1. DOMAIN Joined(s, t) = DOMAIN s \cup DOMAIN t
  BY DEF Joined
<1>2. \A x \in DOMAIN Joined(s, t) : Joined(s, t)[x] = IF x \in DOMAIN s THEN s[x] ELSE t[x]
  BY DEF Joined
<1> QED
  BY <1>1, <1>2 DEF ItemsFit, ActionsFit

LEMMA ItemTablesFit ==
    /\ ItemsFit(PlainItems)
    /\ ItemsFit(EthItems)
    /\ ItemsFit(IpItems)
    /\ ItemsFit(TunnelItems)
    /\ ItemsFit(GreItems)
    /\ ItemsFit(ArpItems)
    /\ ItemsFit(NdItems)
    /\ ItemsFit(SessionItems)
    /\ ItemsFit(EcpriItems)
<1>1. ItemsFit(PlainItems)
  BY DEF ItemsFit, ItemFits, Kinds, Uns, Bool, NoFields, PlainItems
<1>2. ItemsFit(EthItems)
  BY DEF ItemsFit, ItemFits, Kinds, Uns, Mac, Ip4, EthItems
<1>3. ItemsFit(IpItems)
  BY DEF ItemsFit, ItemFits, Kinds, Uns, Ip6, IpItems
<1>4. ItemsFit(TunnelItems)
  BY DEF ItemsFit, ItemFits, Kinds, Uns, TunnelItems
<1>5. ItemsFit(GreItems)
  BY DEF ItemsFit, ItemFits, Kinds, Uns, Bool, NoFields, GreItems
<1>6. ItemsFit(ArpItems)
  BY DEF ItemsFit, ItemFits, Kinds, Uns, Mac, Ip4, Ip6, ArpItems
<1>7. ItemsFit(NdItems)
  BY DEF ItemsFit, ItemFits, Kinds, Uns, Mac, Ip6, NdItems
<1>8. ItemsFit(SessionItems)
  BY DEF ItemsFit, ItemFits, Kinds, Uns, NoFields, SessionItems
<1>9. ItemsFit(EcpriItems)
  BY DEF ItemsFit, ItemFits, Kinds, EcpriItems
<1> QED
  BY <1>1, <1>2, <1>3, <1>4, <1>5, <1>6, <1>7, <1>8, <1>9

LEMMA ActionTablesFit ==
    /\ ActionsFit(PlainActions)
    /\ ActionsFit(RssActions)
    /\ ActionsFit(PortActions)
    /\ ActionsFit(OfActions)
    /\ ActionsFit(EncapActions)
    /\ ActionsFit(SetAddrActions)
    /\ ActionsFit(SetMacActions)
    /\ ActionsFit(SetTagActions)
<1>1. ActionsFit(PlainActions)
  BY DEF ActionsFit, ActionFits, IndexedActions, Kinds, Uns, Bool, NoFields, PlainActions
<1>2. ActionsFit(RssActions)
  BY DEF ActionsFit, ActionFits, IndexedActions, Kinds, Uns, RssActions
<1>3. ActionsFit(PortActions)
  BY DEF ActionsFit, ActionFits, IndexedActions, Kinds, Uns, Bool, NoFields, PortActions
<1>4. ActionsFit(OfActions)
  BY DEF ActionsFit, ActionFits, IndexedActions, Kinds, Uns, NoFields, OfActions
<1>5. ActionsFit(EncapActions)
  BY DEF ActionsFit, ActionFits, NoFields, EncapActions
<1>6. ActionsFit(SetAddrActions)
  BY DEF ActionsFit, ActionFits, IndexedActions, Kinds, Uns, Ip4, Ip6, NoFields, SetAddrActions
<1>7. ActionsFit(SetMacActions)
  BY DEF ActionsFit, ActionFits, IndexedActions, Kinds, Uns, Mac, NoFields, SetMacActions
<1>8. ActionsFit(SetTagActions)
  BY DEF ActionsFit, ActionFits, IndexedActions, Kinds, Uns, SetTagActions
<1> QED
  BY <1>1, <1>2, <1>3, <1>4, <1>5, <1>6, <1>7, <1>8

LEMMA ItemTable ==
    /\ ItemsFit(ItemFields)
    /\ "gtp" \in DOMAIN ItemFields /\ "pppoes" \in DOMAIN ItemFields
    /\ "ecpri" \in DOMAIN ItemFields /\ "eth" \in DOMAIN ItemFields
<1>1. ItemsFit(ItemFields)
  BY ItemTablesFit, JoinedFit DEF ItemFields
<1>2. "gtp" \in DOMAIN GreItems /\ "pppoes" \in DOMAIN SessionItems
  BY DEF GreItems, SessionItems
<1>3. "ecpri" \in DOMAIN EcpriItems /\ "eth" \in DOMAIN EthItems
  BY DEF EcpriItems, EthItems
<1>4. \A s, t, x : x \in DOMAIN s \/ x \in DOMAIN t => x \in DOMAIN Joined(s, t)
  BY JoinedFit
<1> DEFINE Last1 == Joined(GreItems, ArpItems)
           Last2 == Joined(SessionItems, EcpriItems)
           Last3 == Joined(NdItems, Last2)
           Late == Joined(Last1, Last3)
           First == Joined(PlainItems, EthItems)
           Early == Joined(First, Joined(IpItems, TunnelItems))
<1>5. \A x : x \in DOMAIN Early \/ x \in DOMAIN Late => x \in DOMAIN ItemFields
  BY <1>4 DEF ItemFields
<1>6. \A x : x \in DOMAIN First => x \in DOMAIN Early
  BY <1>4
<1>7. \A x : x \in DOMAIN EthItems => x \in DOMAIN First
  BY <1>4
<1>8. \A x : x \in DOMAIN GreItems => x \in DOMAIN Last1
  BY <1>4
<1>9. \A x : x \in DOMAIN Last1 \/ x \in DOMAIN Last3 => x \in DOMAIN Late
  BY <1>4
<1>10. \A x : x \in DOMAIN Last2 => x \in DOMAIN Last3
  BY <1>4
<1>11. \A x : x \in DOMAIN SessionItems \/ x \in DOMAIN EcpriItems => x \in DOMAIN Last2
  BY <1>4
<1> HIDE DEF Last1, Last2, Last3, Late, First, Early
<1> QED
  BY <1>1, <1>2, <1>3, <1>5, <1>6, <1>7, <1>8, <1>9, <1>10, <1>11

LEMMA ActionTable ==
    /\ ActionsFit(ActionFields)
    /\ {"queue", "mark", "count", "port_id", "raw_encap", "age", "sample", "rss"} \subseteq DOMAIN ActionFields
<1>1. ActionsFit(ActionFields)
  BY ActionTablesFit, JoinedFit DEF ActionFields
<1>2. {"queue", "mark", "count"} \subseteq DOMAIN PlainActions /\ "port_id" \in DOMAIN PortActions
  BY DEF PlainActions, PortActions
<1>3. /\ "raw_encap" \in DOMAIN SetMacActions
      /\ {"age", "sample"} \subseteq DOMAIN SetTagActions
      /\ "rss" \in DOMAIN RssActions
  BY DEF SetMacActions, SetTagActions, RssActions
<1>4. \A s, t, x : x \in DOMAIN s \/ x \in DOMAIN t => x \in DOMAIN Joined(s, t)
  BY JoinedFit
<1> DEFINE First == Joined(PlainActions, RssActions)
           Second == Joined(PortActions, OfActions)
           Third == Joined(EncapActions, SetAddrActions)
           Fourth == Joined(SetMacActions, SetTagActions)
           Early == Joined(First, Second)
           Late == Joined(Third, Fourth)
<1>5. \A x : x \in DOMAIN Early \/ x \in DOMAIN Late => x \in DOMAIN ActionFields
  BY <1>4 DEF ActionFields
<1>6. \A x : x \in DOMAIN First \/ x \in DOMAIN Second => x \in DOMAIN Early
  BY <1>4
<1>7. \A x : x \in DOMAIN Third \/ x \in DOMAIN Fourth => x \in DOMAIN Late
  BY <1>4
<1>8. \A x : x \in DOMAIN PlainActions \/ x \in DOMAIN RssActions => x \in DOMAIN First
  BY <1>4
<1>9. \A x : x \in DOMAIN PortActions => x \in DOMAIN Second
  BY <1>4
<1>10. \A x : x \in DOMAIN SetMacActions \/ x \in DOMAIN SetTagActions => x \in DOMAIN Fourth
  BY <1>4
<1> HIDE DEF First, Second, Third, Fourth, Early, Late
<1> QED
  BY <1>1, <1>2, <1>3, <1>5, <1>6, <1>7, <1>8, <1>9, <1>10

\* The structure of an item is one, and has its own.
LEMMA StructOf ==
    ASSUME NEW i \in DOMAIN ItemFields
    PROVE  Struct(i) \in DOMAIN ItemFields /\ Struct(Struct(i)) = Struct(i) /\ ItemData(Struct(i)) = ItemData(i)
BY ItemTable DEF Struct, ItemData

\* What words other than those of the commands push
LEMMA EntryTurn ==
    ASSUME NEW x
    PROVE  /\ Next_(<<"ITEM", x>>) = ItemNext(x)
           /\ Args_(<<"ITEM", x>>) = IF x = "pppoe_proto_id" THEN <<Place(ItemData(x), "proto_id")>> ELSE <<>>
           /\ Next_(<<"ACTION", x>>) = ActionNext(x)
           /\ Args_(<<"ACTION", x>>) = IF x = "shared" THEN <<Place(<<"id">>, "id")>> ELSE <<>>
           /\ Next_(<<"ECPRI", x>>) = << <<"AFTER_TYPE", EcpriTypes[x]>> >> /\ Args_(<<"ECPRI", x>>) = <<>>
           /\ Next_(<<"INDEX", x>>) = << <<"ACTION", "/">> >> /\ Args_(<<"INDEX", x>>) = <<>>
           /\ Next_(<<"PARAM", x>>) = <<>> /\ Args_(<<"PARAM", x>>) = <<>>
           /\ Next_(<<"RSS_FUNC", x>>) = <<>> /\ Args_(<<"RSS_FUNC", x>>) = <<>>
<1>1. {"ITEM", "ACTION", "ECPRI", "INDEX", "PARAM", "RSS_FUNC"} \cap DOMAIN NamedTokens = {}
  BY TokensOfAll, TokenNames
<1> QED
  BY <1>1 DEF Next_, Args_

LEMMA FieldTurn ==
    ASSUME NEW x, NEW f
    PROVE  /\ Next_(<<"ITEM", x, f>>) = ItemFieldNext(x, f) /\ Args_(<<"ITEM", x, f>>) = ItemFieldArgs(x, f)
           /\ Next_(<<"ACTION", x, f>>) = ActionFieldNext(x, f) /\ Args_(<<"ACTION", x, f>>) = ActionFieldArgs(x, f)
<1>1. {"ITEM", "ACTION"} \cap DOMAIN NamedTokens = {}
  BY TokensOfAll, TokenNames
<1> QED
  BY <1>1 DEF Next_, Args_

\* Most values push nothing.
PlainValues == (SimpleValues \cup {"STRING", "HEX", "PORT_ID", "RSS_TYPE", "RSS_QUEUE"}) \cup {"END_SET", "AGED_DESTROY"}
LEMMA ValueTurn ==
    /\ \A v \in PlainValues : Next_(<<v>>) = <<>> /\ Args_(<<v>>) = <<>>
    /\ Next_(<<"SHARED_ACTION_ID2PTR">>) = << <<"ACTION", "/">> >> /\ Args_(<<"SHARED_ACTION_ID2PTR">>) = <<>>
<1>1. (PlainValues \cup {"SHARED_ACTION_ID2PTR"}) \cap DOMAIN NamedTokens = {}
  BY TokensOfAll, TokenNames DEF PlainValues, SimpleValues, Uns, Bool, Mac, Ip4, Ip6
<1>2. PlainValues \cap {"ITEM", "ACTION", "ECPRI", "INDEX", "SHARED_ACTION_ID2PTR"} = {}
  BY DEF PlainValues, SimpleValues, Uns, Bool, Mac, Ip4, Ip6
<1> QED
  BY <1>1, <1>2 DEF Next_, Args_

\* A field of an item waits for its value, or a word that says how it is meant.
FieldLists == {<<"item_param">>, <<"raw_param">>, <<"tag_param">>}
LEMMA ItemFieldTurn ==
    ASSUME NEW i \in DOMAIN ItemFields, NEW f, i = "ecpri" \/ f \in DOMAIN ItemFields[i]
    PROVE  \E l, v, x :
              /\ ItemFieldNext(i, f) = <<l, <<v>>, x>>
              /\ ItemFieldArgs(i, f) = PlacesOf(ItemData(i), f, v)
              /\ v \in Kinds \cup {"STRING"}
              /\ l = <<"AFTER_ITEM", i>> \/ (i = "ecpri" /\ l = <<"AFTER_MESSAGE", f>>)
              /\ x \in FieldLists
              /\ v = "STRING" => x = <<"raw_param">>
<1> DEFINE P(l, v, x) ==
              /\ ItemFieldNext(i, f) = <<l, <<v>>, x>>
              /\ ItemFieldArgs(i, f) = PlacesOf(ItemData(i), f, v)
              /\ v \in Kinds \cup {"STRING"}
              /\ l = <<"AFTER_ITEM", i>> \/ (i = "ecpri" /\ l = <<"AFTER_MESSAGE", f>>)
              /\ x \in FieldLists
              /\ v = "STRING" => x = <<"raw_param">>
<1>0. Uns \in Kinds /\ Uns # "STRING" /\ "STRING" \notin Kinds /\ "HEX" \notin Kinds
  BY DEF Kinds, Uns, Bool, Mac, Ip4, Ip6
<1>1. CASE i = "raw" /\ f = "pattern"
  <2>1. P(<<"AFTER_ITEM", i>>, "STRING", <<"raw_param">>)
    BY <1>1 DEF ItemFieldNext, ItemFieldArgs, PlacesOf, FieldLists
  <2> QED
    BY <2>1
<1>2. CASE ~(i = "raw" /\ f = "pattern") /\ i = "tag" /\ f = "index"
  <2>1. P(<<"AFTER_ITEM", i>>, Uns, <<"tag_param">>)
    BY <1>0, <1>2 DEF ItemFieldNext, ItemFieldArgs, PlacesOf, FieldLists
  <2> QED
    BY <2>1
<1>3. CASE ~(i = "raw" /\ f = "pattern") /\ ~(i = "tag" /\ f = "index") /\ i = "ecpri"
  <2>1. P(<<"AFTER_MESSAGE", f>>, Uns, <<"item_param">>)
    BY <1>0, <1>3 DEF ItemFieldNext, ItemFieldArgs, PlacesOf, FieldLists
  <2> QED
    BY <2>1
<1>4. CASE ~(i = "raw" /\ f = "pattern") /\ ~(i = "tag" /\ f = "index") /\ i # "ecpri"
  <2>1. ItemFields[i][f] \in Kinds
    BY <1>4, ItemTable DEF ItemsFit, ItemFits
  <2>2. P(<<"AFTER_ITEM", i>>, ItemFields[i][f], <<"item_param">>)
    BY <1>0, <1>4, <2>1 DEF ItemFieldNext, ItemFieldArgs, PlacesOf, FieldLists
  <2> QED
    BY <2>2
<1> QED
  BY <1>1, <1>2, <1>3, <1>4

\* A field of an action waits for its value.
LEMMA ActionFieldTurn ==
    ASSUME NEW a \in DOMAIN ActionFields, NEW f \in DOMAIN ActionFields[a]
    PROVE  \E v : /\ ActionFieldNext(a, f) = << <<"AFTER_ACTION", a>>, <<v>> >>
                  /\ ActionFieldArgs(a, f) = PlacesOf(ActionData(a), f, v)
                  /\ v \in Kinds \cup {"HEX"}
<1> DEFINE v == ActionFields[a][f]
<1>1. ActionFits(a, f, v)
  BY ActionTable DEF ActionsFit
<1>2. "STRING" \notin Kinds /\ "HEX" \notin Kinds
  BY DEF Kinds, Uns, Bool, Mac, Ip4, Ip6
<1>3. ActionFieldNext(a, f) = << <<"AFTER_ACTION", a>>, <<v>> >>
  BY <1>1 DEF ActionFits, ActionFieldNext
<1>4. ActionFieldArgs(a, f) = PlacesOf(ActionData(a), f, v)
  BY <1>1, <1>2 DEF ActionFits, ActionFieldArgs, PlacesOf
<1> QED
  BY <1>1, <1>3, <1>4 DEF ActionFits

\* The fields that a parse function of their own reads need no places.
LEMMA OwnFieldTurn ==
    /\ \A f \in {"func", "types", "queues"} : /\ ActionFieldNext("rss", f) = << <<"AFTER_ACTION", "rss">>, <<RssList(f)>> >>
                                              /\ ActionFieldArgs("rss", f) = <<>>
    /\ \A a \in IndexedActions : /\ ActionFieldNext(a, "index") = << <<"INDEX", a>> >>
                                 /\ a \in DOMAIN ActionFields => ActionFieldArgs(a, "index") = <<>>
<1>1. \A f \in {"func", "types", "queues"} : f \notin DOMAIN ActionFields["rss"]
  BY ActionTable DEF ActionsFit, ActionFits
<1>2. \A a \in IndexedActions : a \in DOMAIN ActionFields => "index" \notin DOMAIN ActionFields[a]
  BY ActionTable DEF ActionsFit, ActionFits
<1> QED
  BY <1>1, <1>2 DEF ActionFieldNext, ActionFieldArgs, RssList, IndexedActions

-----------------------------------------------------------------------------
(* Which lists a word can be in. *)

SingleLists == {"FLOW", "SET", "SHARED_ACTION_SPEC", "SHARED_ACTION_DESTROY_ID", "END", "DESTROY_RULE", "TUNNEL_CREATE_TYPE",
                "TUNNEL_DESTROY_ID", "ACTIONS", "ECPRI_TYPE", "PORT_ID", "SHARED_ACTION_ID", "SET_SAMPLE_INDEX", "RULE_ID",
                "QUERY_ACTION", "GROUP_ID", "PRIORITY_LEVEL", "FILE_PATH", "SHARED_ACTION_ID2PTR", "RSS_TYPE",
                "RSS_QUEUE", "STRING", "HEX", "PREFIX"} \cup Kinds

LEMMA ListNames ==
    /\ DOMAIN CommandLists = {"flow_commands", "next_sa_create_attr", "next_sa_subcmd", "next_vc_attr", "next_destroy_attr",
                              "next_dump_attr", "next_list_attr", "next_aged_attr", "next_sa_destroy_attr",
                              "tunnel_commands", "set_commands"}
    /\ DOMAIN GrammarLists = {"next_set_raw", "next_item", "item_param", "raw_param", "tag_param", "next_action",
                              "next_action_sample", "ecpri_types", "rss_funcs"}
BY DEF CommandLists, GrammarLists

LEMMA SinglesAre ==
    /\ \A w \in SingleLists : ListOf(<<w>>) = {<<w>>}
    /\ ListOf(<<"ACTION", "/">>) = {<<"ACTION", "/">>}
    /\ \A a : ListOf(<<"INDEX", a>>) = {<<"INDEX", a>>}
<1>1. SingleLists \cap (DOMAIN CommandLists \cup DOMAIN GrammarLists) = {}
  BY ListNames DEF SingleLists, Kinds, Uns, Bool, Mac, Ip4, Ip6
<1>2. SingleLists \cap {"AFTER_ITEM", "AFTER_ACTION", "AFTER_TYPE", "AFTER_MESSAGE"} = {}
  BY DEF SingleLists, Kinds, Uns, Bool, Mac, Ip4, Ip6
<1>3. {"ACTION", "INDEX"} \cap (DOMAIN CommandLists \cup DOMAIN GrammarLists) = {}
  BY ListNames
<1> QED
  BY <1>1, <1>2, <1>3 DEF ListOf

LEMMA CommandListsAre ==
    /\ \A x \in DOMAIN CommandLists : ListOf(<<x>>) = CommandLists[x]
    /\ \A x \in DOMAIN GrammarLists : ListOf(<<x>>) = GrammarLists[x]
    /\ \A x : /\ ListOf(<<"AFTER_ITEM", x>>) = AfterItem(x)
              /\ ListOf(<<"AFTER_ACTION", x>>) = AfterAction(x)
              /\ ListOf(<<"AFTER_TYPE", x>>) = {<<"ITEM", "ecpri", x>>, <<"ITEM", "/">>}
              /\ ListOf(<<"AFTER_MESSAGE", x>>) = {<<"ITEM", "ecpri", x>>, <<"ECPRI_COMMON">>, <<"ITEM", "/">>}
<1>1. DOMAIN CommandLists \cap DOMAIN GrammarLists = {}
  BY ListNames
<1>2. {"AFTER_ITEM", "AFTER_ACTION", "AFTER_TYPE", "AFTER_MESSAGE"} \cap (DOMAIN CommandLists \cup DOMAIN GrammarLists) = {}
  BY ListNames
<1> QED
  BY <1>1, <1>2 DEF ListOf

\* The words that begin the tokens of a list
Firsts ==
    [flow_commands |-> FirstWords,
     set_commands |-> {"SET_RAW_ENCAP", "SET_RAW_DECAP", "SET_SAMPLE_ACTIONS"},
     next_sa_subcmd |-> {"SHARED_ACTION_CREATE", "SHARED_ACTION_UPDATE", "SHARED_ACTION_DESTROY", "SHARED_ACTION_QUERY"},
     next_sa_create_attr |-> {"SHARED_ACTION_CREATE_ID", "SHARED_ACTION_INGRESS", "SHARED_ACTION_EGRESS",
                              "SHARED_ACTION_TRANSFER", "SHARED_ACTION_SPEC"},
     next_sa_destroy_attr |-> {"SHARED_ACTION_DESTROY_ID", "END"},
     next_vc_attr |-> {"GROUP", "PRIORITY", "INGRESS", "EGRESS", "TRANSFER", "TUNNEL_SET", "TUNNEL_MATCH", "PATTERN"},
     next_destroy_attr |-> {"DESTROY_RULE", "END"},
     next_list_attr |-> {"LIST_GROUP", "END"},
     next_aged_attr |-> {"AGED_DESTROY", "END"},
     tunnel_commands |-> {"TUNNEL_CREATE", "TUNNEL_LIST", "TUNNEL_DESTROY"},
     next_item |-> {"ITEM", "END_SET"}, next_action |-> {"ACTION"}, next_action_sample |-> {"ACTION"}]
FirstsOf(x) == IF x \in DOMAIN Firsts THEN Firsts[x] ELSE {x}

LEMMA FirstsNames ==
    DOMAIN Firsts = {"flow_commands", "set_commands", "next_sa_subcmd", "next_sa_create_attr", "next_sa_destroy_attr",
                     "next_vc_attr", "next_destroy_attr", "next_list_attr", "next_aged_attr", "tunnel_commands",
                     "next_item", "next_action", "next_action_sample"}
BY DEF Firsts

LEMMA RestFirsts == \A x \in RestNames : \A t \in ListOf(<<x>>) : t[1] \in FirstsOf(x)
<1>1. \A x \in RestNames \cap SingleLists : \A t \in ListOf(<<x>>) : t[1] \in FirstsOf(x)
  <2>1. SingleLists \cap DOMAIN Firsts = {}
    BY FirstsNames DEF SingleLists, Kinds, Uns, Bool, Mac, Ip4, Ip6
  <2> QED
    BY <2>1, SinglesAre DEF FirstsOf
<1>2. \A x \in RestNames \cap DOMAIN CommandLists : \A t \in ListOf(<<x>>) : t[1] \in FirstsOf(x)
  <2>1. CommandLists["flow_commands"] = Words(Firsts["flow_commands"])
    <3>1. Firsts["flow_commands"] = FirstWords
      BY DEF Firsts
    <3>2. CommandLists["flow_commands"] = Words({"SHARED_ACTION", "VALIDATE", "CREATE", "DESTROY", "FLUSH", "DUMP", "LIST",
                                                 "AGED", "QUERY", "ISOLATE", "TUNNEL"})
      BY DEF CommandLists
    <3> QED
      BY <3>1, <3>2 DEF FirstWords
  <2>2. /\ CommandLists["next_sa_create_attr"] = Words(Firsts["next_sa_create_attr"])
        /\ CommandLists["next_sa_subcmd"] = Words(Firsts["next_sa_subcmd"])
        /\ CommandLists["next_vc_attr"] = Words(Firsts["next_vc_attr"])
        /\ CommandLists["next_destroy_attr"] = Words(Firsts["next_destroy_attr"])
        /\ CommandLists["next_list_attr"] = Words(Firsts["next_list_attr"])
        /\ CommandLists["next_aged_attr"] = Words(Firsts["next_aged_attr"])
        /\ CommandLists["next_sa_destroy_attr"] = Words(Firsts["next_sa_destroy_attr"])
        /\ CommandLists["tunnel_commands"] = Words(Firsts["tunnel_commands"])
        /\ CommandLists["set_commands"] = Words(Firsts["set_commands"])
    BY DEF CommandLists, Firsts
  <2>3. \A x \in RestNames \cap DOMAIN CommandLists : x # "next_dump_attr"
    BY DEF RestNames
  <2>4. \A x \in RestNames \cap DOMAIN CommandLists : x \in DOMAIN Firsts /\ CommandLists[x] = Words(Firsts[x])
    BY <2>1, <2>2, <2>3, FirstsNames, ListNames
  <2> QED
    BY <2>4, CommandListsAre DEF FirstsOf, Words
<1>3. \A x \in RestNames \cap DOMAIN GrammarLists : \A t \in ListOf(<<x>>) : t[1] \in FirstsOf(x)
  <2>1. \A x \in RestNames \cap DOMAIN GrammarLists : x \in DOMAIN Firsts /\ x \in {"next_item", "next_action", "next_action_sample"}
    BY FirstsNames, ListNames DEF RestNames
  <2>2. \A x \in {"next_item", "next_action", "next_action_sample"} : \A t \in GrammarLists[x] : t[1] \in Firsts[x]
    BY DEF GrammarLists, Firsts, Words, next_item, next_action, next_action_sample
  <2> QED
    BY <2>1, <2>2, CommandListsAre DEF FirstsOf
<1>4. RestNames \subseteq SingleLists \cup DOMAIN CommandLists \cup DOMAIN GrammarLists
  BY ListNames DEF RestNames, SingleLists
<1> QED
  BY <1>1, <1>2, <1>3, <1>4

\* The lists after an item, and what is in them
AfterItemList(g, l, d) ==
    \/ \E i \in DOMAIN ItemFields : l = <<"AFTER_ITEM", i>> /\ Of(g, d, ItemData(i))
    \/ \E f : l \in {<<"AFTER_TYPE", f>>, <<"AFTER_MESSAGE", f>>} /\ Of(g, d, ItemData("ecpri"))

IsField(g, t, d) ==
    \E i \in DOMAIN ItemFields : \E f : /\ t = <<"ITEM", i, f>>
                                        /\ i = "ecpri" \/ f \in DOMAIN ItemFields[i]
                                        /\ Of(g, d, ItemData(i))

OfItem(g, t, d) ==
    \/ t = <<"ITEM", "/">>
    \/ t = <<"ECPRI_COMMON">> /\ Of(g, d, ItemData("ecpri"))
    \/ IsField(g, t, d)

LEMMA AfterItems ==
    ASSUME NEW g, NEW l, NEW d, NEW t, AfterItemList(g, l, d), t \in ListOf(l)
    PROVE  /\ l[1] \in {"AFTER_ITEM", "AFTER_TYPE", "AFTER_MESSAGE"}
           /\ OfItem(g, t, d)
<1>1. ASSUME NEW i \in DOMAIN ItemFields, l = <<"AFTER_ITEM", i>>, Of(g, d, ItemData(i))
      PROVE  OfItem(g, t, d)
  <2>1. t \in AfterItem(i)
    BY <1>1, CommandListsAre
  <2>2. CASE i = "ecpri"
    BY <1>1, <2>1, <2>2 DEF AfterItem, OfItem
  <2>3. CASE i # "ecpri"
    <3>1. t = <<"ITEM", "/">> \/ \E f \in DOMAIN ItemFields[Struct(i)] : t = <<"ITEM", Struct(i), f>>
      BY <2>1, <2>3 DEF AfterItem
    <3>2. Struct(i) \in DOMAIN ItemFields /\ Of(g, d, ItemData(Struct(i)))
      BY <1>1, StructOf
    <3> QED
      BY <3>1, <3>2 DEF OfItem, IsField
  <2> QED
    BY <2>2, <2>3
<1>2. ASSUME NEW f, l \in {<<"AFTER_TYPE", f>>, <<"AFTER_MESSAGE", f>>}, Of(g, d, ItemData("ecpri"))
      PROVE  OfItem(g, t, d)
  <2>1. t \in {<<"ITEM", "ecpri", f>>, <<"ECPRI_COMMON">>, <<"ITEM", "/">>}
    BY <1>2, CommandListsAre
  <2>2. "ecpri" \in DOMAIN ItemFields
    BY ItemTable
  <2> QED
    BY <1>2, <2>1, <2>2 DEF OfItem, IsField
<1>3. l[1] \in {"AFTER_ITEM", "AFTER_TYPE", "AFTER_MESSAGE"}
  BY DEF AfterItemList
<1>4. OfItem(g, t, d)
  BY <1>1, <1>2 DEF AfterItemList
<1> QED
  BY <1>3, <1>4

\* The list after an action, and what is in it
OfAction(t, a) ==
    \/ t = <<"ACTION", "/">>
    \/ t = <<"ACTION", a>>
    \/ \E f : /\ t = <<"ACTION", a, f>>
              /\ \/ f \in DOMAIN ActionFields[a]
                 \/ a \in IndexedActions /\ f = "index"
                 \/ a = "rss" /\ f \in {"func", "types", "queues"}

LEMMA AfterActions == ASSUME NEW a \in DOMAIN ActionFields, NEW t \in ListOf(<<"AFTER_ACTION", a>>) PROVE OfAction(t, a)
<1>1. t \in AfterAction(a)
  BY CommandListsAre
<1> QED
  BY <1>1 DEF AfterAction, OfAction

\* Every list of words
WordOf(g, l, o, t) ==
    \E x \in RestNames : /\ l = <<x>> /\ t[1] \in FirstsOf(x)
                         /\ x \in {"next_sa_create_attr", "tunnel_commands"} => Points(g, o, <<"out">>)
ActionAt(g, l, o, d, a) ==
    l = <<"AFTER_ACTION", a>> /\ Of(g, d, ActionData(a)) /\ (a \in OwnParser => Points(g, o, ActionData(a)))

LEMMA Homes ==
    ASSUME NEW g, NEW l, NEW o, NEW d, RestList(g, l, o, d), NEW t \in ListOf(l)
    PROVE  \/ WordOf(g, l, o, t)
           \/ l = <<"ECPRI_TYPE">> /\ t = <<"ECPRI_TYPE">> /\ Of(g, d, ItemData("ecpri"))
           \/ l = <<"ACTION", "/">> /\ t = <<"ACTION", "/">>
           \/ l[1] \in {"AFTER_ITEM", "AFTER_TYPE", "AFTER_MESSAGE"} /\ OfItem(g, t, d)
           \/ \E a \in DOMAIN ActionFields : ActionAt(g, l, o, d, a) /\ OfAction(t, a)
<1>1. CASE \E x \in RestNames : l = <<x>> /\ (x \in {"next_sa_create_attr", "tunnel_commands"} => Points(g, o, <<"out">>))
  BY <1>1, RestFirsts DEF WordOf
<1>2. CASE l = <<"ACTION", "/">>
  BY <1>2, SinglesAre
<1>3. CASE AfterItemList(g, l, d)
  BY <1>3, AfterItems
<1>4. CASE l = <<"ECPRI_TYPE">> /\ Of(g, d, ItemData("ecpri"))
  <2>1. "ECPRI_TYPE" \in SingleLists
    BY DEF SingleLists
  <2> QED
    BY <1>4, <2>1, SinglesAre
<1>5. CASE \E a \in DOMAIN ActionFields : ActionAt(g, l, o, d, a)
  BY <1>5, AfterActions DEF ActionAt
<1> QED
  BY <1>1, <1>2, <1>3, <1>4, <1>5 DEF RestList, AfterItemList, ActionAt

-----------------------------------------------------------------------------
(* Values: which place they are taken from, and what is left. *)

ValueNames == SimpleValues \cup {"STRING", "HEX", "PORT_ID", "SET_RAW_INDEX", "SET_SAMPLE_INDEX", "SHARED_ACTION_ID2PTR", "ECPRI",
                                 "RSS_FUNC", "RSS_TYPE", "RSS_QUEUE", "INDEX", "PARAM"}

LEMMA NoValueAtRest ==
    ASSUME NEW g, NEW l, NEW o, NEW d, RestList(g, l, o, d), NEW t \in ListOf(l)
    PROVE  t[1] \notin ValueNames
<1>1. \A x \in RestNames : \A w \in FirstsOf(x) : w \notin ValueNames
  <2>1. \A x \in DOMAIN Firsts : \A w \in Firsts[x] : w \notin ValueNames
    BY DEF Firsts, FirstWords, ValueNames, SimpleValues, Uns, Bool, Mac, Ip4, Ip6
  <2>2. \A x \in RestNames : x \notin ValueNames
    BY DEF RestNames, ValueNames, SimpleValues, Uns, Bool, Mac, Ip4, Ip6
  <2> QED
    BY <2>1, <2>2 DEF FirstsOf
<1>2. {"ECPRI_TYPE", "ACTION", "ITEM", "ECPRI_COMMON"} \cap ValueNames = {}
  BY DEF ValueNames, SimpleValues, Uns, Bool, Mac, Ip4, Ip6
<1>3. WordOf(g, l, o, t) => t[1] \notin ValueNames
  BY <1>1 DEF WordOf
<1>4. OfItem(g, t, d) => t[1] \in {"ITEM", "ECPRI_COMMON"}
  BY DEF OfItem, IsField
<1>5. \A a \in DOMAIN ActionFields : OfAction(t, a) => t[1] = "ACTION"
  BY DEF OfAction
<1>6. \/ WordOf(g, l, o, t)
      \/ t[1] \in {"ECPRI_TYPE", "ACTION"}
      \/ OfItem(g, t, d)
      \/ \E a \in DOMAIN ActionFields : OfAction(t, a)
  BY Homes
<1> QED
  BY <1>2, <1>3, <1>4, <1>5, <1>6

\* Value x is taken from places p, and r are left.
Taken(p, r, x) ==
    \/ p = <<x>> /\ r = <<>>
    \/ \E y : p = <<y, x>> /\ r = <<y>>
    \/ \E y, z : p = <<y, z, x>> /\ r = <<y, z>>

LEMMA TakenOff ==
    ASSUME NEW S, NEW s \in Seq(S), NEW p, NEW r, NEW x, Taken(p, r, x)
    PROVE  LET a == s \o p
           IN  a # <<>> /\ Last(a) = x /\ SubSeq(a, 1, Len(a) - 1) = s \o r
<1>1. CASE p = <<x>> /\ r = <<>>
  BY <1>1, OnTopOne, NoneOnTop
<1>2. CASE \E y : p = <<y, x>> /\ r = <<y>>
  BY <1>2, OnTopTwo
<1>3. CASE \E y, z : p = <<y, z, x>> /\ r = <<y, z>>
  BY <1>3, OnTopThree
<1> QED
  BY <1>1, <1>2, <1>3 DEF Taken

\* The lists m that a value leaves of n keep the one at the bottom, or it was not one a rule is made in.
BottomStays(n, m) == (m # <<>> /\ m[1] = n[1]) \/ (m = <<>> /\ n[1][1] \notin HeededNames)

\* Value t is stored at place x, and lists m and places r are left.
Follows(g, n, q, o, d, t, m, r, x) ==
    /\ Shape(g, m, r, Nothing, o, d)
    /\ g => x.of = o
    /\ x.field \in Meant([by |-> t, place |-> x, object |-> o, asked |-> q])
    /\ BottomStays(n, m)
ValueFits(g, n, p, q, o, d, t, m, r, x) == Taken(p, r, x) /\ Follows(g, n, q, o, d, t, m, r, x)

OutTops == {"PORT_ID", "SHARED_ACTION_ID", "SET_SAMPLE_INDEX", "RULE_ID", "QUERY_ACTION", "BOOLEAN"}

LEMMA NextIsRest ==
    ASSUME NEW g, NEW x \in RestNames, NEW o, NEW d,
           x \in {"next_sa_create_attr", "tunnel_commands"} => Points(g, o, <<"out">>)
    PROVE  Shape(g, << <<x>> >>, <<>>, Nothing, o, d)
BY DEF Shape, AtRest, RestList

LEMMA NoneLeft == ASSUME NEW g, NEW o, NEW d PROVE Shape(g, <<>>, <<>>, Nothing, o, d)
BY DEF Shape, AtRest

LEMMA MixedListsAre ==
    /\ ListOf(<<"next_dump_attr">>) = {<<"FILE_PATH">>, <<"END">>}
    /\ ListOf(<<"next_set_raw">>) = {<<"SET_RAW_INDEX">>, <<"ITEM", "eth">>}
<1>1. CommandLists["next_dump_attr"] = {<<"FILE_PATH">>, <<"END">>}
  BY DEF CommandLists, Words
<1>2. GrammarLists["next_set_raw"] = {<<"SET_RAW_INDEX">>, <<"ITEM", "eth">>}
  BY DEF GrammarLists
<1> QED
  BY <1>1, <1>2, CommandListsAre, ListNames

\* A port
LEMMA PortStays ==
    ASSUME NEW g, NEW n, NEW p, NEW q, NEW o, NEW d, AtOut(g, n, p, q, o), <<"PORT_ID">> \in ListOf(Last(n))
    PROVE  \E r : ValueFits(g, n, p, q, o, d, <<"PORT_ID">>, Front(n), r, Out("port"))
<1>1. Out("port").of = <<"out">> /\ Out("port").field = "port"
  BY DEF Out, Place
<1>2. g => Out("port").of = o
  BY <1>1 DEF AtOut, Points
<1>3. Out("port").field \in Meant([by |-> <<"PORT_ID">>, place |-> Out("port"), object |-> o, asked |-> q])
  BY <1>1 DEF Meant
<1>4. ASSUME NEW r, Taken(p, r, Out("port")), Shape(g, Front(n), r, Nothing, o, d), BottomStays(n, Front(n))
      PROVE  ValueFits(g, n, p, q, o, d, <<"PORT_ID">>, Front(n), r, Out("port"))
  BY <1>2, <1>3, <1>4 DEF ValueFits, Follows
<1>5. CASE \E x \in AfterPort : n = << <<x>>, <<"PORT_ID">> >> /\ p = <<Out("port")>>
  <2> PICK x \in AfterPort : n = << <<x>>, <<"PORT_ID">> >> /\ p = <<Out("port")>>
    BY <1>5
  <2>1. Front(n) = << <<x>> >>
    BY TopOfTwo
  <2>2. Shape(g, << <<x>> >>, <<>>, Nothing, o, d)
    BY NextIsRest DEF AfterPort, RestNames
  <2>3. Taken(p, <<>>, Out("port")) /\ BottomStays(n, Front(n))
    BY <2>1 DEF Taken, BottomStays
  <2> QED
    BY <1>4, <2>1, <2>2, <2>3
<1>6. CASE n = << <<"PORT_ID">> >> /\ p = <<Out("port")>>
  <2>1. Front(n) = <<>>
    BY <1>6, TopOfOne
  <2>2. Taken(p, <<>>, Out("port")) /\ BottomStays(n, Front(n))
    BY <1>6, <2>1 DEF Taken, BottomStays, HeededNames, StartNames, ItemLists, EntryLists
  <2> QED
    BY <1>4, <2>1, <2>2, NoneLeft
<1>7. Points(g, o, <<"out">>)
  BY DEF AtOut
<1>8. ASSUME NEW m, NEW r, OutValues(m, r)
      PROVE  Shape(g, m, r, Nothing, o, d)
  BY <1>7, <1>8 DEF Shape, AtOut
<1>9. CASE n = << <<"next_dump_attr">>, <<"PORT_ID">> >> /\ p = <<Out("file"), Out("port")>>
  <2>1. Front(n) = << <<"next_dump_attr">> >>
    BY <1>9, TopOfTwo
  <2>2. Taken(p, <<Out("file")>>, Out("port")) /\ BottomStays(n, Front(n))
    BY <1>9, <2>1 DEF Taken, BottomStays
  <2>3. Shape(g, Front(n), <<Out("file")>>, Nothing, o, d)
    BY <1>8, <2>1 DEF OutValues
  <2> QED
    BY <1>4, <2>2, <2>3
<1>10. CASE n = << <<"QUERY_ACTION">>, <<"RULE_ID">>, <<"PORT_ID">> >> /\ p = <<Out("action"), Out("rule"), Out("port")>>
  <2>1. Front(n) = << <<"QUERY_ACTION">>, <<"RULE_ID">> >>
    BY <1>10, TopOfThree
  <2>2. Taken(p, <<Out("action"), Out("rule")>>, Out("port")) /\ BottomStays(n, Front(n))
    BY <1>10, <2>1 DEF Taken, BottomStays
  <2>3. Shape(g, Front(n), <<Out("action"), Out("rule")>>, Nothing, o, d)
    BY <1>8, <2>1 DEF OutValues
  <2> QED
    BY <1>4, <2>2, <2>3
<1>11. CASE n = << <<"BOOLEAN">>, <<"PORT_ID">> >> /\ p = <<Out("set"), Out("port")>>
  <2>1. Front(n) = << <<"BOOLEAN">> >>
    BY <1>11, TopOfTwo
  <2>2. Taken(p, <<Out("set")>>, Out("port")) /\ BottomStays(n, Front(n))
    BY <1>11, <2>1 DEF Taken, BottomStays
  <2>3. Shape(g, Front(n), <<Out("set")>>, Nothing, o, d)
    BY <1>8, <2>1 DEF OutValues
  <2> QED
    BY <1>4, <2>2, <2>3
<1>12. \A w \in OutTops \ {"PORT_ID"} : Last(n) # <<w>>
  <2> SUFFICES ASSUME NEW w \in OutTops \ {"PORT_ID"}, Last(n) = <<w>>
               PROVE  FALSE
    OBVIOUS
  <2>1. w \in SingleLists
    BY DEF OutTops, SingleLists, Kinds, Bool
  <2>2. <<"PORT_ID">> \in ListOf(<<w>>)
    OBVIOUS
  <2>3. <<"PORT_ID">>[1] = <<w>>[1]
    BY <2>1, <2>2, SinglesAre
  <2> QED
    BY <2>3
<1>13. Last(n) \notin {<<"next_dump_attr">>, <<"next_set_raw">>}
  <2> QED
    BY MixedListsAre
<1>14. OutValues(n, p)
  BY DEF AtOut
<1>15. \/ \E x \in AfterPort : n = << <<x>>, <<"PORT_ID">> >> /\ p = <<Out("port")>>
       \/ n = << <<"PORT_ID">> >> /\ p = <<Out("port")>>
       \/ n = << <<"next_dump_attr">>, <<"PORT_ID">> >> /\ p = <<Out("file"), Out("port")>>
       \/ n = << <<"QUERY_ACTION">>, <<"RULE_ID">>, <<"PORT_ID">> >> /\ p = <<Out("action"), Out("rule"), Out("port")>>
       \/ n = << <<"BOOLEAN">>, <<"PORT_ID">> >> /\ p = <<Out("set"), Out("port")>>
       \/ Last(n) \in {<<"next_dump_attr">>, <<"next_set_raw">>}
       \/ \E w \in OutTops \ {"PORT_ID"} : Last(n) = <<w>>
  BY <1>14, TopOfOne, TopOfTwo DEF OutValues, OutTops
<1> QED
  BY <1>5, <1>6, <1>9, <1>10, <1>11, <1>12, <1>13, <1>15

LEMMA ParamLists ==
    /\ \A x \in FieldLists : \A t \in ListOf(x) : t[1] = "PARAM"
    /\ \A t \in ListOf(<<"ecpri_types">>) : t[1] = "ECPRI"
    /\ \A t \in ListOf(<<"rss_funcs">>) : t[1] = "RSS_FUNC"
    /\ <<"PARAM", "prefix">> \notin ListOf(<<"raw_param">>)
<1>1. \A x \in {"item_param", "raw_param", "tag_param"} : \A t \in GrammarLists[x] : t[1] = "PARAM"
  BY DEF GrammarLists, item_param
<1>2. \A t \in GrammarLists["ecpri_types"] : t[1] = "ECPRI"
  BY DEF GrammarLists
<1>3. \A t \in GrammarLists["rss_funcs"] : t[1] = "RSS_FUNC"
  BY DEF GrammarLists
<1>4. <<"PARAM", "prefix">> \notin GrammarLists["raw_param"]
  BY DEF GrammarLists
<1> QED
  BY <1>1, <1>2, <1>3, <1>4, CommandListsAre, ListNames DEF FieldLists

\* The words at the values of each kind
LEMMA OutTop ==
    ASSUME NEW n, NEW p, OutValues(n, p), NEW t \in ListOf(Last(n))
    PROVE  t[1] \in OutTops \cup {"SET_RAW_INDEX", "ITEM", "FILE_PATH", "END"}
<1>1. Last(n) \in {<<"next_dump_attr">>, <<"next_set_raw">>} \/ \E w \in OutTops : Last(n) = <<w>>
  BY TopOfOne, TopOfTwo, TopOfThree DEF OutValues, OutTops
<1>2. OutTops \subseteq SingleLists
  BY DEF OutTops, SingleLists, Kinds, Bool
<1> QED
  BY <1>1, <1>2, MixedListsAre, SinglesAre

LEMMA IdTop ==
    ASSUME NEW g, NEW n, NEW p, NEW q, NEW o, AtId(g, n, p, q, o)
    PROVE  \/ n = << <<"next_destroy_attr">>, <<"RULE_ID">> >> /\ p = <<Place(<<"id">>, "rule")>>
           \/ n = << <<"next_list_attr">>, <<"GROUP_ID">> >> /\ p = <<Place(<<"id">>, "group")>>
           \/ n = << <<"next_sa_destroy_attr">>, <<"SHARED_ACTION_ID">> >> /\ p = <<Place(<<"id">>, "action_id")>>
BY AttributeTurns, SharedTurns DEF AtId, IdWords

LEMMA NamedTop ==
    ASSUME NEW g, NEW n, NEW p, NEW q, NEW o, AtNamed(g, n, p, q, o)
    PROVE  \/ /\ n = << <<"next_vc_attr">>, <<"GROUP_ID">> >>
              /\ p = <<Place(<<"attr">>, "group")>>
              /\ q = <<"GROUP">>
              /\ Points(g, o, <<"attr">>)
           \/ /\ n = << <<"next_vc_attr">>, <<"PRIORITY_LEVEL">> >>
              /\ p = <<Place(<<"attr">>, "priority")>>
              /\ q = <<"PRIORITY">>
              /\ Points(g, o, <<"attr">>)
           \/ /\ n = << <<"next_vc_attr">>, <<"UNSIGNED">> >>
              /\ p = <<Place(<<"tunnel_ops">>, "id")>>
              /\ q \in {<<"TUNNEL_SET">>, <<"TUNNEL_MATCH">>}
              /\ Points(g, o, <<"tunnel_ops">>)
           \/ /\ n = << <<"UNSIGNED">> >>
              /\ p = <<Place(<<"tunnel_ops">>, "id")>>
              /\ q = <<"TUNNEL_DESTROY_ID">>
              /\ Points(g, o, <<"tunnel_ops">>)
           \/ /\ n = << <<"FILE_PATH">> >>
              /\ p = <<Place(<<"tunnel_ops">>, "type")>>
              /\ q = <<"TUNNEL_CREATE_TYPE">>
              /\ Points(g, o, <<"tunnel_ops">>)
<1>1. PICK w \in NamedWords : /\ n = Next_(<<w>>) /\ p = Args_(<<w>>) /\ q = <<w>>
                              /\ Points(g, o, IF w \in {"GROUP", "PRIORITY"} THEN <<"attr">> ELSE <<"tunnel_ops">>)
  BY DEF AtNamed
<1>2. w \in {"GROUP", "PRIORITY", "TUNNEL_SET", "TUNNEL_MATCH", "TUNNEL_CREATE_TYPE", "TUNNEL_DESTROY_ID"}
  BY DEF NamedWords
<1> QED
  BY <1>1, <1>2, AttributeTurns

\* Which kind of place the word at the top tells
LEMMA WordTellsShape ==
    ASSUME NEW g, NEW n, NEW p, NEW q, NEW o, NEW d, Shape(g, n, p, q, o, d), n # <<>>, NEW t \in ListOf(Last(n))
    PROVE  \/ \E l : /\ n = <<l>> /\ Last(n) = l /\ p = <<>> /\ q = Nothing /\ RestList(g, l, o, d)
                     /\ t[1] \notin ValueNames
           \/ AtOut(g, n, p, q, o) /\ t[1] \in OutTops \cup {"SET_RAW_INDEX", "ITEM", "FILE_PATH", "END"}
           \/ AtId(g, n, p, q, o) /\ t[1] \in {"RULE_ID", "GROUP_ID", "SHARED_ACTION_ID"}
           \/ AtNamed(g, n, p, q, o) /\ t[1] \in {"GROUP_ID", "PRIORITY_LEVEL", "UNSIGNED", "FILE_PATH"}
           \/ AtParam(g, n, p, q, d) /\ t[1] = "PARAM"
           \/ AtItem(g, n, p, q, o, d) /\ t[1] \in Kinds \cup {"STRING", "PREFIX"}
           \/ AtType(g, n, p, q, d) /\ t[1] = "ECPRI"
           \/ AtAction(g, n, p, q, o, d) /\ t[1] \in Kinds \cup {"HEX"}
           \/ AtRss(g, n, p, q, o, d) /\ t[1] \in {"RSS_FUNC", "RSS_TYPE", "RSS_QUEUE"}
           \/ AtIndex(g, n, p, q, o) /\ t[1] = "INDEX"
           \/ AtShared(n, p, q) /\ t[1] = "SHARED_ACTION_ID2PTR"
<1>1. AtRest(g, n, p, q, o, d) => \E l : /\ n = <<l>> /\ Last(n) = l /\ p = <<>> /\ q = Nothing /\ RestList(g, l, o, d)
                                         /\ t[1] \notin ValueNames
  BY NoValueAtRest, TopOfOne DEF AtRest
<1>2. AtOut(g, n, p, q, o) => t[1] \in OutTops \cup {"SET_RAW_INDEX", "ITEM", "FILE_PATH", "END"}
  BY OutTop DEF AtOut
<1>3. AtId(g, n, p, q, o) => t[1] \in {"RULE_ID", "GROUP_ID", "SHARED_ACTION_ID"}
  <2> SUFFICES ASSUME AtId(g, n, p, q, o) PROVE t[1] \in {"RULE_ID", "GROUP_ID", "SHARED_ACTION_ID"}
    OBVIOUS
  <2>1. \E w \in {"RULE_ID", "GROUP_ID", "SHARED_ACTION_ID"} : Last(n) = <<w>>
    BY IdTop, TopOfTwo
  <2>2. {"RULE_ID", "GROUP_ID", "SHARED_ACTION_ID"} \subseteq SingleLists
    BY DEF SingleLists
  <2> QED
    BY <2>1, <2>2, SinglesAre
<1>4. AtNamed(g, n, p, q, o) => t[1] \in {"GROUP_ID", "PRIORITY_LEVEL", "UNSIGNED", "FILE_PATH"}
  <2> SUFFICES ASSUME AtNamed(g, n, p, q, o) PROVE t[1] \in {"GROUP_ID", "PRIORITY_LEVEL", "UNSIGNED", "FILE_PATH"}
    OBVIOUS
  <2>1. \E w \in {"GROUP_ID", "PRIORITY_LEVEL", "UNSIGNED", "FILE_PATH"} : Last(n) = <<w>>
    BY NamedTop, TopOfTwo, TopOfOne
  <2>2. {"GROUP_ID", "PRIORITY_LEVEL", "UNSIGNED", "FILE_PATH"} \subseteq SingleLists
    BY DEF SingleLists, Kinds, Uns
  <2> QED
    BY <2>1, <2>2, SinglesAre
<1>5. AtParam(g, n, p, q, d) => t[1] = "PARAM"
  BY ParamLists, TopOfThree DEF AtParam, FieldLists
<1>6. Kinds \cup {"STRING", "PREFIX", "HEX"} \subseteq SingleLists
  BY DEF SingleLists
<1>7. AtItem(g, n, p, q, o, d) => t[1] \in Kinds \cup {"STRING", "PREFIX"}
  BY <1>6, SinglesAre, TopOfTwo DEF AtItem, ItemValue
<1>8. AtType(g, n, p, q, d) => t[1] = "ECPRI"
  BY ParamLists, TopOfOne DEF AtType
<1>9. AtAction(g, n, p, q, o, d) => t[1] \in Kinds \cup {"HEX"}
  BY <1>6, SinglesAre, TopOfTwo DEF AtAction
<1>10. AtRss(g, n, p, q, o, d) => t[1] \in {"RSS_FUNC", "RSS_TYPE", "RSS_QUEUE"}
  <2> SUFFICES ASSUME AtRss(g, n, p, q, o, d) PROVE t[1] \in {"RSS_FUNC", "RSS_TYPE", "RSS_QUEUE"}
    OBVIOUS
  <2>1. Last(n) \in {<<"rss_funcs">>, <<"RSS_TYPE">>, <<"RSS_QUEUE">>}
    BY TopOfTwo DEF AtRss, RssList
  <2>2. {"RSS_TYPE", "RSS_QUEUE"} \subseteq SingleLists
    BY DEF SingleLists
  <2> QED
    BY <2>1, <2>2, SinglesAre, ParamLists
<1>11. AtIndex(g, n, p, q, o) => t[1] = "INDEX"
  BY SinglesAre, TopOfOne DEF AtIndex
<1>12. AtShared(n, p, q) => t[1] = "SHARED_ACTION_ID2PTR"
  BY SinglesAre, TopOfOne DEF AtShared, SingleLists
<1> QED
  BY <1>1, <1>2, <1>3, <1>4, <1>5, <1>7, <1>8, <1>9, <1>10, <1>11, <1>12 DEF Shape

LEMMA OneTaken == ASSUME NEW x PROVE Taken(<<x>>, <<>>, x)
BY DEF Taken

LEMMA TwoTaken == ASSUME NEW x, NEW y PROVE Taken(<<y, x>>, <<y>>, x)
BY DEF Taken

LEMMA NotHeeded ==
    /\ {"next_dump_attr", "QUERY_ACTION", "BOOLEAN", "UNSIGNED", "FILE_PATH", "PORT_ID"} \cap HeededNames = {}
    /\ {"next_destroy_attr", "next_list_attr", "next_aged_attr", "next_sa_destroy_attr", "END"} \cap HeededNames = {}
BY DEF HeededNames, StartNames, ItemLists, EntryLists

\* An option or an identifier in the buffer
LEMMA OptionStays ==
    ASSUME NEW g, NEW n, NEW p, NEW q, NEW o, NEW d, AtOut(g, n, p, q, o), NEW v \in SimpleValues, <<v>> \in ListOf(Last(n))
    PROVE  \E r, x : ValueFits(g, n, p, q, o, d, <<v>>, Front(n), r, x)
<1>1. Points(g, o, <<"out">>)
  BY DEF AtOut
<1>2. \A f : Out(f).of = <<"out">> /\ Out(f).field = f
  BY DEF Out, Place
<1>3. ASSUME NEW r, NEW f, Taken(p, r, Out(f)), Shape(g, Front(n), r, Nothing, o, d), BottomStays(n, Front(n)),
             f \in Meant([by |-> <<v>>, place |-> Out(f), object |-> o, asked |-> q])
      PROVE  ValueFits(g, n, p, q, o, d, <<v>>, Front(n), r, Out(f))
  BY <1>1, <1>2, <1>3 DEF ValueFits, Follows, Points
<1>4. \A w \in SingleLists : Last(n) = <<w>> => v = w
  <2> SUFFICES ASSUME NEW w \in SingleLists, Last(n) = <<w>> PROVE v = w
    OBVIOUS
  <2>1. <<v>>[1] = <<w>>[1]
    BY SinglesAre
  <2> QED
    BY <2>1
<1>5. v \notin {"PORT_ID", "SET_SAMPLE_INDEX", "SET_RAW_INDEX", "END", "ITEM"}
  BY DEF SimpleValues, Uns, Bool, Mac, Ip4, Ip6
<1>6. {"PORT_ID", "SET_SAMPLE_INDEX", "SHARED_ACTION_ID", "RULE_ID", "QUERY_ACTION", "BOOLEAN"} \subseteq SingleLists
  BY DEF SingleLists, Kinds, Bool
<1>7. CASE Last(n) \in {<<"PORT_ID">>, <<"SET_SAMPLE_INDEX">>}
  BY <1>4, <1>5, <1>6, <1>7
<1>8. CASE Last(n) = <<"next_set_raw">>
  <2>1. <<v>> \in {<<"SET_RAW_INDEX">>, <<"ITEM", "eth">>}
    BY <1>8, MixedListsAre
  <2>2. <<v>>[1] \in {"SET_RAW_INDEX", "ITEM"}
    BY <2>1
  <2> QED
    BY <1>5, <2>2
<1>9. ASSUME NEW m, NEW r, OutValues(m, r)
      PROVE  Shape(g, m, r, Nothing, o, d)
  BY <1>1, <1>9 DEF Shape, AtOut
<1>10. CASE n = << <<"next_dump_attr">> >> /\ p = <<Out("file")>>
  <2>1. Last(n) = <<"next_dump_attr">> /\ Front(n) = <<>>
    BY <1>10, TopOfOne
  <2>2. <<v>> \in {<<"FILE_PATH">>, <<"END">>}
    BY <2>1, MixedListsAre
  <2>3. <<v>>[1] = "FILE_PATH"
    BY <1>5, <2>2
  <2>4. "file" \in Meant([by |-> <<v>>, place |-> Out("file"), object |-> o, asked |-> q])
    BY <2>3 DEF Meant
  <2>5. BottomStays(n, Front(n))
    BY <1>10, <2>1, NotHeeded DEF BottomStays
  <2> QED
    BY <1>3, <1>10, <2>1, <2>4, <2>5, OneTaken, NoneLeft
<1>11. CASE n = << <<"QUERY_ACTION">>, <<"RULE_ID">> >> /\ p = <<Out("action"), Out("rule")>>
  <2>1. Last(n) = <<"RULE_ID">> /\ Front(n) = << <<"QUERY_ACTION">> >>
    BY <1>11, TopOfTwo
  <2>2. v = "RULE_ID"
    BY <1>4, <1>6, <2>1
  <2>3. "rule" \in Meant([by |-> <<v>>, place |-> Out("rule"), object |-> o, asked |-> q])
    BY <2>2 DEF Meant
  <2>4. BottomStays(n, Front(n))
    BY <1>11, <2>1 DEF BottomStays
  <2>5. Shape(g, Front(n), <<Out("action")>>, Nothing, o, d)
    BY <1>9, <2>1 DEF OutValues
  <2> QED
    BY <1>3, <1>11, <2>3, <2>4, <2>5, TwoTaken
<1>12. CASE n = << <<"QUERY_ACTION">> >> /\ p = <<Out("action")>>
  <2>1. Last(n) = <<"QUERY_ACTION">> /\ Front(n) = <<>>
    BY <1>12, TopOfOne
  <2>2. v = "QUERY_ACTION"
    BY <1>4, <1>6, <2>1
  <2>3. "action" \in Meant([by |-> <<v>>, place |-> Out("action"), object |-> o, asked |-> q])
    BY <2>2 DEF Meant
  <2>4. BottomStays(n, Front(n))
    BY <1>12, <2>1, NotHeeded DEF BottomStays
  <2> QED
    BY <1>3, <1>12, <2>1, <2>3, <2>4, OneTaken, NoneLeft
<1>13. CASE n = << <<"BOOLEAN">> >> /\ p = <<Out("set")>>
  <2>1. Last(n) = <<"BOOLEAN">> /\ Front(n) = <<>>
    BY <1>13, TopOfOne
  <2>2. v = "BOOLEAN"
    BY <1>4, <1>6, <2>1
  <2>3. n # << <<"BOOLEAN">>, <<"PORT_ID">> >>
    BY <1>13, TopOfOne, TopOfTwo
  <2>4. q = Nothing
    BY <2>3 DEF AtOut
  <2>5. "set" \in Meant([by |-> <<v>>, place |-> Out("set"), object |-> o, asked |-> q])
    BY <1>2, <2>2, <2>4 DEF Meant
  <2>6. BottomStays(n, Front(n))
    BY <1>13, <2>1, NotHeeded DEF BottomStays
  <2> QED
    BY <1>3, <1>13, <2>1, <2>5, <2>6, OneTaken, NoneLeft
<1>14. ASSUME NEW y \in {"SHARED_ACTION_SPEC", "next_sa_create_attr", "END"}, NEW f \in {"group", "action_id"},
              n = << <<y>>, <<"SHARED_ACTION_ID">> >>, p = <<Out(f)>>
       PROVE  \E r, x : ValueFits(g, n, p, q, o, d, <<v>>, Front(n), r, x)
  <2>1. Last(n) = <<"SHARED_ACTION_ID">> /\ Front(n) = << <<y>> >>
    BY <1>14, TopOfTwo
  <2>2. v = "SHARED_ACTION_ID"
    BY <1>4, <1>6, <2>1
  <2>3. f \in Meant([by |-> <<v>>, place |-> Out(f), object |-> o, asked |-> q])
    BY <2>2 DEF Meant
  <2>4. BottomStays(n, Front(n))
    BY <1>14, <2>1 DEF BottomStays
  <2>5. Shape(g, << <<y>> >>, <<>>, Nothing, o, d)
    <3>1. y \in RestNames
      BY DEF RestNames
    <3> QED
      BY <1>1, <3>1, NextIsRest
  <2> QED
    BY <1>3, <1>14, <2>1, <2>3, <2>4, <2>5, OneTaken
<1>15. OutValues(n, p)
  BY DEF AtOut
<1>16. \/ Last(n) \in {<<"PORT_ID">>, <<"SET_SAMPLE_INDEX">>, <<"next_set_raw">>}
       \/ n = << <<"next_dump_attr">> >> /\ p = <<Out("file")>>
       \/ n = << <<"QUERY_ACTION">>, <<"RULE_ID">> >> /\ p = <<Out("action"), Out("rule")>>
       \/ n = << <<"QUERY_ACTION">> >> /\ p = <<Out("action")>>
       \/ n = << <<"BOOLEAN">> >> /\ p = <<Out("set")>>
       \/ \E y \in {"SHARED_ACTION_SPEC", "next_sa_create_attr"} : n = << <<y>>, <<"SHARED_ACTION_ID">> >> /\ p = <<Out("group")>>
       \/ n = << <<"END">>, <<"SHARED_ACTION_ID">> >> /\ p = <<Out("action_id")>>
  BY <1>15, TopOfOne, TopOfTwo, TopOfThree DEF OutValues
<1> QED
  BY <1>7, <1>8, <1>10, <1>11, <1>12, <1>13, <1>14, <1>16

\* Another identifier
LEMMA IdentifierStays ==
    ASSUME NEW g, NEW n, NEW p, NEW q, NEW o, NEW d, AtId(g, n, p, q, o), NEW v \in SimpleValues, <<v>> \in ListOf(Last(n))
    PROVE  \E r, x : ValueFits(g, n, p, q, o, d, <<v>>, Front(n), r, x)
<1>1. ASSUME NEW l \in {"next_destroy_attr", "next_list_attr", "next_sa_destroy_attr"},
             NEW w \in {"RULE_ID", "GROUP_ID", "SHARED_ACTION_ID"}, NEW f,
             n = << <<l>>, <<w>> >>, p = <<Place(<<"id">>, f)>>,
             w = "RULE_ID" => f = "rule", w = "SHARED_ACTION_ID" => f = "action_id"
      PROVE  \E r, x : ValueFits(g, n, p, q, o, d, <<v>>, Front(n), r, x)
  <2> DEFINE x == Place(<<"id">>, f)
  <2>1. x.of = <<"id">> /\ x.field = f
    BY DEF Place
  <2>2. Last(n) = <<w>> /\ Front(n) = << <<l>> >>
    BY <1>1, TopOfTwo
  <2>3. v = w
    <3>1. w \in SingleLists
      BY DEF SingleLists
    <3>2. <<v>>[1] = <<w>>[1]
      BY <2>2, <3>1, SinglesAre
    <3> QED
      BY <3>2
  <2>4. q = Nothing /\ (g => x.of = o)
    BY <2>1 DEF AtId, Points
  <2>5. x.field \in Meant([by |-> <<v>>, place |-> x, object |-> o, asked |-> q])
    BY <1>1, <2>1, <2>3, <2>4 DEF Meant
  <2>6. BottomStays(n, Front(n))
    BY <1>1, <2>2 DEF BottomStays
  <2>7. Shape(g, << <<l>> >>, <<>>, Nothing, o, d)
    <3>1. l \in RestNames
      BY DEF RestNames
    <3> QED
      BY <1>1, <3>1, NextIsRest
  <2>8. Taken(p, <<>>, x)
    BY <1>1, OneTaken
  <2> HIDE DEF x
  <2> QED
    BY <2>2, <2>4, <2>5, <2>6, <2>7, <2>8 DEF ValueFits, Follows
<1> QED
  BY <1>1, IdTop

\* A value that its word names
LEMMA NamedStays ==
    ASSUME NEW g, NEW n, NEW p, NEW q, NEW o, NEW d, AtNamed(g, n, p, q, o), NEW v \in SimpleValues,
           <<v>> \in ListOf(Last(n))
    PROVE  \E r, x : ValueFits(g, n, p, q, o, d, <<v>>, Front(n), r, x)
<1> DEFINE Sets == {<<"TUNNEL_SET">>, <<"TUNNEL_MATCH">>, <<"TUNNEL_DESTROY_ID">>}
           Leaves == \/ Front(n) = << <<"next_vc_attr">> >> /\ n[1] = <<"next_vc_attr">>
                     \/ Front(n) = <<>> /\ n[1][1] \in {"UNSIGNED", "FILE_PATH"}
           Asks(w, f) == \/ w = "GROUP_ID" /\ q = <<"GROUP">> /\ f = "group"
                         \/ w = "PRIORITY_LEVEL" /\ q = <<"PRIORITY">> /\ f = "priority"
                         \/ w = "UNSIGNED" /\ q \in Sets /\ f = "id"
                         \/ w = "FILE_PATH" /\ f = "type"
<1>1. ASSUME NEW w \in {"GROUP_ID", "PRIORITY_LEVEL", "UNSIGNED", "FILE_PATH"}, NEW b, NEW f,
             p = <<Place(b, f)>>, Points(g, o, b), Last(n) = <<w>>, Leaves, Asks(w, f)
      PROVE  \E r, x : ValueFits(g, n, p, q, o, d, <<v>>, Front(n), r, x)
  <2> DEFINE x == Place(b, f)
  <2>1. x.of = b /\ x.field = f
    BY DEF Place
  <2>2. v = w
    <3>1. w \in SingleLists
      BY DEF SingleLists, Kinds, Uns
    <3>2. <<v>>[1] = <<w>>[1]
      BY <1>1, <3>1, SinglesAre
    <3> QED
      BY <3>2
  <2>3. g => x.of = o
    BY <1>1, <2>1 DEF Points
  <2>4. x.field \in Meant([by |-> <<v>>, place |-> x, object |-> o, asked |-> q])
    <3>1. CASE w = "GROUP_ID" /\ q = <<"GROUP">> /\ f = "group"
      BY <2>1, <2>2, <3>1 DEF Meant, Nothing
    <3>2. CASE w = "PRIORITY_LEVEL" /\ q = <<"PRIORITY">> /\ f = "priority"
      BY <2>1, <2>2, <3>2 DEF Meant, Nothing
    <3>3. CASE w = "UNSIGNED" /\ q \in Sets /\ f = "id"
      BY <2>1, <2>2, <3>3 DEF Meant, Nothing
    <3>4. CASE w = "FILE_PATH" /\ f = "type"
      BY <2>1, <2>2, <3>4 DEF Meant
    <3> QED
      BY <1>1, <3>1, <3>2, <3>3, <3>4
  <2>5. BottomStays(n, Front(n))
    BY <1>1, NotHeeded DEF BottomStays
  <2>6. Shape(g, Front(n), <<>>, Nothing, o, d)
    <3>1. "next_vc_attr" \in RestNames
      BY DEF RestNames
    <3> QED
      BY <1>1, <3>1, NextIsRest, NoneLeft
  <2>7. Taken(p, <<>>, x)
    BY <1>1, OneTaken
  <2> HIDE DEF x
  <2> QED
    BY <2>3, <2>4, <2>5, <2>6, <2>7 DEF ValueFits, Follows
<1> HIDE DEF Leaves, Asks
<1>2. CASE /\ n = << <<"next_vc_attr">>, <<"GROUP_ID">> >>
           /\ p = <<Place(<<"attr">>, "group")>>
           /\ q = <<"GROUP">>
           /\ Points(g, o, <<"attr">>)
  <2>1. Last(n) = <<"GROUP_ID">> /\ Front(n) = << <<"next_vc_attr">> >> /\ n[1] = <<"next_vc_attr">>
    BY <1>2, TopOfTwo
  <2>2. Leaves /\ Asks("GROUP_ID", "group")
    BY <1>2, <2>1 DEF Leaves, Asks
  <2> QED
    BY <1>1, <1>2, <2>1, <2>2
<1>3. CASE /\ n = << <<"next_vc_attr">>, <<"PRIORITY_LEVEL">> >>
           /\ p = <<Place(<<"attr">>, "priority")>>
           /\ q = <<"PRIORITY">>
           /\ Points(g, o, <<"attr">>)
  <2>1. Last(n) = <<"PRIORITY_LEVEL">> /\ Front(n) = << <<"next_vc_attr">> >> /\ n[1] = <<"next_vc_attr">>
    BY <1>3, TopOfTwo
  <2>2. Leaves /\ Asks("PRIORITY_LEVEL", "priority")
    BY <1>3, <2>1 DEF Leaves, Asks
  <2> QED
    BY <1>1, <1>3, <2>1, <2>2
<1>4. CASE /\ n = << <<"next_vc_attr">>, <<"UNSIGNED">> >>
           /\ p = <<Place(<<"tunnel_ops">>, "id")>>
           /\ q \in {<<"TUNNEL_SET">>, <<"TUNNEL_MATCH">>}
           /\ Points(g, o, <<"tunnel_ops">>)
  <2>1. Last(n) = <<"UNSIGNED">> /\ Front(n) = << <<"next_vc_attr">> >> /\ n[1] = <<"next_vc_attr">>
    BY <1>4, TopOfTwo
  <2>2. Leaves /\ Asks("UNSIGNED", "id")
    BY <1>4, <2>1 DEF Leaves, Asks
  <2> QED
    BY <1>1, <1>4, <2>1, <2>2
<1>5. CASE /\ n = << <<"UNSIGNED">> >>
           /\ p = <<Place(<<"tunnel_ops">>, "id")>>
           /\ q = <<"TUNNEL_DESTROY_ID">>
           /\ Points(g, o, <<"tunnel_ops">>)
  <2>1. Last(n) = <<"UNSIGNED">> /\ Front(n) = <<>> /\ n[1][1] = "UNSIGNED"
    BY <1>5, TopOfOne
  <2>2. Leaves /\ Asks("UNSIGNED", "id")
    BY <1>5, <2>1 DEF Leaves, Asks
  <2> QED
    BY <1>1, <1>5, <2>1, <2>2
<1>6. CASE /\ n = << <<"FILE_PATH">> >>
           /\ p = <<Place(<<"tunnel_ops">>, "type")>>
           /\ q = <<"TUNNEL_CREATE_TYPE">>
           /\ Points(g, o, <<"tunnel_ops">>)
  <2>1. Last(n) = <<"FILE_PATH">> /\ Front(n) = <<>> /\ n[1][1] = "FILE_PATH"
    BY <1>6, TopOfOne
  <2>2. Leaves /\ Asks("FILE_PATH", "type")
    BY <1>6, <2>1 DEF Leaves, Asks
  <2> QED
    BY <1>1, <1>6, <2>1, <2>2
<1> QED
  BY <1>2, <1>3, <1>4, <1>5, <1>6, NamedTop

LEMMA KindsAre ==
    /\ "STRING" \notin Kinds /\ "HEX" \notin Kinds /\ "PREFIX" \notin Kinds
    /\ "STRING" \notin SimpleValues /\ "HEX" \notin SimpleValues
BY DEF Kinds, SimpleValues, Uns, Bool, Mac, Ip4, Ip6

\* A field of an item or an action: its value and the list after it
LEMMA FieldFollows ==
    ASSUME NEW g, NEW n, NEW q, NEW o, NEW d, NEW l, NEW w \in SingleLists, n = <<l, <<w>>>>, RestList(g, l, o, d),
           NEW v, <<v>> \in ListOf(Last(n)),
           w \in Kinds \cup {"STRING", "HEX", "PREFIX"},
           NEW data, NEW f, Points(g, o, data),
           q = Nothing \/ (Len(q) = 3 /\ q[3] = f /\ q # Nothing)
    PROVE  v = w /\ Follows(g, n, q, o, d, <<v>>, Front(n), <<>>, Place(data, f))
<1> DEFINE x == Place(data, f)
<1>1. x.of = data /\ x.field = f
  BY DEF Place
<1>2. Last(n) = <<w>> /\ Front(n) = <<l>>
  BY TopOfTwo
<1>3. v = w
  <2>1. <<v>>[1] = <<w>>[1]
    BY <1>2, SinglesAre
  <2> QED
    BY <2>1
<1>4. g => x.of = o
  BY <1>1 DEF Points
<1>5. v \notin {"PORT_ID", "SET_RAW_INDEX", "SET_SAMPLE_INDEX", "RULE_ID", "QUERY_ACTION", "SHARED_ACTION_ID", "FILE_PATH"}
  BY <1>3 DEF Kinds, Uns, Bool, Mac, Ip4, Ip6
<1>6. x.field \in Meant([by |-> <<v>>, place |-> x, object |-> o, asked |-> q])
  BY <1>1, <1>5 DEF Meant
<1>7. BottomStays(n, Front(n))
  BY <1>2 DEF BottomStays
<1>8. Shape(g, <<l>>, <<>>, Nothing, o, d)
  BY DEF Shape, AtRest
<1> HIDE DEF x
<1>9. Follows(g, n, q, o, d, <<v>>, Front(n), <<>>, x)
  BY <1>2, <1>4, <1>6, <1>7, <1>8 DEF Follows
<1> QED
  BY <1>3, <1>9 DEF x

LEMMA ItemFieldStays ==
    ASSUME NEW g, NEW n, NEW p, NEW q, NEW o, NEW d, AtItem(g, n, p, q, o, d), NEW v, <<v>> \in ListOf(Last(n))
    PROVE  \E data, f : /\ p = PlacesOf(data, f, v)
                        /\ Follows(g, n, q, o, d, <<v>>, Front(n), <<>>, Place(data, f))
<1> PICK i \in DOMAIN ItemFields : \E f, l, w : n = <<l, <<w>>>> /\ ItemValue(g, l, w, p, q, d, i, f) /\ Points(g, o, ItemData(i))
  BY DEF AtItem
<1> PICK f, l, w : n = <<l, <<w>>>> /\ ItemValue(g, l, w, p, q, d, i, f) /\ Points(g, o, ItemData(i))
  OBVIOUS
<1>1. w \in Kinds \cup {"STRING", "PREFIX"} /\ p = PlacesOf(ItemData(i), f, w)
  BY DEF ItemValue
<1>2. w \in SingleLists
  BY <1>1 DEF SingleLists
<1>3. RestList(g, l, o, d)
  BY DEF ItemValue, RestList
<1>4. q = Nothing \/ (Len(q) = 3 /\ q[3] = f /\ q # Nothing)
  BY DEF ItemValue, Nothing
<1>5. n = <<l, <<w>>>> /\ Points(g, o, ItemData(i)) /\ w \in Kinds \cup {"STRING", "HEX", "PREFIX"}
  BY <1>1
<1>6. v = w /\ Follows(g, n, q, o, d, <<v>>, Front(n), <<>>, Place(ItemData(i), f))
  BY <1>1, <1>2, <1>3, <1>4, <1>5, FieldFollows
<1> QED
  BY <1>1, <1>6

LEMMA ActionFieldStays ==
    ASSUME NEW g, NEW n, NEW p, NEW q, NEW o, NEW d, AtAction(g, n, p, q, o, d), NEW v, <<v>> \in ListOf(Last(n))
    PROVE  \E data, f : /\ p = PlacesOf(data, f, v)
                        /\ Follows(g, n, q, o, d, <<v>>, Front(n), <<>>, Place(data, f))
<1> PICK a \in DOMAIN ActionFields : \E f, w : /\ n = << <<"AFTER_ACTION", a>>, <<w>> >>
                                               /\ w \in Kinds \cup {"HEX"}
                                               /\ p = PlacesOf(ActionData(a), f, w)
                                               /\ q = <<"ACTION", a, f>>
                                               /\ Of(g, d, ActionData(a)) /\ Points(g, o, ActionData(a))
  BY DEF AtAction
<1> PICK f, w : /\ n = << <<"AFTER_ACTION", a>>, <<w>> >>
                /\ w \in Kinds \cup {"HEX"}
                /\ p = PlacesOf(ActionData(a), f, w)
                /\ q = <<"ACTION", a, f>>
                /\ Of(g, d, ActionData(a)) /\ Points(g, o, ActionData(a))
  OBVIOUS
<1>2. w \in SingleLists
  BY DEF SingleLists
<1>3. RestList(g, <<"AFTER_ACTION", a>>, o, d)
  BY DEF RestList
<1>4. q = Nothing \/ (Len(q) = 3 /\ q[3] = f /\ q # Nothing)
  BY DEF Nothing
<1>5. /\ n = << <<"AFTER_ACTION", a>>, <<w>> >>
      /\ Points(g, o, ActionData(a))
      /\ w \in Kinds \cup {"STRING", "HEX", "PREFIX"}
  OBVIOUS
<1>6. v = w /\ Follows(g, n, q, o, d, <<v>>, Front(n), <<>>, Place(ActionData(a), f))
  BY <1>2, <1>3, <1>4, <1>5, FieldFollows
<1> QED
  BY <1>6

\* Every value of one place
LEMMA IntStays ==
    ASSUME NEW g, NEW n, NEW p, NEW q, NEW o, NEW d, Shape(g, n, p, q, o, d), n # <<>>,
           NEW v \in SimpleValues, <<v>> \in ListOf(Last(n))
    PROVE  \E r, x : ValueFits(g, n, p, q, o, d, <<v>>, Front(n), r, x)
<1>1. /\ <<v>>[1] \in ValueNames
      /\ <<v>>[1] \notin {"PARAM", "ECPRI", "RSS_FUNC", "RSS_TYPE", "RSS_QUEUE", "INDEX", "SHARED_ACTION_ID2PTR"}
  BY DEF ValueNames, SimpleValues, Uns, Bool, Mac, Ip4, Ip6
<1>2. \/ AtOut(g, n, p, q, o)
      \/ AtId(g, n, p, q, o)
      \/ AtNamed(g, n, p, q, o)
      \/ AtItem(g, n, p, q, o, d)
      \/ AtAction(g, n, p, q, o, d)
  BY <1>1, WordTellsShape
<1>3. ASSUME NEW data, NEW f, p = PlacesOf(data, f, v), Follows(g, n, q, o, d, <<v>>, Front(n), <<>>, Place(data, f))
      PROVE  ValueFits(g, n, p, q, o, d, <<v>>, Front(n), <<>>, Place(data, f))
  BY <1>3, KindsAre, OneTaken DEF PlacesOf, ValueFits
<1>4. AtOut(g, n, p, q, o) => \E r, x : ValueFits(g, n, p, q, o, d, <<v>>, Front(n), r, x)
  BY OptionStays
<1>5. AtId(g, n, p, q, o) => \E r, x : ValueFits(g, n, p, q, o, d, <<v>>, Front(n), r, x)
  BY IdentifierStays
<1>6. AtNamed(g, n, p, q, o) => \E r, x : ValueFits(g, n, p, q, o, d, <<v>>, Front(n), r, x)
  BY NamedStays
<1>7. ASSUME AtItem(g, n, p, q, o, d) \/ AtAction(g, n, p, q, o, d)
      PROVE  \E r, x : ValueFits(g, n, p, q, o, d, <<v>>, Front(n), r, x)
  <2>1. \E data, f : /\ p = PlacesOf(data, f, v)
                     /\ Follows(g, n, q, o, d, <<v>>, Front(n), <<>>, Place(data, f))
    BY <1>7, ItemFieldStays, ActionFieldStays
  <2> QED
    BY <1>3, <2>1
<1> QED
  BY <1>2, <1>4, <1>5, <1>6, <1>7

\* The stacks above those that are kept are short.
Short(s) == s = <<>> \/ (\E a : s = <<a>>) \/ (\E a, b : s = <<a, b>>) \/ (\E a, b, c : s = <<a, b, c>>)

LEMMA ShortIsSeq == ASSUME NEW s, Short(s) PROVE \E T : s \in Seq(T)
<1>1. ASSUME NEW a, s = <<a>> PROVE s \in Seq({a})
  BY <1>1
<1>2. ASSUME NEW a, NEW b, s = <<a, b>> PROVE s \in Seq({a, b})
  BY <1>2
<1>3. ASSUME NEW a, NEW b, NEW c, s = <<a, b, c>> PROVE s \in Seq({a, b, c})
  BY <1>3
<1>4. s = <<>> => s \in Seq({})
  OBVIOUS
<1> QED
  BY <1>1, <1>2, <1>3, <1>4 DEF Short

LEMMA ShortOnTop ==
    ASSUME NEW S, NEW base \in Seq(S), NEW s, Short(s)
    PROVE  s \o <<>> = s /\ (base \o s) \o <<>> = base \o s
<1> PICK T : s \in Seq(T)
  BY ShortIsSeq
<1>1. base \in Seq(S \cup T) /\ s \in Seq(S \cup T)
  OBVIOUS
<1>2. base \o s \in Seq(S \cup T)
  BY <1>1
<1> HIDE DEF Short
<1> QED
  BY <1>2, NoneOnTop

LEMMA ShortOnes ==
    /\ Short(<<>>)
    /\ \A a : Short(<<a>>)
    /\ \A a, b : Short(<<a, b>>)
    /\ \A a, b, c : Short(<<a, b, c>>)
BY DEF Short

LEMMA ShapeIsShort ==
    ASSUME NEW g, NEW n, NEW p, NEW q, NEW o, NEW d, Shape(g, n, p, q, o, d)
    PROVE  Short(n) /\ Short(p)
<1>1. \A data, f, v : Short(PlacesOf(data, f, v))
  BY ShortOnes DEF PlacesOf
<1>2. AtRest(g, n, p, q, o, d) => Short(n) /\ Short(p)
  BY ShortOnes DEF AtRest
<1>3. AtOut(g, n, p, q, o) => Short(n) /\ Short(p)
  BY ShortOnes DEF AtOut, OutValues
<1>4. AtId(g, n, p, q, o) => Short(n) /\ Short(p)
  BY ShortOnes, IdTop
<1>5. AtNamed(g, n, p, q, o) => Short(n) /\ Short(p)
  BY ShortOnes, NamedTop
<1>6. AtParam(g, n, p, q, d) => Short(n) /\ Short(p)
  BY <1>1, ShortOnes DEF AtParam, ItemValue
<1>7. AtItem(g, n, p, q, o, d) => Short(n) /\ Short(p)
  BY <1>1, ShortOnes DEF AtItem, ItemValue
<1>8. AtType(g, n, p, q, d) => Short(n) /\ Short(p)
  BY ShortOnes DEF AtType
<1>9. AtAction(g, n, p, q, o, d) => Short(n) /\ Short(p)
  BY <1>1, ShortOnes DEF AtAction
<1>10. AtRss(g, n, p, q, o, d) => Short(n) /\ Short(p)
  BY ShortOnes DEF AtRss
<1>11. AtIndex(g, n, p, q, o) => Short(n) /\ Short(p)
  BY ShortOnes DEF AtIndex
<1>12. AtShared(n, p, q) => Short(n) /\ Short(p)
  BY ShortOnes DEF AtShared
<1> QED
  BY <1>2, <1>3, <1>4, <1>5, <1>6, <1>7, <1>8, <1>9, <1>10, <1>11, <1>12 DEF Shape

\* What one word or value leaves of the line and of the buffer
Keeps(g, base, n, p, t, q, o, b) ==
    /\ KeptBelow(g, base, n, b)
    /\ Shape(g, n, p, q, o, DataOf(b))
    /\ g => /\ Phased(n, t, b)
            /\ t \in Slashes => Balanced(n, base \o p, b)
            /\ o = NULL => n # <<>> /\ n[1][1] \in {"FLOW", "SET"}

\* A word is read, or a value.
LEMMA WordStays ==
    ASSUME PInv, line = "words", NEW t, NEW c, NEW o, Word_(t, c, o),
           DOMAIN c = CtxFields, ~given => c.object = NULL /\ o = NewBuffer,
           Whole([next |-> <<>>, args |-> <<>>, curr |-> t, object |-> NULL, objmask |-> FALSE, count |-> 0], o),
           NEW base, NEW p, c.args \o Args_(t) = base \o p,
           Keeps(given, base, Front(c.next) \o Next_(t), p, t, IF Names(t) THEN t ELSE asked, c.object, o)
    PROVE  PInv'
<1>1. /\ ctx' = [c EXCEPT !.next = Front(@) \o Next_(t), !.args = @ \o Args_(t), !.curr = t]
      /\ out' = o /\ asked' = (IF Names(t) THEN t ELSE asked) /\ stored' = {} /\ given' = given /\ line' = line
  BY DEF Word_, cmd_flow_parse
<1>2. /\ DOMAIN ctx' = CtxFields
      /\ ctx'.next = Front(c.next) \o Next_(t) /\ ctx'.args = c.args \o Args_(t) /\ ctx'.curr = t
      /\ ctx'.object = c.object
  BY <1>1 DEF CtxFields
<1>3. Whole(ctx', out')
  BY <1>1, <1>2 DEF Whole
<1>4. Reading(given', ctx', out', asked')
  <2>1. ctx'.args = base \o p
    BY <1>2
  <2>2. Keeps(given, base, ctx'.next, p, t, asked', ctx'.object, o)
    BY <1>1, <1>2
  <2> QED
    BY <1>1, <1>2, <2>1, <2>2 DEF Keeps, Reading
<1>5. given \in BOOLEAN
  BY DEF PInv
<1> QED
  BY <1>1, <1>2, <1>3, <1>4, <1>5 DEF PInv, WellStored

LEMMA ValueStays ==
    ASSUME PInv, line = "words", NEW t, NEW c, NEW x, NEW object, Value(t, c, x, object),
           DOMAIN c = CtxFields, ~given => c.object = NULL,
           NEW base, NEW p, c.args \o Args_(t) = base \o p,
           Keeps(given, base, Front(c.next) \o Next_(t), p, t, Nothing, c.object, out),
           WellStored(Stored(t, x, object))
    PROVE  PInv'
<1>1. /\ ctx' = [c EXCEPT !.next = Front(@) \o Next_(t), !.args = @ \o Args_(t), !.curr = t]
      /\ out' = out /\ asked' = Nothing /\ given' = given /\ line' = line /\ stored' = Stored(t, x, object)
  BY DEF Value, cmd_flow_parse
<1>2. /\ DOMAIN ctx' = CtxFields
      /\ ctx'.next = Front(c.next) \o Next_(t) /\ ctx'.args = c.args \o Args_(t) /\ ctx'.curr = t
      /\ ctx'.object = c.object
  BY <1>1 DEF CtxFields
<1>3. Whole(ctx', out')
  BY <1>1, <1>2 DEF Whole, PInv
<1>4. Reading(given', ctx', out', asked')
  <2>1. ctx'.args = base \o p
    BY <1>2
  <2>2. Keeps(given, base, ctx'.next, p, t, asked', ctx'.object, out)
    BY <1>1, <1>2
  <2> QED
    BY <1>1, <1>2, <2>1, <2>2 DEF Keeps, Reading
<1>5. given \in BOOLEAN /\ (~given => out = NewBuffer)
  BY DEF PInv
<1>6. WellStored(stored')
  BY <1>1
<1> QED
  BY <1>1, <1>2, <1>3, <1>4, <1>5, <1>6 DEF PInv

-----------------------------------------------------------------------------
(* What a value leaves of the stacks. *)

\* No buffer is missing once a word follows "flow" or "set".
LEMMA Starts ==
    ASSUME NEW g, NEW n, NEW p, NEW q, NEW o, NEW d, Shape(g, n, p, q, o, d), n # <<>>, NEW t \in ListOf(Last(n)),
           n[1][1] \in {"FLOW", "SET"}
    PROVE  t = <<n[1][1]>>
<1>1. CASE AtRest(g, n, p, q, o, d)
  <2> PICK l : n = <<l>> /\ RestList(g, l, o, d)
    BY <1>1 DEF AtRest
  <2>1. l[1] \in {"FLOW", "SET"} /\ Last(n) = l
    BY TopOfOne
  <2>2. l = <<"FLOW">> \/ l = <<"SET">>
    BY <2>1 DEF RestList
  <2>3. "FLOW" \in SingleLists /\ "SET" \in SingleLists
    BY DEF SingleLists
  <2> QED
    BY <2>1, <2>2, <2>3, SinglesAre
<1>2. ~AtOut(g, n, p, q, o)
  BY DEF AtOut, OutValues, AfterPort
<1>3. ~AtId(g, n, p, q, o)
  BY IdTop
<1>4. ~AtNamed(g, n, p, q, o)
  BY NamedTop
<1>5. ~AtParam(g, n, p, q, d) /\ ~AtItem(g, n, p, q, o, d)
  BY DEF AtParam, AtItem, ItemValue
<1>6. ~AtType(g, n, p, q, d) /\ ~AtAction(g, n, p, q, o, d) /\ ~AtRss(g, n, p, q, o, d)
  BY DEF AtType, AtAction, AtRss
<1>7. ~AtIndex(g, n, p, q, o) /\ ~AtShared(n, p, q)
  BY DEF AtIndex, AtShared
<1> QED
  BY <1>1, <1>2, <1>3, <1>4, <1>5, <1>6, <1>7 DEF Shape

\* The places that wait, and those below
LEMMA Parts ==
    ASSUME PInv, line = "words"
    PROVE  \E base, p : /\ ctx.args = base \o p
                        /\ KeptBelow(given, base, ctx.next, out)
                        /\ Shape(given, ctx.next, p, asked, ctx.object, DataOf(out))
BY DEF PInv, Reading

LEMMA HasObject ==
    ASSUME PInv, line = "words", NEW t, Candidate(t), t[1] \notin {"FLOW", "SET"}
    PROVE  given => ctx.object # NULL
<1> SUFFICES ASSUME given, ctx.object = NULL PROVE FALSE
  OBVIOUS
<1>1. ctx.next # <<>> /\ ctx.next[1][1] \in {"FLOW", "SET"}
  BY DEF PInv, Reading
<1> PICK base, p : Shape(given, ctx.next, p, asked, ctx.object, DataOf(out))
  BY Parts
<1>2. t \in ListOf(Last(ctx.next))
  BY DEF Candidate
<1>3. t = <<ctx.next[1][1]>>
  BY <1>1, <1>2, Starts
<1> QED
  BY <1>1, <1>3

\* What lists m a value leaves of n say of the buffer, the lists n said.
LEMMA SameBottom ==
    ASSUME NEW g, NEW base, NEW n, NEW m, NEW b, n # <<>>, BottomStays(n, m), KeptBelow(g, base, n, b)
    PROVE  KeptBelow(g, base, m, b)
BY DEF KeptBelow, OverKept, BottomStays

LEMMA SamePhase ==
    ASSUME NEW n, NEW m, NEW w, NEW t, NEW b, n # <<>>, BottomStays(n, m), Phased(n, w, b)
    PROVE  Phased(m, t, b)
<1>1. CASE m # <<>> /\ m[1] = n[1]
  BY <1>1 DEF Phased
<1>2. CASE m = <<>> /\ n[1][1] \notin HeededNames
  <2>1. b.command \notin Heeded
    BY <1>2 DEF Phased
  <2>2. Complete(b)
    BY <2>1 DEF Complete, Heeded
  <2> QED
    BY <1>2, <2>2 DEF Phased
<1> QED
  BY <1>1, <1>2 DEF BottomStays

\* A value is read, and lists m and places r are left.
LEMMA StoredOn ==
    ASSUME PInv, line = "words", NEW t, NEW c, NEW x, NEW object, Value(t, c, x, object),
           DOMAIN c = CtxFields, c.object = ctx.object, t[1] \notin {"FLOW", "SET", "ITEM", "ACTION"},
           Args_(t) = <<>>, NEW m, Front(c.next) \o Next_(t) = m,
           NEW base, NEW r, c.args = base \o r, KeptBelow(given, base, m, out),
           Shape(given, m, r, Nothing, ctx.object, DataOf(out)), given => Phased(m, t, out),
           WellStored(Stored(t, x, object))
    PROVE  PInv'
<1>1. Candidate(t)
  BY DEF Value
<1>2. given => ctx.object # NULL
  BY <1>1, HasObject
<1>3. ~given => ctx.object = NULL
  BY DEF PInv
<1>4. t \notin Slashes
  BY DEF Slashes
<1>5. Keeps(given, base, m, r, t, Nothing, ctx.object, out)
  BY <1>2, <1>4 DEF Keeps
<1>6. c.args \o Args_(t) = base \o r
  <2>1. Short(r)
    BY ShapeIsShort
  <2>2. base \in Seq(KeptPlaces)
    BY DEF KeptBelow
  <2> QED
    BY <2>1, <2>2, ShortOnTop
<1>7. Keeps(given, base, Front(c.next) \o Next_(t), r, t, Nothing, c.object, out)
  BY <1>5
<1> QED
  BY <1>3, <1>6, <1>7, ValueStays

LEMMA WellStoredAt ==
    ASSUME PInv, NEW t, NEW x, given => x.of = ctx.object,
           x.field \in Meant([by |-> t, place |-> x, object |-> ctx.object, asked |-> asked])
    PROVE  WellStored(Stored(t, x, ctx.object))
BY DEF PInv, WellStored, Stored

LEMMA FollowsOn ==
    ASSUME PInv, line = "words", NEW t, NEW c, NEW x, Value(t, c, x, ctx.object),
           DOMAIN c = CtxFields, c.object = ctx.object, t[1] \notin {"FLOW", "SET", "ITEM", "ACTION"},
           Args_(t) = <<>>, NEW m, Front(c.next) \o Next_(t) = m,
           NEW base, NEW r, c.args = base \o r, KeptBelow(given, base, ctx.next, out),
           Follows(given, ctx.next, asked, ctx.object, DataOf(out), t, m, r, x)
    PROVE  PInv'
<1>1. ctx.next # <<>>
  BY DEF Value, Candidate
<1>2. /\ Shape(given, m, r, Nothing, ctx.object, DataOf(out))
      /\ given => x.of = ctx.object
      /\ x.field \in Meant([by |-> t, place |-> x, object |-> ctx.object, asked |-> asked])
      /\ BottomStays(ctx.next, m)
  BY DEF Follows
<1>3. KeptBelow(given, base, m, out)
  BY <1>1, <1>2, SameBottom
<1>4. given => Phased(m, t, out)
  <2>1. given => Phased(ctx.next, ctx.curr, out)
    BY DEF PInv, Reading
  <2>2. ctx.next # <<>> /\ BottomStays(ctx.next, m)
    BY <1>1, <1>2
  <2>3. Phased(ctx.next, ctx.curr, out) => Phased(m, t, out)
    BY ONLY <2>2, SamePhase
  <2> QED
    BY <2>1, <2>3
<1>5. WellStored(Stored(t, x, ctx.object))
  BY <1>2, WellStoredAt
<1> QED
  BY <1>2, <1>3, <1>4, <1>5, StoredOn

\* What a change of the context leaves alone
LEMMA Popped ==
    ASSUME PInv, NEW a
    PROVE  LET c == [ctx EXCEPT !.args = a]
           IN  DOMAIN c = CtxFields /\ c.object = ctx.object /\ c.next = ctx.next /\ c.args = a
BY DEF PInv, Whole, CtxFields

LEMMA IntOn == ASSUME PInv, line = "words", NEW v \in SimpleValues, parse_int(v) PROVE PInv'
<1> PICK base, p : /\ ctx.args = base \o p
                   /\ KeptBelow(given, base, ctx.next, out)
                   /\ Shape(given, ctx.next, p, asked, ctx.object, DataOf(out))
  BY Parts
<1> DEFINE c == [ctx EXCEPT !.args = Pop(1)]
<1>1. Value(<<v>>, c, Last(ctx.args), ctx.object)
  BY DEF parse_int
<1>2. <<v>> \in ListOf(Last(ctx.next)) /\ ctx.next # <<>>
  BY <1>1 DEF Value, Candidate
<1>3. PICK r, x : ValueFits(given, ctx.next, p, asked, ctx.object, DataOf(out), <<v>>, Front(ctx.next), r, x)
  BY <1>2, IntStays
<1>4. Taken(p, r, x) /\ Follows(given, ctx.next, asked, ctx.object, DataOf(out), <<v>>, Front(ctx.next), r, x)
  BY <1>3 DEF ValueFits
<1>5. base \in Seq(KeptPlaces)
  BY DEF KeptBelow
<1>6. Last(ctx.args) = x /\ Pop(1) = base \o r
  BY <1>4, <1>5, TakenOff DEF Pop
<1>7. DOMAIN c = CtxFields /\ c.object = ctx.object /\ c.next = ctx.next /\ c.args = base \o r
  BY <1>6, Popped
<1>8. Next_(<<v>>) = <<>> /\ Args_(<<v>>) = <<>>
  BY ValueTurn DEF PlainValues
<1> HIDE DEF c
<1>9. Front(c.next) \o Next_(<<v>>) = Front(ctx.next)
  <2>1. Short(Front(ctx.next))
    BY <1>4, ShapeIsShort DEF Follows
  <2> QED
    BY <1>5, <1>7, <1>8, <2>1, ShortOnTop
<1>10. <<v>>[1] \notin {"FLOW", "SET", "ITEM", "ACTION"}
  BY DEF SimpleValues, Uns, Bool, Mac, Ip4, Ip6
<1>11. Value(<<v>>, c, x, ctx.object)
  BY <1>1, <1>6
<1> QED
  BY <1>4, <1>7, <1>8, <1>9, <1>10, <1>11, FollowsOn

\* A port, and an index of "set", without a buffer too
LEMMA PortContext ==
    ASSUME PInv, NEW a
    PROVE  LET e == [ctx EXCEPT !.args = a]
               c == IF given THEN e ELSE [e EXCEPT !.object = NULL, !.objmask = FALSE]
           IN  DOMAIN c = CtxFields /\ c.object = ctx.object /\ c.next = ctx.next /\ c.args = a
BY DEF PInv, Whole, CtxFields

LEMMA PortOn == ASSUME PInv, line = "words", parse_port("PORT_ID") PROVE PInv'
<1> PICK base, p : /\ ctx.args = base \o p
                   /\ KeptBelow(given, base, ctx.next, out)
                   /\ Shape(given, ctx.next, p, asked, ctx.object, DataOf(out))
  BY Parts
<1> DEFINE e == [ctx EXCEPT !.args = Pop(1)]
           c == IF given THEN e ELSE [e EXCEPT !.object = NULL, !.objmask = FALSE]
           t == <<"PORT_ID">>
<1>1. Value(t, c, Last(ctx.args), ctx.object)
  BY DEF parse_port
<1>2. t \in ListOf(Last(ctx.next)) /\ ctx.next # <<>>
  BY <1>1 DEF Value, Candidate
<1>3. AtOut(given, ctx.next, p, asked, ctx.object)
  <2>1. /\ t[1] \in ValueNames
        /\ t[1] \notin {"RULE_ID", "GROUP_ID", "SHARED_ACTION_ID", "PRIORITY_LEVEL", "UNSIGNED", "FILE_PATH", "PARAM"}
        /\ t[1] \notin Kinds \cup {"STRING", "PREFIX", "HEX"}
        /\ t[1] \notin {"ECPRI", "RSS_FUNC", "RSS_TYPE", "RSS_QUEUE", "INDEX", "SHARED_ACTION_ID2PTR"}
    BY DEF ValueNames, Kinds, Uns, Bool, Mac, Ip4, Ip6
  <2> HIDE DEF t
  <2> QED
    BY <1>2, <2>1, WordTellsShape
<1>4. PICK r : ValueFits(given, ctx.next, p, asked, ctx.object, DataOf(out), t, Front(ctx.next), r, Out("port"))
  BY <1>2, <1>3, PortStays
<1>5. base \in Seq(KeptPlaces)
  BY DEF KeptBelow
<1>6. /\ Taken(p, r, Out("port"))
      /\ Follows(given, ctx.next, asked, ctx.object, DataOf(out), t, Front(ctx.next), r, Out("port"))
  BY <1>4 DEF ValueFits
<1>7. Last(ctx.args) = Out("port") /\ Pop(1) = base \o r
  BY <1>5, <1>6, TakenOff DEF Pop
<1>8. DOMAIN c = CtxFields /\ c.object = ctx.object /\ c.next = ctx.next /\ c.args = base \o r
  BY <1>7, PortContext
<1>9. Next_(t) = <<>> /\ Args_(t) = <<>>
  BY ValueTurn DEF PlainValues
<1> HIDE DEF c
<1>10. Front(c.next) \o Next_(t) = Front(ctx.next)
  <2>1. Short(Front(ctx.next))
    BY <1>6, ShapeIsShort DEF Follows
  <2> QED
    BY <1>5, <1>8, <1>9, <2>1, ShortOnTop
<1>11. t[1] \notin {"FLOW", "SET", "ITEM", "ACTION"}
  OBVIOUS
<1>12. Value(t, c, Out("port"), ctx.object)
  BY <1>1, <1>7
<1> HIDE DEF t
<1> QED
  BY <1>6, <1>8, <1>9, <1>10, <1>11, <1>12, FollowsOn

LEMMA IndexTurns ==
    /\ Next_(<<"SET_RAW_INDEX">>) = << <<"next_item">> >> /\ Args_(<<"SET_RAW_INDEX">>) = <<>>
    /\ Next_(<<"SET_SAMPLE_INDEX">>) = << <<"next_action_sample">> >> /\ Args_(<<"SET_SAMPLE_INDEX">>) = <<>>
BY SetTurns

\* The index of "set raw" or of "set sample"
LEMMA IndexWordAt ==
    ASSUME NEW g, NEW n, NEW p, NEW q, NEW o, NEW d, Shape(g, n, p, q, o, d), n # <<>>,
           NEW v \in {"SET_RAW_INDEX", "SET_SAMPLE_INDEX"}, <<v>> \in ListOf(Last(n))
    PROVE  /\ n = IF v = "SET_RAW_INDEX" THEN << <<"next_set_raw">> >> ELSE << <<"SET_SAMPLE_INDEX">> >>
           /\ p = <<Out("port")>> /\ Points(g, o, <<"out">>)
<1>1. /\ <<v>>[1] \in ValueNames
      /\ <<v>>[1] \notin {"RULE_ID", "GROUP_ID", "SHARED_ACTION_ID", "PRIORITY_LEVEL", "UNSIGNED", "FILE_PATH", "PARAM"}
      /\ <<v>>[1] \notin Kinds \cup {"STRING", "PREFIX", "HEX"}
      /\ <<v>>[1] \notin {"ECPRI", "RSS_FUNC", "RSS_TYPE", "RSS_QUEUE", "INDEX", "SHARED_ACTION_ID2PTR"}
  BY DEF ValueNames, Kinds, Uns, Bool, Mac, Ip4, Ip6
<1>2. AtOut(g, n, p, q, o)
  BY <1>1, WordTellsShape
<1>3. \A w \in SingleLists : Last(n) = <<w>> => v = w
  <2> SUFFICES ASSUME NEW w \in SingleLists, Last(n) = <<w>> PROVE v = w
    OBVIOUS
  <2>1. <<v>>[1] = <<w>>[1]
    BY SinglesAre
  <2> QED
    BY <2>1
<1>4. OutTops \subseteq SingleLists
  BY DEF OutTops, SingleLists, Kinds, Bool
<1>5. Last(n) # <<"next_dump_attr">>
  <2> SUFFICES ASSUME Last(n) = <<"next_dump_attr">> PROVE FALSE
    OBVIOUS
  <2>1. <<v>>[1] \in {"FILE_PATH", "END"}
    BY MixedListsAre
  <2> QED
    BY <2>1
<1>6. Last(n) = <<"next_set_raw">> => v = "SET_RAW_INDEX"
  <2> SUFFICES ASSUME Last(n) = <<"next_set_raw">> PROVE v = "SET_RAW_INDEX"
    OBVIOUS
  <2>1. <<v>>[1] \in {"SET_RAW_INDEX", "ITEM"}
    BY MixedListsAre
  <2> QED
    BY <2>1
<1>7. OutValues(n, p) /\ Points(g, o, <<"out">>)
  BY <1>2 DEF AtOut
<1>8. \A w \in OutTops : Last(n) = <<w>> => w = "SET_SAMPLE_INDEX" /\ v = w
  BY <1>3, <1>4 DEF OutTops
<1>9. \/ n = << <<"next_set_raw">> >> /\ p = <<Out("port")>>
      \/ n = << <<"SET_SAMPLE_INDEX">> >> /\ p = <<Out("port")>>
      \/ Last(n) = <<"next_dump_attr">>
      \/ \E w \in OutTops \ {"SET_SAMPLE_INDEX"} : Last(n) = <<w>>
  BY <1>7, TopOfOne, TopOfTwo, TopOfThree DEF OutValues, OutTops
<1>10. \A w \in OutTops \ {"SET_SAMPLE_INDEX"} : Last(n) # <<w>>
  BY <1>8
<1>11. CASE n = << <<"next_set_raw">> >> /\ p = <<Out("port")>>
  BY <1>6, <1>7, <1>11, TopOfOne
<1>12. CASE n = << <<"SET_SAMPLE_INDEX">> >> /\ p = <<Out("port")>>
  <2>1. v = "SET_SAMPLE_INDEX"
    BY <1>8, <1>12, TopOfOne DEF OutTops
  <2> QED
    BY <1>7, <1>12, <2>1
<1> QED
  BY <1>5, <1>9, <1>10, <1>11, <1>12

LEMMA OnEmpty ==
    /\ <<>> \o <<>> = <<>>
    /\ \A a : <<>> \o <<a>> = <<a>>
    /\ \A a, b : <<>> \o <<a, b>> = <<a, b>>
    /\ \A a, b, c : <<>> \o <<a, b, c>> = <<a, b, c>>
OBVIOUS

LEMMA IndexOn ==
    ASSUME PInv, line = "words", NEW v \in {"SET_RAW_INDEX", "SET_SAMPLE_INDEX"}, parse_port(v)
    PROVE  PInv'
<1> PICK base, p : /\ ctx.args = base \o p
                   /\ KeptBelow(given, base, ctx.next, out)
                   /\ Shape(given, ctx.next, p, asked, ctx.object, DataOf(out))
  BY Parts
<1> DEFINE e == [ctx EXCEPT !.args = Pop(1)]
           c == IF given THEN e ELSE [e EXCEPT !.object = NULL, !.objmask = FALSE]
           t == <<v>>
           w == IF v = "SET_RAW_INDEX" THEN "next_set_raw" ELSE "SET_SAMPLE_INDEX"
           y == IF v = "SET_RAW_INDEX" THEN "next_item" ELSE "next_action_sample"
           m == << <<y>> >>
<1>1. Value(t, c, Last(ctx.args), ctx.object)
  BY DEF parse_port
<1>2. t \in ListOf(Last(ctx.next)) /\ ctx.next # <<>>
  BY <1>1 DEF Value, Candidate
<1>3. ctx.next = << <<w>> >> /\ p = <<Out("port")>> /\ Points(given, ctx.object, <<"out">>)
  BY <1>2, IndexWordAt
<1>4. base \in Seq(KeptPlaces)
  BY DEF KeptBelow
<1>5. Last(ctx.args) = Out("port") /\ Pop(1) = base \o <<>>
  BY <1>3, <1>4, OneTaken, TakenOff DEF Pop
<1>6. DOMAIN c = CtxFields /\ c.object = ctx.object /\ c.next = ctx.next /\ c.args = base \o <<>>
  BY <1>5, PortContext
<1>7. Next_(t) = m /\ Args_(t) = <<>>
  BY IndexTurns
<1>8. t[1] \notin {"FLOW", "SET", "ITEM", "ACTION"}
  OBVIOUS
<1> HIDE DEF c
<1>9. Front(c.next) \o Next_(t) = m
  <2>1. Front(c.next) = <<>>
    BY <1>3, <1>6, TopOfOne
  <2>2. <<>> \o m = m
    BY OnEmpty
  <2> QED
    BY <1>7, <2>1, <2>2
<1>10. KeptBelow(given, base, m, out)
  <2>1. given => base = <<>>
    BY <1>3 DEF KeptBelow, OverKept, ItemLists, EntryLists
  <2> QED
    BY <1>4, <2>1 DEF KeptBelow
<1>11. Shape(given, m, <<>>, Nothing, ctx.object, DataOf(out))
  <2>1. y \in RestNames /\ y \notin {"next_sa_create_attr", "tunnel_commands"}
    BY DEF RestNames
  <2> HIDE DEF y
  <2> QED
    BY <2>1, NextIsRest
<1>12. given => Phased(m, t, out)
  <2> SUFFICES ASSUME given PROVE Phased(m, t, out)
    OBVIOUS
  <2>1. Phased(ctx.next, ctx.curr, out)
    BY DEF PInv, Reading
  <2>2. PhaseOf(w, out)
    BY <1>3, <2>1 DEF Phased
  <2>3. PhaseOf(y, out)
    BY <2>2 DEF PhaseOf, StartNames, ItemLists, EntryLists
  <2>4. y \in HeededNames
    BY DEF HeededNames, ItemLists
  <2> HIDE DEF y
  <2> QED
    BY <2>3, <2>4 DEF Phased
<1>13. WellStored(Stored(t, Out("port"), ctx.object))
  <2>1. Out("port").of = <<"out">> /\ Out("port").field = "port"
    BY DEF Out, Place
  <2>2. given => Out("port").of = ctx.object
    BY <1>3, <2>1 DEF Points
  <2>3. Out("port").field \in Meant([by |-> t, place |-> Out("port"), object |-> ctx.object, asked |-> asked])
    BY <2>1 DEF Meant
  <2> HIDE DEF t
  <2> QED
    BY <2>2, <2>3, WellStoredAt
<1>14. Value(t, c, Out("port"), ctx.object)
  BY <1>1, <1>5 DEF c
<1> HIDE DEF t, m
<1> QED
  BY <1>6, <1>7, <1>8, <1>9, <1>10, <1>11, <1>12, <1>13, <1>14, StoredOn

\* A string
LEMMA StringOn == ASSUME PInv, line = "words", NEW v \in {"STRING", "HEX"}, parse_string(v) PROVE PInv'
<1> PICK base, p : /\ ctx.args = base \o p
                   /\ KeptBelow(given, base, ctx.next, out)
                   /\ Shape(given, ctx.next, p, asked, ctx.object, DataOf(out))
  BY Parts
<1> DEFINE c == [ctx EXCEPT !.args = Pop(3)]
           t == <<v>>
<1>1. Value(t, c, ctx.args[Len(ctx.args) - 2], ctx.object)
  BY DEF parse_string
<1>2. t \in ListOf(Last(ctx.next)) /\ ctx.next # <<>>
  BY <1>1 DEF Value, Candidate
<1>3. AtItem(given, ctx.next, p, asked, ctx.object, DataOf(out)) \/ AtAction(given, ctx.next, p, asked, ctx.object, DataOf(out))
  <2>1. /\ t[1] \in ValueNames
        /\ t[1] \notin {"RULE_ID", "GROUP_ID", "SHARED_ACTION_ID", "PRIORITY_LEVEL", "UNSIGNED", "FILE_PATH", "PARAM"}
        /\ t[1] \notin OutTops \cup {"SET_RAW_INDEX", "ITEM", "FILE_PATH", "END"}
        /\ t[1] \notin {"ECPRI", "RSS_FUNC", "RSS_TYPE", "RSS_QUEUE", "INDEX", "SHARED_ACTION_ID2PTR"}
    BY DEF ValueNames, OutTops
  <2> HIDE DEF t
  <2> QED
    BY <1>2, <2>1, WordTellsShape
<1>4. PICK data, f : /\ p = PlacesOf(data, f, v)
                     /\ Follows(given, ctx.next, asked, ctx.object, DataOf(out), t, Front(ctx.next), <<>>, Place(data, f))
  BY <1>2, <1>3, ItemFieldStays, ActionFieldStays
<1>5. base \in Seq(KeptPlaces)
  BY DEF KeptBelow
<1>6. \E y, z : p = <<Place(data, f), y, z>>
  BY <1>4 DEF PlacesOf
<1>7. ctx.args[Len(ctx.args) - 2] = Place(data, f) /\ Pop(3) = base
  BY <1>5, <1>6, OnTopThree DEF Pop
<1>8. DOMAIN c = CtxFields /\ c.object = ctx.object /\ c.next = ctx.next /\ c.args = base
  BY <1>7, Popped
<1>9. Next_(t) = <<>> /\ Args_(t) = <<>>
  BY ValueTurn DEF PlainValues
<1> HIDE DEF c
<1>10. Front(c.next) \o Next_(t) = Front(ctx.next)
  <2>1. Short(Front(ctx.next))
    BY <1>4, ShapeIsShort DEF Follows
  <2> QED
    BY <1>5, <1>8, <1>9, <2>1, ShortOnTop
<1>11. t[1] \notin {"FLOW", "SET", "ITEM", "ACTION"}
  OBVIOUS
<1>12. Value(t, c, Place(data, f), ctx.object)
  BY <1>1, <1>7
<1>13. c.args = base \o <<>>
  BY <1>5, <1>8, NoneOnTop
<1> HIDE DEF t
<1> QED
  BY <1>4, <1>8, <1>9, <1>10, <1>11, <1>12, <1>13, FollowsOn

\* Where the values with words of their own are read
LEMMA OwnValueAt ==
    ASSUME NEW g, NEW n, NEW p, NEW q, NEW o, NEW d, Shape(g, n, p, q, o, d), n # <<>>, NEW t \in ListOf(Last(n)),
           t[1] \in {"SHARED_ACTION_ID2PTR", "ECPRI", "RSS_FUNC", "RSS_TYPE", "RSS_QUEUE", "INDEX", "PARAM"}
    PROVE  /\ t[1] = "SHARED_ACTION_ID2PTR" => AtShared(n, p, q)
           /\ t[1] = "ECPRI" => AtType(g, n, p, q, d)
           /\ t[1] \in {"RSS_FUNC", "RSS_TYPE", "RSS_QUEUE"} => AtRss(g, n, p, q, o, d)
           /\ t[1] = "INDEX" => AtIndex(g, n, p, q, o)
           /\ t[1] = "PARAM" => AtParam(g, n, p, q, d)
<1>1. /\ t[1] \in ValueNames
      /\ t[1] \notin {"RULE_ID", "GROUP_ID", "SHARED_ACTION_ID", "PRIORITY_LEVEL", "UNSIGNED", "FILE_PATH"}
      /\ t[1] \notin OutTops \cup {"SET_RAW_INDEX", "ITEM", "FILE_PATH", "END"}
      /\ t[1] \notin Kinds \cup {"STRING", "PREFIX", "HEX"}
  BY DEF ValueNames, OutTops, Kinds, Uns, Bool, Mac, Ip4, Ip6
<1> QED
  BY <1>1, WordTellsShape

\* The identifier of a shared action
LEMMA SharedIdOn == ASSUME PInv, line = "words", parse_sa_id2ptr PROVE PInv'
<1> PICK base, p : /\ ctx.args = base \o p
                   /\ KeptBelow(given, base, ctx.next, out)
                   /\ Shape(given, ctx.next, p, asked, ctx.object, DataOf(out))
  BY Parts
<1> DEFINE c == [ctx EXCEPT !.args = Pop(1), !.objmask = FALSE]
           t == <<"SHARED_ACTION_ID2PTR">>
           m == << <<"ACTION", "/">> >>
           x == Place(<<"id">>, "id")
<1>1. Value(t, c, Last(ctx.args), <<"id">>)
  BY DEF parse_sa_id2ptr
<1>2. t \in ListOf(Last(ctx.next)) /\ ctx.next # <<>>
  BY <1>1 DEF Value, Candidate
<1>3. ctx.next = << <<"SHARED_ACTION_ID2PTR">> >> /\ p = <<x>> /\ asked = Nothing
  BY <1>2, OwnValueAt DEF AtShared
<1>4. base \in Seq(KeptPlaces)
  BY DEF KeptBelow
<1>5. Last(ctx.args) = x /\ Pop(1) = base \o <<>>
  <2>1. Taken(p, <<>>, x)
    BY <1>3, OneTaken
  <2> QED
    BY <1>4, <2>1, TakenOff DEF Pop
<1>6. DOMAIN c = CtxFields /\ c.object = ctx.object /\ c.next = ctx.next /\ c.args = base \o <<>>
  BY <1>5 DEF PInv, Whole, CtxFields
<1>7. Next_(t) = m /\ Args_(t) = <<>>
  BY ValueTurn
<1> HIDE DEF c
<1>8. Front(c.next) \o Next_(t) = m
  <2>1. Front(c.next) = <<>>
    BY <1>3, <1>6, TopOfOne
  <2>2. <<>> \o m = m
    BY OnEmpty
  <2> QED
    BY <1>7, <2>1, <2>2
<1>9. KeptBelow(given, base, m, out)
  BY <1>4 DEF KeptBelow, OverKept, EntryLists
<1>10. Shape(given, m, <<>>, Nothing, ctx.object, DataOf(out))
  BY DEF Shape, AtRest, RestList
<1>11. given => Phased(m, t, out)
  <2> SUFFICES ASSUME given PROVE Phased(m, t, out)
    OBVIOUS
  <2>1. Phased(ctx.next, ctx.curr, out)
    BY DEF PInv, Reading
  <2>2. PhaseOf("SHARED_ACTION_ID2PTR", out)
    BY <1>3, <2>1 DEF Phased
  <2>3. PhaseOf("ACTION", out) /\ "ACTION" \in HeededNames
    BY <2>2 DEF PhaseOf, StartNames, ItemLists, EntryLists, HeededNames
  <2> QED
    BY <2>3 DEF Phased
<1>12. WellStored(Stored(t, x, <<"id">>))
  BY <1>3 DEF WellStored, Stored, Meant, Place
<1>13. Value(t, c, x, <<"id">>)
  BY <1>1, <1>5 DEF c
<1>14. t[1] \notin {"FLOW", "SET", "ITEM", "ACTION"}
  OBVIOUS
<1> HIDE DEF t, m, x
<1> QED
  BY <1>6, <1>7, <1>8, <1>9, <1>10, <1>11, <1>12, <1>13, <1>14, StoredOn

\* A place of the stack is kept below the others.
LEMMA Absorbed ==
    ASSUME NEW base \in Seq(KeptPlaces), NEW x \in KeptPlaces
    PROVE  /\ base \o <<x>> \in Seq(KeptPlaces)
           /\ (base \o <<x>>) \o <<>> = base \o <<x>>
OBVIOUS

\* The type of an eCPRI header
LEMMA TypeOn == ASSUME PInv, line = "words", NEW w, parse_vc_item_ecpri_type(w) PROVE PInv'
<1> PICK base, p : /\ ctx.args = base \o p
                   /\ KeptBelow(given, base, ctx.next, out)
                   /\ Shape(given, ctx.next, p, asked, ctx.object, DataOf(out))
  BY Parts
<1> DEFINE t == <<"ECPRI", w>>
           x == Place(ItemData("ecpri"), "type")
           m == << <<"AFTER_TYPE", EcpriTypes[w]>> >>
<1>1. Candidate(t)
  BY DEF parse_vc_item_ecpri_type, Word_, Value
<1>2. t \in ListOf(Last(ctx.next)) /\ ctx.next # <<>>
  BY <1>1 DEF Candidate
<1>3. /\ ctx.next = << <<"ecpri_types">> >> /\ p = <<x>> /\ asked = Nothing
      /\ Of(given, DataOf(out), ItemData("ecpri"))
  BY <1>2, OwnValueAt DEF AtType
<1>4. base \in Seq(KeptPlaces)
  BY DEF KeptBelow
<1>5. Next_(t) = m /\ Args_(t) = <<>>
  BY EntryTurn
<1>6. Shape(given, m, <<>>, Nothing, ctx.object, DataOf(out))
  <2>1. RestList(given, <<"AFTER_TYPE", EcpriTypes[w]>>, ctx.object, DataOf(out))
    BY <1>3 DEF RestList
  <2> QED
    BY <2>1 DEF Shape, AtRest
<1>7. Front(ctx.next) \o m = m
  <2>1. Front(ctx.next) = <<>>
    BY <1>3, TopOfOne
  <2>2. <<>> \o m = m
    BY OnEmpty
  <2> QED
    BY <2>1, <2>2
<1>8. t[1] \notin {"FLOW", "SET", "ITEM", "ACTION"}
  OBVIOUS
<1>9. CASE ctx.object = NULL
  <2>1. Word_(t, ctx, out)
    BY <1>9 DEF parse_vc_item_ecpri_type
  <2>2. ~given
    BY <1>1, <1>8, <1>9, HasObject
  <2>3. DOMAIN ctx = CtxFields /\ (~given => ctx.object = NULL /\ out = NewBuffer)
    BY DEF PInv, Whole
  <2>4. Whole([next |-> <<>>, args |-> <<>>, curr |-> t, object |-> NULL, objmask |-> FALSE, count |-> 0], out)
    BY DEF PInv, Whole, CtxFields
  <2>5. base \o <<x>> \in Seq(KeptPlaces) /\ (base \o <<x>>) \o <<>> = base \o <<x>>
    BY <1>4, Absorbed DEF KeptPlaces
  <2>6. ctx.args \o Args_(t) = (base \o <<x>>) \o <<>>
    BY <1>3, <1>5, <2>5
  <2>7. (IF Names(t) THEN t ELSE asked) = Nothing
    BY <1>3 DEF Names
  <2>8. Keeps(given, base \o <<x>>, Front(ctx.next) \o Next_(t), <<>>, t, IF Names(t) THEN t ELSE asked, ctx.object, out)
    BY <1>5, <1>6, <1>7, <2>2, <2>5, <2>7 DEF Keeps, KeptBelow
  <2> HIDE DEF t, m, x
  <2> QED
    BY <2>1, <2>3, <2>4, <2>6, <2>8, WordStays
<1>10. CASE ctx.object # NULL
  <2> DEFINE c == [ctx EXCEPT !.args = Pop(1)]
  <2>1. Value(t, c, Last(ctx.args), LastData)
    BY <1>10 DEF parse_vc_item_ecpri_type
  <2>2. given
    BY <1>10 DEF PInv
  <2>3. Last(ctx.args) = x /\ Pop(1) = base \o <<>>
    <3>1. Taken(p, <<>>, x)
      BY <1>3, OneTaken
    <3> QED
      BY <1>4, <3>1, TakenOff DEF Pop
  <2>4. DOMAIN c = CtxFields /\ c.object = ctx.object /\ c.next = ctx.next /\ c.args = base \o <<>>
    BY <2>3, Popped
  <2>5. KeptBelow(given, base, m, out)
    BY <1>3 DEF KeptBelow, OverKept, ItemLists
  <2>6. Phased(m, t, out)
    <3>1. Phased(ctx.next, ctx.curr, out)
      BY <2>2 DEF PInv, Reading
    <3>2. PhaseOf("ecpri_types", out)
      BY <1>3, <3>1 DEF Phased
    <3>3. PhaseOf("AFTER_TYPE", out) /\ "AFTER_TYPE" \in HeededNames
      BY <3>2 DEF PhaseOf, StartNames, ItemLists, EntryLists, HeededNames
    <3> QED
      BY <3>3 DEF Phased
  <2>7. LastData = ItemData("ecpri")
    BY <1>3, <2>2, LastDataIs DEF Of
  <2>8. WellStored(Stored(t, x, LastData))
    BY <1>3, <2>7 DEF WellStored, Stored, Meant, Place
  <2>9. Value(t, c, x, LastData)
    BY <2>1, <2>3
  <2> HIDE DEF c
  <2>10. Front(c.next) \o Next_(t) = m
    BY <1>5, <1>7, <2>4
  <2> HIDE DEF t, m, x
  <2> QED
    BY <1>5, <1>6, <1>8, <2>4, <2>5, <2>6, <2>8, <2>9, <2>10, StoredOn
<1> QED
  BY <1>9, <1>10

\* A list of an RSS action: it is left, or read again.
LEMMA RssStays ==
    ASSUME NEW g, NEW n, NEW q, NEW o, NEW d, AtRss(g, n, <<>>, q, o, d), NEW t \in ListOf(Last(n)), NEW f,
           f \in {"func", "types", "queues"},
           t[1] = IF f = "func" THEN "RSS_FUNC" ELSE RssList(f)
    PROVE  LET x == Place(ActionData("rss"), f)
           IN  /\ Follows(g, n, q, o, d, t, Front(n), <<>>, x)
               /\ Follows(g, n, q, o, d, t, n, <<>>, x)
               /\ Len(n) = 2
<1>1. PICK e \in {"func", "types", "queues"} : /\ n = << <<"AFTER_ACTION", "rss">>, <<RssList(e)>> >>
                                               /\ q \in {Nothing, <<"ACTION", "rss", e>>}
  BY DEF AtRss
<1>2. Of(g, d, ActionData("rss")) /\ Points(g, o, ActionData("rss"))
  BY DEF AtRss
<1>3. Last(n) = <<RssList(e)>> /\ Front(n) = << <<"AFTER_ACTION", "rss">> >> /\ Len(n) = 2
  BY <1>1, TopOfTwo
<1>4. e = f
  <2>1. t[1] = IF e = "func" THEN "RSS_FUNC" ELSE RssList(e)
    <3>1. "RSS_TYPE" \in SingleLists /\ "RSS_QUEUE" \in SingleLists
      BY DEF SingleLists
    <3>2. CASE e = "func"
      BY <1>3, <3>2, ParamLists DEF RssList
    <3>3. CASE e # "func"
      BY <1>1, <1>3, <3>1, <3>3, SinglesAre DEF RssList
    <3> QED
      BY <3>2, <3>3
  <2> QED
    BY <1>1, <2>1 DEF RssList
<1> DEFINE x == Place(ActionData("rss"), f)
<1>5. x.of = ActionData("rss") /\ x.field = f
  BY DEF Place
<1>6. g => x.of = o
  BY <1>2, <1>5 DEF Points
<1>7. x.field \in Meant([by |-> t, place |-> x, object |-> o, asked |-> q])
  <2>1. t[1] \notin {"PORT_ID", "SET_RAW_INDEX", "SET_SAMPLE_INDEX", "RULE_ID", "QUERY_ACTION", "SHARED_ACTION_ID", "FILE_PATH"}
    BY DEF RssList
  <2>2. q = Nothing \/ (Len(q) = 3 /\ q[3] = f /\ q # Nothing)
    BY <1>1, <1>4 DEF Nothing
  <2> HIDE DEF x
  <2> QED
    BY <1>5, <2>1, <2>2 DEF Meant
<1>8. Shape(g, n, <<>>, Nothing, o, d)
  BY <1>1, <1>2 DEF Shape, AtRss
<1>9. Shape(g, << <<"AFTER_ACTION", "rss">> >>, <<>>, Nothing, o, d)
  <2>1. RestList(g, <<"AFTER_ACTION", "rss">>, o, d)
    BY <1>2, ActionTable DEF RestList
  <2> QED
    BY <2>1 DEF Shape, AtRest
<1>10. BottomStays(n, n) /\ BottomStays(n, Front(n))
  BY <1>1, <1>3 DEF BottomStays
<1> HIDE DEF x
<1>11. Follows(g, n, q, o, d, t, n, <<>>, x)
  BY <1>6, <1>7, <1>8, <1>10 DEF Follows
<1>12. Follows(g, n, q, o, d, t, Front(n), <<>>, x)
  BY <1>3, <1>6, <1>7, <1>9, <1>10 DEF Follows
<1> QED
  BY <1>3, <1>11, <1>12 DEF x

\* The list read again
LEMMA PushedAgain == ASSUME NEW n, NEW t, Short(n) PROVE Front(Append(n, t)) = n
<1> PICK T : n \in Seq(T)
  BY ShortIsSeq
<1>1. Append(n, t) \in Seq(T \cup {t}) /\ Len(Append(n, t)) = Len(n) + 1 /\ n \in Seq(T \cup {t})
  OBVIOUS
<1>2. SubSeq(Append(n, t), 1, Len(n)) = n
  BY <1>1
<1>3. Front(Append(n, t)) = SubSeq(Append(n, t), 1, Len(n))
  BY <1>1 DEF Front
<1> QED
  BY <1>2, <1>3

LEMMA RssValueOn ==
    ASSUME PInv, line = "words", NEW t, NEW c, NEW f, f \in {"func", "types", "queues"},
           t[1] = IF f = "func" THEN "RSS_FUNC" ELSE RssList(f),
           Value(t, c, Place(ActionData("rss"), f), ctx.object), Next_(t) = <<>>, Args_(t) = <<>>,
           DOMAIN c = CtxFields, c.object = ctx.object, c.args = ctx.args,
           c.next = ctx.next \/ c.next = Append(ctx.next, t)
    PROVE  PInv'
<1> PICK base, p : /\ ctx.args = base \o p
                   /\ KeptBelow(given, base, ctx.next, out)
                   /\ Shape(given, ctx.next, p, asked, ctx.object, DataOf(out))
  BY Parts
<1> DEFINE x == Place(ActionData("rss"), f)
<1>1. t \in ListOf(Last(ctx.next)) /\ ctx.next # <<>>
  BY DEF Value, Candidate
<1>2. t[1] \in {"RSS_FUNC", "RSS_TYPE", "RSS_QUEUE"}
  BY DEF RssList
<1>3. AtRss(given, ctx.next, p, asked, ctx.object, DataOf(out)) /\ p = <<>>
  BY <1>1, <1>2, OwnValueAt DEF AtRss
<1>4. AtRss(given, ctx.next, <<>>, asked, ctx.object, DataOf(out))
  BY <1>3
<1>5. /\ Follows(given, ctx.next, asked, ctx.object, DataOf(out), t, Front(ctx.next), <<>>, x)
      /\ Follows(given, ctx.next, asked, ctx.object, DataOf(out), t, ctx.next, <<>>, x)
  BY <1>1, <1>4, RssStays
<1>6. Short(Front(ctx.next)) /\ Short(ctx.next)
  BY <1>5, ShapeIsShort DEF Follows
<1>7. c.args = base \o <<>>
  BY <1>3
<1>8. t[1] \notin {"FLOW", "SET", "ITEM", "ACTION"}
  BY <1>2
<1>9. base \in Seq(KeptPlaces)
  BY DEF KeptBelow
<1> HIDE DEF x
<1>10. Value(t, c, x, ctx.object)
  BY DEF x
<1>11. CASE c.next = ctx.next
  <2>1. Front(c.next) \o Next_(t) = Front(ctx.next)
    BY <1>6, <1>9, <1>11, ShortOnTop
  <2> QED
    BY <1>5, <1>7, <1>8, <1>10, <2>1, FollowsOn
<1>12. CASE c.next = Append(ctx.next, t)
  <2>1. Front(c.next) = ctx.next
    BY <1>6, <1>12, PushedAgain
  <2>2. Front(c.next) \o Next_(t) = ctx.next
    BY <1>6, <1>9, <2>1, ShortOnTop
  <2> QED
    BY <1>5, <1>7, <1>8, <1>10, <2>2, FollowsOn
<1> QED
  BY <1>11, <1>12

LEMMA RssContext ==
    ASSUME PInv, NEW t, NEW k
    PROVE  LET c == [ctx EXCEPT !.count = k]
               e == Again(c, t)
           IN  /\ DOMAIN c = CtxFields /\ c.object = ctx.object /\ c.args = ctx.args /\ c.next = ctx.next
               /\ DOMAIN e = CtxFields /\ e.object = ctx.object /\ e.args = ctx.args /\ e.next = Append(ctx.next, t)
BY DEF PInv, Whole, CtxFields, Again

LEMMA RssOn ==
    ASSUME PInv, line = "words",
           (\E f \in RssFuncs : parse_vc_action_rss_func(f)) \/ parse_vc_action_rss_type \/ parse_vc_action_rss_queue
    PROVE  PInv'
<1>1. ASSUME NEW f \in RssFuncs, parse_vc_action_rss_func(f) PROVE PInv'
  <2> DEFINE t == <<"RSS_FUNC", f>>
  <2>1. Value(t, ctx, Place(ActionData("rss"), "func"), ctx.object)
    BY <1>1 DEF parse_vc_action_rss_func
  <2>2. Next_(t) = <<>> /\ Args_(t) = <<>> /\ t[1] = "RSS_FUNC"
    BY EntryTurn
  <2>3. DOMAIN ctx = CtxFields
    BY DEF PInv, Whole
  <2> HIDE DEF t
  <2> QED
    BY <2>1, <2>2, <2>3, RssValueOn
<1>2. ASSUME NEW f \in {"types", "queues"}, NEW v, v = RssList(f), NEW k,
             \/ Value(<<v>>, [ctx EXCEPT !.count = 0], Place(ActionData("rss"), f), ctx.object)
             \/ Value(<<v>>, Again([ctx EXCEPT !.count = k], <<v>>), Place(ActionData("rss"), f), ctx.object)
      PROVE  PInv'
  <2> DEFINE t == <<v>>
             c == [ctx EXCEPT !.count = 0]
             e == Again([ctx EXCEPT !.count = k], t)
  <2>1. Next_(t) = <<>> /\ Args_(t) = <<>> /\ t[1] = RssList(f)
    BY <1>2, ValueTurn DEF PlainValues, RssList
  <2>2. /\ DOMAIN c = CtxFields /\ c.object = ctx.object /\ c.args = ctx.args /\ c.next = ctx.next
        /\ DOMAIN e = CtxFields /\ e.object = ctx.object /\ e.args = ctx.args /\ e.next = Append(ctx.next, t)
    BY RssContext
  <2>3. f # "func" /\ f \in {"func", "types", "queues"}
    OBVIOUS
  <2>4. Value(t, c, Place(ActionData("rss"), f), ctx.object) \/ Value(t, e, Place(ActionData("rss"), f), ctx.object)
    BY <1>2
  <2> HIDE DEF t, c, e
  <2>5. CASE Value(t, c, Place(ActionData("rss"), f), ctx.object)
    BY <2>1, <2>2, <2>3, <2>5, RssValueOn
  <2>6. CASE Value(t, e, Place(ActionData("rss"), f), ctx.object)
    BY <2>1, <2>2, <2>3, <2>6, RssValueOn
  <2> QED
    BY <2>4, <2>5, <2>6
<1>3. ASSUME parse_vc_action_rss_type PROVE PInv'
  <2>1. "RSS_TYPE" = RssList("types")
    BY DEF RssList
  <2>2. \/ Value(<<"RSS_TYPE">>, [ctx EXCEPT !.count = 0], Place(ActionData("rss"), "types"), ctx.object)
        \/ Value(<<"RSS_TYPE">>, Again([ctx EXCEPT !.count = 1], <<"RSS_TYPE">>), Place(ActionData("rss"), "types"), ctx.object)
    BY <1>3 DEF parse_vc_action_rss_type
  <2> QED
    BY <1>2, <2>1, <2>2
<1>4. ASSUME parse_vc_action_rss_queue PROVE PInv'
  <2>1. "RSS_QUEUE" = RssList("queues")
    BY DEF RssList
  <2>2. \/ Value(<<"RSS_QUEUE">>, [ctx EXCEPT !.count = 0], Place(ActionData("rss"), "queues"), ctx.object)
        \/ Value(<<"RSS_QUEUE">>, Again([ctx EXCEPT !.count = ctx.count + 1], <<"RSS_QUEUE">>), Place(ActionData("rss"), "queues"), ctx.object)
    BY <1>4 DEF parse_vc_action_rss_queue
  <2> QED
    BY <1>2, <2>1, <2>2
<1> QED
  BY <1>1, <1>3, <1>4

\* The index of what "set" prepared
LEMMA IndexActionOn == ASSUME PInv, line = "words", NEW a, parse_vc_action_index(a) PROVE PInv'
<1> PICK base, p : /\ ctx.args = base \o p
                   /\ KeptBelow(given, base, ctx.next, out)
                   /\ Shape(given, ctx.next, p, asked, ctx.object, DataOf(out))
  BY Parts
<1> DEFINE t == <<"INDEX", a>>
           x == Place(ActionData(a), "index")
           m == << <<"ACTION", "/">> >>
<1>1. Value(t, ctx, x, ctx.object)
  BY DEF parse_vc_action_index
<1>2. t \in ListOf(Last(ctx.next)) /\ ctx.next # <<>>
  BY <1>1 DEF Value, Candidate
<1>3. AtIndex(given, ctx.next, p, asked, ctx.object)
  BY <1>2, OwnValueAt
<1>4. PICK e \in IndexedActions : /\ ctx.next = << <<"INDEX", e>> >> /\ asked = <<"ACTION", e, "index">>
                                  /\ Points(given, ctx.object, ActionData(e))
  BY <1>3 DEF AtIndex
<1>5. e = a
  <2>1. Last(ctx.next) = <<"INDEX", e>>
    BY <1>4, TopOfOne
  <2>2. <<"INDEX", a>> = <<"INDEX", e>>
    BY <1>2, <2>1, SinglesAre
  <2>3. <<"INDEX", a>>[2] = <<"INDEX", e>>[2]
    BY <2>2
  <2> QED
    BY <2>3
<1>6. base \in Seq(KeptPlaces)
  BY DEF KeptBelow
<1>7. ctx.args = base \o <<>>
  BY <1>3 DEF AtIndex
<1>8. Next_(t) = m /\ Args_(t) = <<>> /\ DOMAIN ctx = CtxFields
  BY EntryTurn DEF PInv, Whole
<1>9. Front(ctx.next) \o Next_(t) = m
  <2>1. Front(ctx.next) = <<>>
    BY <1>4, TopOfOne
  <2>2. <<>> \o m = m
    BY OnEmpty
  <2> QED
    BY <1>8, <2>1, <2>2
<1>10. KeptBelow(given, base, m, out)
  BY <1>6 DEF KeptBelow, OverKept, EntryLists
<1>11. Shape(given, m, <<>>, Nothing, ctx.object, DataOf(out))
  BY DEF Shape, AtRest, RestList
<1>12. given => Phased(m, t, out)
  <2> SUFFICES ASSUME given PROVE Phased(m, t, out)
    OBVIOUS
  <2>1. Phased(ctx.next, ctx.curr, out)
    BY DEF PInv, Reading
  <2>2. PhaseOf("INDEX", out)
    BY <1>4, <2>1 DEF Phased
  <2>3. PhaseOf("ACTION", out) /\ "ACTION" \in HeededNames
    BY <2>2 DEF PhaseOf, StartNames, ItemLists, EntryLists, HeededNames
  <2> QED
    BY <2>3 DEF Phased
<1>13. WellStored(Stored(t, x, ctx.object))
  <2>1. x.of = ActionData(a) /\ x.field = "index"
    BY DEF Place
  <2>2. given => x.of = ctx.object
    BY <1>4, <1>5, <2>1 DEF Points
  <2>3. Len(asked) = 3 /\ asked[3] = "index" /\ asked # Nothing
    BY <1>4 DEF Nothing
  <2>4. t[1] = "INDEX"
    OBVIOUS
  <2> HIDE DEF t, x
  <2>5. x.field \in Meant([by |-> t, place |-> x, object |-> ctx.object, asked |-> asked])
    BY <2>1, <2>3, <2>4 DEF Meant
  <2> QED
    BY <2>2, <2>5, WellStoredAt
<1>14. t[1] \notin {"FLOW", "SET", "ITEM", "ACTION"}
  OBVIOUS
<1> HIDE DEF t, m, x
<1> QED
  BY <1>1, <1>7, <1>8, <1>9, <1>10, <1>11, <1>12, <1>13, <1>14, StoredOn

LEMMA ValuesOn == ASSUME PInv, line = "words", Values PROVE PInv'
<1>1. \/ \E v \in SimpleValues : parse_int(v)
      \/ \E v \in {"STRING", "HEX"} : parse_string(v)
      \/ \E v \in {"PORT_ID", "SET_RAW_INDEX", "SET_SAMPLE_INDEX"} : parse_port(v)
      \/ parse_sa_id2ptr
      \/ \E w \in DOMAIN EcpriTypes : parse_vc_item_ecpri_type(w)
      \/ (\E f \in RssFuncs : parse_vc_action_rss_func(f)) \/ parse_vc_action_rss_type \/ parse_vc_action_rss_queue
      \/ \E a \in IndexedActions : parse_vc_action_index(a)
  BY DEF Values
<1> QED
  BY <1>1, IntOn, StringOn, PortOn, IndexOn, SharedIdOn, TypeOn, RssOn, IndexActionOn

-----------------------------------------------------------------------------
(* Words: what they are read at, and what they push. *)

LEMMA OutTopIs ==
    ASSUME NEW n, NEW p, OutValues(n, p)
    PROVE  Last(n) \in {<<"next_dump_attr">>, <<"next_set_raw">>} \/ \E w \in OutTops : Last(n) = <<w>>
BY TopOfOne, TopOfTwo, TopOfThree DEF OutValues, OutTops

\* Words that are read where no value is to come
LEMMA RestPlace ==
    ASSUME PInv, line = "words", NEW t, Candidate(t), t[1] \notin ValueNames, t[1] \notin {"END", "RSS_FUNC"},
           t # <<"ITEM", "eth">>
    PROVE  \E l : /\ ctx.next = <<l>> /\ asked = Nothing /\ KeptBelow(given, ctx.args, <<l>>, out)
                  /\ RestList(given, l, ctx.object, DataOf(out)) /\ t \in ListOf(l)
<1> PICK base, p : /\ ctx.args = base \o p
                   /\ KeptBelow(given, base, ctx.next, out)
                   /\ Shape(given, ctx.next, p, asked, ctx.object, DataOf(out))
  BY Parts
<1>1. t \in ListOf(Last(ctx.next)) /\ ctx.next # <<>>
  BY DEF Candidate
<1>2. t[1] \notin {"RULE_ID", "GROUP_ID", "SHARED_ACTION_ID", "PRIORITY_LEVEL", "UNSIGNED", "FILE_PATH", "PARAM"}
      /\ t[1] \notin Kinds \cup {"STRING", "PREFIX", "HEX"} /\ t[1] \notin OutTops
      /\ t[1] \notin {"ECPRI", "RSS_FUNC", "RSS_TYPE", "RSS_QUEUE", "INDEX", "SHARED_ACTION_ID2PTR", "SET_RAW_INDEX"}
  BY DEF ValueNames, SimpleValues, OutTops, Kinds, Uns, Bool, Mac, Ip4, Ip6
<1>3. AtOut(given, ctx.next, p, asked, ctx.object) => t[1] = "ITEM"
  BY <1>1, <1>2, OutTop DEF AtOut
<1>4. ~AtOut(given, ctx.next, p, asked, ctx.object)
  <2> SUFFICES ASSUME AtOut(given, ctx.next, p, asked, ctx.object) PROVE FALSE
    OBVIOUS
  <2>1. Last(ctx.next) \in {<<"next_dump_attr">>, <<"next_set_raw">>} \/ \E w \in OutTops : Last(ctx.next) = <<w>>
    BY OutTopIs DEF AtOut
  <2>2. OutTops \subseteq SingleLists
    BY DEF OutTops, SingleLists, Kinds, Bool
  <2>3. t \in {<<"FILE_PATH">>, <<"END">>} \/ t \in {<<"SET_RAW_INDEX">>, <<"ITEM", "eth">>} \/ t[1] \in OutTops
    BY <1>1, <2>1, <2>2, MixedListsAre, SinglesAre
  <2> QED
    BY <1>2, <1>3, <2>3
<1>5. \E l : /\ ctx.next = <<l>> /\ Last(ctx.next) = l /\ p = <<>> /\ asked = Nothing
             /\ RestList(given, l, ctx.object, DataOf(out))
  BY <1>1, <1>2, <1>4, WordTellsShape
<1> PICK l : /\ ctx.next = <<l>> /\ Last(ctx.next) = l /\ p = <<>> /\ asked = Nothing
             /\ RestList(given, l, ctx.object, DataOf(out))
  BY <1>5
<1>6. ctx.args = base
  BY NoneOnTop DEF KeptBelow
<1> QED
  BY <1>1, <1>6

\* The lists that a word of the commands is in
CommandHome(w, x) ==
    /\ w \in FirstWords => x = "flow_commands"
    /\ w \in {"SET_RAW_ENCAP", "SET_RAW_DECAP", "SET_SAMPLE_ACTIONS"} => x = "set_commands"
    /\ w \in {"FLOW", "SET", "ACTIONS", "TUNNEL_CREATE_TYPE", "TUNNEL_DESTROY_ID"} => x = w
    /\ w \in {"SHARED_ACTION_CREATE", "SHARED_ACTION_UPDATE", "SHARED_ACTION_DESTROY", "SHARED_ACTION_QUERY"} => x = "next_sa_subcmd"
    /\ w \in {"SHARED_ACTION_CREATE_ID", "SHARED_ACTION_INGRESS", "SHARED_ACTION_EGRESS", "SHARED_ACTION_TRANSFER"}
          => x = "next_sa_create_attr"
    /\ w = "SHARED_ACTION_SPEC" => x \in {"SHARED_ACTION_SPEC", "next_sa_create_attr"}
    /\ w = "SHARED_ACTION_DESTROY_ID" => x \in {"SHARED_ACTION_DESTROY_ID", "next_sa_destroy_attr"}
    /\ w = "DESTROY_RULE" => x \in {"DESTROY_RULE", "next_destroy_attr"}
    /\ w = "LIST_GROUP" => x = "next_list_attr"
    /\ w = "AGED_DESTROY" => x = "next_aged_attr"
    /\ w \in {"TUNNEL_CREATE", "TUNNEL_DESTROY", "TUNNEL_LIST"} => x = "tunnel_commands"
    /\ w \in {"GROUP", "PRIORITY", "INGRESS", "EGRESS", "TRANSFER", "TUNNEL_SET", "TUNNEL_MATCH", "PATTERN"} => x = "next_vc_attr"
    /\ w = "END" => x \in {"END", "next_sa_destroy_attr", "next_destroy_attr", "next_list_attr", "next_aged_attr"}
    /\ w = "END_SET" => x = "next_item"
    /\ w = "ITEM" => x = "next_item"
    /\ w = "ACTION" => x \in {"next_action", "next_action_sample"}
    /\ w \notin {"ECPRI_COMMON", "ECPRI_TYPE"}

LEMMA CommandHomes == \A x \in RestNames : \A w \in FirstsOf(x) : CommandHome(w, x)
<1>1. \A x \in RestNames \ DOMAIN Firsts : CommandHome(x, x)
  <2>1. RestNames \ DOMAIN Firsts = {"FLOW", "SET", "SHARED_ACTION_SPEC", "SHARED_ACTION_DESTROY_ID", "END", "DESTROY_RULE",
                                     "TUNNEL_CREATE_TYPE", "TUNNEL_DESTROY_ID", "ACTIONS"}
    BY FirstsNames DEF RestNames
  <2> QED
    BY <2>1 DEF CommandHome, FirstWords
<1>2. \A x \in DOMAIN Firsts : \A w \in Firsts[x] : CommandHome(w, x)
  <2>1. \A w \in Firsts["flow_commands"] : CommandHome(w, "flow_commands")
    BY DEF Firsts, FirstWords, CommandHome
  <2>2. \A w \in Firsts["set_commands"] : CommandHome(w, "set_commands")
    BY DEF Firsts, FirstWords, CommandHome
  <2>3. \A w \in Firsts["next_sa_subcmd"] : CommandHome(w, "next_sa_subcmd")
    BY DEF Firsts, FirstWords, CommandHome
  <2>4. \A w \in Firsts["next_sa_create_attr"] : CommandHome(w, "next_sa_create_attr")
    BY DEF Firsts, FirstWords, CommandHome
  <2>5. \A w \in Firsts["next_sa_destroy_attr"] : CommandHome(w, "next_sa_destroy_attr")
    BY DEF Firsts, FirstWords, CommandHome
  <2>6. \A w \in Firsts["next_vc_attr"] : CommandHome(w, "next_vc_attr")
    BY DEF Firsts, FirstWords, CommandHome
  <2>7. \A w \in Firsts["next_destroy_attr"] : CommandHome(w, "next_destroy_attr")
    BY DEF Firsts, FirstWords, CommandHome
  <2>8. \A w \in Firsts["next_list_attr"] : CommandHome(w, "next_list_attr")
    BY DEF Firsts, FirstWords, CommandHome
  <2>9. \A w \in Firsts["next_aged_attr"] : CommandHome(w, "next_aged_attr")
    BY DEF Firsts, FirstWords, CommandHome
  <2>10. \A w \in Firsts["tunnel_commands"] : CommandHome(w, "tunnel_commands")
    BY DEF Firsts, FirstWords, CommandHome
  <2>11. \A w \in Firsts["next_item"] : CommandHome(w, "next_item")
    BY DEF Firsts, FirstWords, CommandHome
  <2>12. \A w \in Firsts["next_action"] : CommandHome(w, "next_action")
    BY DEF Firsts, FirstWords, CommandHome
  <2>13. \A w \in Firsts["next_action_sample"] : CommandHome(w, "next_action_sample")
    BY DEF Firsts, FirstWords, CommandHome
  <2> QED
    BY <2>1, <2>2, <2>3, <2>4, <2>5, <2>6, <2>7, <2>8, <2>9, <2>10, <2>11, <2>12, <2>13, FirstsNames
<1> QED
  BY <1>1, <1>2 DEF FirstsOf

\* A word of the commands, and the list it is in
LEMMA CommandPlace ==
    ASSUME PInv, line = "words", NEW w, Candidate(<<w>>), w \notin ValueNames,
           w \notin {"END", "ECPRI_COMMON", "ECPRI_TYPE", "ACTION", "ITEM"}
    PROVE  \E x \in RestNames :
              /\ ctx.next = << <<x>> >> /\ asked = Nothing /\ KeptBelow(given, ctx.args, << <<x>> >>, out)
              /\ CommandHome(w, x)
              /\ x \in {"next_sa_create_attr", "tunnel_commands"} => Points(given, ctx.object, <<"out">>)
<1> DEFINE t == <<w>>
<1>0. t[1] = w /\ Len(t) = 1
  OBVIOUS
<1>1. t # <<"ITEM", "eth">>
  OBVIOUS
<1>2. "RSS_FUNC" \in ValueNames
  BY DEF ValueNames
<1>3. Candidate(t)
  OBVIOUS
<1> HIDE DEF t
<1>4. PICK l : /\ ctx.next = <<l>> /\ asked = Nothing /\ KeptBelow(given, ctx.args, <<l>>, out)
               /\ RestList(given, l, ctx.object, DataOf(out)) /\ t \in ListOf(l)
  BY <1>0, <1>1, <1>2, <1>3, RestPlace
<1>5. WordOf(given, l, ctx.object, t)
  <2>1. ~OfItem(given, t, DataOf(out))
    BY <1>0 DEF OfItem, IsField
  <2>2. \A a : ~OfAction(t, a)
    BY <1>0 DEF OfAction
  <2>3. t # <<"ECPRI_TYPE">> /\ t # <<"ACTION", "/">>
    BY <1>0
  <2> QED
    BY <1>4, <2>1, <2>2, <2>3, Homes
<1> QED
  BY <1>0, <1>4, <1>5, CommandHomes DEF WordOf

\* Parse functions point the context at an object, and change the buffer.
LEMMA AtContext ==
    ASSUME PInv, NEW x, NEW k
    PROVE  LET c == At(x, k)
           IN  /\ DOMAIN c = CtxFields /\ c.args = ctx.args /\ c.next = ctx.next
               /\ Points(given, c.object, x)
BY DEF PInv, Whole, CtxFields, At, Points

LEMMA SameContext == ASSUME PInv PROVE DOMAIN ctx = CtxFields
BY DEF PInv, Whole

LEMMA WholeBuffers ==
    ASSUME PInv, NEW w
    PROVE  /\ Whole(ctx, out) /\ Whole(ctx, NewBuffer) /\ Whole(ctx, [NewBuffer EXCEPT !.command = w])
           /\ Whole(ctx, [out EXCEPT !.command = w])
           /\ Whole(ctx, [out EXCEPT !.command = w, !.actions.set = TRUE])
           /\ Whole(ctx, [out EXCEPT !.actions.set = TRUE])
           /\ Whole(ctx, [out EXCEPT !.ids = @ + 1])
BY DEF PInv, Whole, NewBuffer, OutFields

LEMMA FilledIs == ASSUME PInv, NEW b, Whole(ctx, b)
                  PROVE  Whole(ctx, Filled(b)) /\ (given => Filled(b) = b) /\ (~given => Filled(b) = NewBuffer)
BY DEF PInv, Filled

\* A word read where no value is to come
LEMMA RestWord ==
    ASSUME PInv, line = "words", NEW t, NEW c, NEW o, Word_(t, c, o),
           DOMAIN c = CtxFields, c.args = ctx.args, c.next = ctx.next,
           ~given => c.object = NULL /\ o = NewBuffer, Whole(ctx, o),
           NEW l, ctx.next = <<l>>, asked = Nothing, KeptBelow(given, ctx.args, <<l>>, out),
           OverKept(<<l>>) => OverKept(Next_(t)) /\ o.command = out.command,
           Shape(given, Next_(t), Args_(t), IF Names(t) THEN t ELSE Nothing, c.object, DataOf(o)),
           given => Phased(Next_(t), t, o) /\ c.object # NULL,
           given /\ t \in Slashes => Balanced(Next_(t), ctx.args \o Args_(t), o)
    PROVE  PInv'
<1>1. Short(Next_(t)) /\ Short(Args_(t))
  BY ShapeIsShort
<1>2. Front(c.next) \o Next_(t) = Next_(t)
  <2>1. Front(c.next) = <<>>
    BY TopOfOne
  <2>2. <<>> \o Next_(t) = Next_(t)
    BY <1>1, OnEmpty DEF Short
  <2> QED
    BY <2>1, <2>2
<1>3. KeptBelow(given, ctx.args, Next_(t), o)
  BY DEF KeptBelow, OverKept
<1>4. Keeps(given, ctx.args, Front(c.next) \o Next_(t), Args_(t), t, IF Names(t) THEN t ELSE asked, c.object, o)
  BY <1>2, <1>3 DEF Keeps
<1>5. Whole([next |-> <<>>, args |-> <<>>, curr |-> t, object |-> NULL, objmask |-> FALSE, count |-> 0], o)
  BY DEF Whole, CtxFields
<1>6. c.args \o Args_(t) = ctx.args \o Args_(t)
  OBVIOUS
<1> QED
  BY <1>4, <1>5, <1>6, WordStays

\* How far the line is, told by its only list
LEMMA PhaseNow ==
    ASSUME PInv, line = "words", given, NEW x, ctx.next = << <<x>> >>
    PROVE  PhaseOf(x, out) /\ (x \notin HeededNames => out.command \notin Heeded)
<1>1. Phased(ctx.next, ctx.curr, out)
  BY DEF PInv, Reading
<1> QED
  BY <1>1 DEF Phased

\* "flow" and "set"
LEMMA InitOn == ASSUME PInv, line = "words", parse_init \/ parse_set_init PROVE PInv'
<1>1. ASSUME NEW w \in {"FLOW", "SET"}, NEW y \in {"flow_commands", "set_commands"}, Next_(<<w>>) = << <<y>> >>, Args_(<<w>>) = <<>>,
             NEW x, x # NULL, NEW b, Whole(ctx, b), b.command \notin Heeded, b.actions.set = FALSE, Word_(<<w>>, At(x, FALSE), Filled(b))
      PROVE  PInv'
  <2> DEFINE t == <<w>>
             c == At(x, FALSE)
             o == Filled(b)
  <2>1. Candidate(<<w>>) /\ w \notin ValueNames /\ w \notin {"END", "ECPRI_COMMON", "ECPRI_TYPE", "ACTION", "ITEM"}
    BY <1>1 DEF Word_, ValueNames, SimpleValues, Uns, Bool, Mac, Ip4, Ip6
  <2>2. PICK z \in RestNames :
              /\ ctx.next = << <<z>> >> /\ asked = Nothing /\ KeptBelow(given, ctx.args, << <<z>> >>, out)
              /\ CommandHome(w, z)
    BY <2>1, CommandPlace
  <2>3. z = w
    BY <2>2 DEF CommandHome
  <2>4. DOMAIN c = CtxFields /\ c.args = ctx.args /\ c.next = ctx.next /\ Points(given, c.object, x)
    BY AtContext
  <2>5. ~given => c.object = NULL
    BY <2>4 DEF Points
  <2>6. given => c.object # NULL
    BY <1>1, <2>4 DEF Points
  <2>7. Whole(ctx, o) /\ (given => o = b) /\ (~given => o = NewBuffer)
    BY <1>1, FilledIs
  <2>8. ~OverKept(<< <<z>> >>)
    BY <2>3 DEF OverKept, ItemLists, EntryLists
  <2>9. ~Names(t)
    BY DEF Names
  <2>10. Shape(given, Next_(t), Args_(t), Nothing, c.object, DataOf(o))
    <3>1. y \in RestNames /\ y \notin {"next_sa_create_attr", "tunnel_commands"}
      BY DEF RestNames
    <3> HIDE DEF c, o
    <3> QED
      BY <1>1, <3>1, NextIsRest
  <2>11. given => Phased(Next_(t), t, o)
    <3>1. PhaseOf(y, b) /\ y \in HeededNames
      BY <1>1 DEF PhaseOf, StartNames, ItemLists, EntryLists, HeededNames
    <3> HIDE DEF o
    <3> QED
      BY <1>1, <2>7, <3>1 DEF Phased
  <2>12. t \notin Slashes
    BY DEF Slashes
  <2>13. Word_(t, c, o)
    BY <1>1
  <2> HIDE DEF t, c, o
  <2> QED
    BY <2>2, <2>4, <2>5, <2>6, <2>7, <2>8, <2>9, <2>10, <2>11, <2>12, <2>13, RestWord
<1>2. ASSUME parse_init PROVE PInv'
  <2>1. Next_(<<"FLOW">>) = << <<"flow_commands">> >> /\ Args_(<<"FLOW">>) = <<>>
    BY CommandTurns
  <2>2. NewBuffer.command \notin Heeded /\ NewBuffer.actions.set = FALSE
    BY DEF NewBuffer, Heeded, RuleCommands, MadeCommands
  <2>3. <<"out">> # NULL
    BY DEF NULL
  <2>4. Word_(<<"FLOW">>, At(<<"out">>, FALSE), Filled(NewBuffer))
    BY <1>2 DEF parse_init
  <2>5. Whole(ctx, NewBuffer)
    BY WholeBuffers
  <2> QED
    BY <1>1, <2>1, <2>2, <2>3, <2>4, <2>5
<1>3. ASSUME parse_set_init PROVE PInv'
  <2> DEFINE b == [NewBuffer EXCEPT !.command = "SET"]
  <2>1. Next_(<<"SET">>) = << <<"set_commands">> >> /\ Args_(<<"SET">>) = <<>>
    BY SetTurns
  <2>2. b.command \notin Heeded /\ b.actions.set = FALSE
    BY DEF NewBuffer, Heeded, RuleCommands, MadeCommands
  <2>3. <<"entries">> # NULL
    BY DEF NULL
  <2>4. Word_(<<"SET">>, At(<<"entries">>, FALSE), Filled(b))
    BY <1>3 DEF parse_set_init
  <2>5. Whole(ctx, b)
    BY WholeBuffers
  <2> HIDE DEF b
  <2> QED
    BY <1>1, <2>1, <2>2, <2>3, <2>4, <2>5
<1> QED
  BY <1>2, <1>3

-----------------------------------------------------------------------------
(* The words of the commands. *)

\* A word of the commands
LEMMA WordOn ==
    ASSUME PInv, line = "words", NEW w, w \notin {"ITEM", "ACTION"}, NEW c, NEW b, Word_(<<w>>, c, Filled(b)), Whole(ctx, b),
           DOMAIN c = CtxFields, c.args = ctx.args, c.next = ctx.next, ~given => c.object = NULL, given => c.object # NULL,
           NEW z, ctx.next = << <<z>> >>, asked = Nothing, KeptBelow(given, ctx.args, << <<z>> >>, out),
           OverKept(<< <<z>> >>) => OverKept(Next_(<<w>>)) /\ b.command = out.command,
           Shape(given, Next_(<<w>>), Args_(<<w>>), IF Names(<<w>>) THEN <<w>> ELSE Nothing, c.object, DataOf(Filled(b))),
           given => Phased(Next_(<<w>>), <<w>>, b)
    PROVE  PInv'
<1> DEFINE t == <<w>>
           o == Filled(b)
<1>1. Whole(ctx, o) /\ (given => o = b) /\ (~given => o = NewBuffer)
  BY FilledIs
<1>2. OverKept(<< <<z>> >>) => OverKept(Next_(t)) /\ o.command = out.command
  BY DEF PInv, Filled
<1>3. t \notin Slashes
  BY DEF Slashes
<1>4. /\ Word_(t, c, o)
      /\ Shape(given, Next_(t), Args_(t), IF Names(t) THEN t ELSE Nothing, c.object, DataOf(o))
  OBVIOUS
<1>5. given => Phased(Next_(t), t, o) /\ c.object # NULL
  BY <1>1
<1> HIDE DEF t, o
<1> QED
  BY <1>1, <1>2, <1>3, <1>4, <1>5, RestWord

\* The words whose values go to the buffer
OutWords == PortWords \cup {"SHARED_ACTION_UPDATE", "SHARED_ACTION_QUERY", "SHARED_ACTION_CREATE_ID", "SET_RAW_ENCAP", "SET_RAW_DECAP",
                            "SET_SAMPLE_ACTIONS"}

LEMMA OutTurns == \A w \in OutWords : OutValues(Next_(<<w>>), Args_(<<w>>))
<1>1. \A w \in {"SHARED_ACTION", "VALIDATE", "CREATE", "DESTROY", "FLUSH", "LIST", "AGED"} : OutValues(Next_(<<w>>), Args_(<<w>>))
  BY CommandTurns DEF OutValues, AfterPort
<1>2. \A w \in {"DUMP", "QUERY", "ISOLATE"} : OutValues(Next_(<<w>>), Args_(<<w>>))
  BY CommandTurns DEF OutValues
<1>3. \A w \in {"SHARED_ACTION_UPDATE", "SHARED_ACTION_QUERY"} : OutValues(Next_(<<w>>), Args_(<<w>>))
  BY CommandTurns DEF OutValues
<1>4. \A w \in {"TUNNEL_CREATE", "TUNNEL_DESTROY", "TUNNEL_LIST"} : OutValues(Next_(<<w>>), Args_(<<w>>))
  BY AttributeTurns DEF OutValues, AfterPort
<1>5. OutValues(Next_(<<"SHARED_ACTION_CREATE_ID">>), Args_(<<"SHARED_ACTION_CREATE_ID">>))
  BY SharedTurns DEF OutValues
<1>6. \A w \in {"SET_RAW_ENCAP", "SET_RAW_DECAP", "SET_SAMPLE_ACTIONS"} : OutValues(Next_(<<w>>), Args_(<<w>>))
  BY SetTurns DEF OutValues
<1> QED
  BY <1>1, <1>2, <1>3, <1>4, <1>5, <1>6 DEF OutWords, PortWords, FirstWords

LEMMA OutShape ==
    ASSUME NEW g, NEW w \in OutWords, NEW o, NEW d, Points(g, o, <<"out">>)
    PROVE  Shape(g, Next_(<<w>>), Args_(<<w>>), IF Names(<<w>>) THEN <<w>> ELSE Nothing, o, d)
<1>1. Names(<<w>>) => w = "ISOLATE"
  BY DEF Names, OutWords, PortWords, FirstWords
<1>2. Next_(<<"ISOLATE">>) = << <<"BOOLEAN">>, <<"PORT_ID">> >>
  BY CommandTurns
<1>3. OutValues(Next_(<<w>>), Args_(<<w>>))
  BY OutTurns
<1> DEFINE q == IF Names(<<w>>) THEN <<w>> ELSE Nothing
<1>4. q = Nothing \/ (q = <<"ISOLATE">> /\ Next_(<<w>>) = << <<"BOOLEAN">>, <<"PORT_ID">> >>)
  BY <1>1, <1>2
<1> HIDE DEF q
<1>5. Shape(g, Next_(<<w>>), Args_(<<w>>), q, o, d)
  BY <1>3, <1>4 DEF Shape, AtOut
<1> QED
  BY <1>5 DEF q

\* Where no rule is made, nothing is said of how far a line is.
LEMMA FreePhase ==
    ASSUME NEW n, NEW t, NEW b, b.command \notin Heeded, n # <<>> => n[1][1] \notin HeededNames
    PROVE  Phased(n, t, b)
BY DEF Phased, Complete, Heeded, PhaseOf, HeededNames, StartNames, ItemLists, EntryLists

LEMMA RulePhase ==
    ASSUME NEW n, NEW t, NEW b, n # <<>>, n[1][1] \in HeededNames, PhaseOf(n[1][1], b)
    PROVE  Phased(n, t, b)
BY DEF Phased

\* The first word of a command
LEMMA CommandOn == ASSUME PInv, line = "words", NEW w, Command(w) PROVE PInv'
<1> DEFINE c == At(<<"out">>, FALSE)
           b == [out EXCEPT !.command = w]
<1>1. w \in FirstWords /\ Word_(<<w>>, c, Filled(b))
  BY DEF Command
<1>2. Candidate(<<w>>) /\ w \notin ValueNames /\ w \notin {"END", "ECPRI_COMMON", "ECPRI_TYPE", "ACTION", "ITEM"}
  BY <1>1 DEF Word_, ValueNames, SimpleValues, Uns, Bool, Mac, Ip4, Ip6, FirstWords
<1>3. PICK z \in RestNames :
            /\ ctx.next = << <<z>> >> /\ asked = Nothing /\ KeptBelow(given, ctx.args, << <<z>> >>, out)
            /\ CommandHome(w, z)
  BY <1>2, CommandPlace
<1>4. z = "flow_commands"
  BY <1>1, <1>3 DEF CommandHome
<1>5. DOMAIN c = CtxFields /\ c.args = ctx.args /\ c.next = ctx.next /\ Points(given, c.object, <<"out">>)
  BY AtContext
<1>6. (~given => c.object = NULL) /\ (given => c.object # NULL)
  <2>1. <<"out">> # NULL
    BY DEF NULL
  <2> HIDE DEF c
  <2> QED
    BY <1>5, <2>1 DEF Points
<1>7. ~OverKept(<< <<z>> >>)
  BY <1>4 DEF OverKept, ItemLists, EntryLists
<1>8. Whole(ctx, b)
  BY WholeBuffers
<1>9. b.command = w /\ b.actions = out.actions
  BY DEF PInv, Whole, OutFields
<1>10. given => out.actions.set = FALSE
  BY <1>3, <1>4, PhaseNow DEF PhaseOf, StartNames
<1>11. CASE w = "TUNNEL"
  <2>1. Next_(<<w>>) = << <<"tunnel_commands">> >> /\ Args_(<<w>>) = <<>>
    BY <1>11, AttributeTurns
  <2>2. ~Names(<<w>>)
    BY <1>11 DEF Names
  <2>3. "tunnel_commands" \in RestNames
    BY DEF RestNames
  <2> HIDE DEF c, b
  <2>4. Shape(given, Next_(<<w>>), Args_(<<w>>), Nothing, c.object, DataOf(Filled(b)))
    BY <1>5, <2>1, <2>3, NextIsRest
  <2>5. b.command \notin Heeded
    BY <1>9, <1>11 DEF Heeded, RuleCommands, MadeCommands
  <2>6. "tunnel_commands" \notin HeededNames
    BY DEF HeededNames, StartNames, ItemLists, EntryLists
  <2>7. Phased(Next_(<<w>>), <<w>>, b)
    BY <2>1, <2>5, <2>6, FreePhase
  <2> QED
    BY <1>1, <1>2, <1>3, <1>5, <1>6, <1>7, <1>8, <2>2, <2>4, <2>7, WordOn
<1>12. CASE w # "TUNNEL"
  <2>1. w \in OutWords
    BY <1>1, <1>12 DEF OutWords, PortWords
  <2> HIDE DEF c
  <2>2. Shape(given, Next_(<<w>>), Args_(<<w>>), IF Names(<<w>>) THEN <<w>> ELSE Nothing, c.object, DataOf(Filled(b)))
    BY <1>5, <2>1, OutShape
  <2> HIDE DEF b
  <2>3. given => Phased(Next_(<<w>>), <<w>>, b)
    <3>1. CASE w \in {"VALIDATE", "CREATE"}
      <4>1. Next_(<<w>>) # <<>> /\ Next_(<<w>>)[1][1] = "next_vc_attr"
        BY <3>1, CommandTurns
      <4>2. given => PhaseOf("next_vc_attr", b) /\ "next_vc_attr" \in HeededNames
        BY <1>9, <1>10, <3>1 DEF PhaseOf, StartNames, ItemLists, EntryLists, HeededNames, RuleCommands
      <4> QED
        BY <4>1, <4>2, RulePhase
    <3>2. CASE w = "SHARED_ACTION"
      <4>1. Next_(<<w>>) # <<>> /\ Next_(<<w>>)[1][1] = "next_sa_subcmd"
        BY <3>2, CommandTurns
      <4>2. b.command \notin Heeded
        BY <1>9, <3>2 DEF Heeded, RuleCommands, MadeCommands
      <4>3. given => PhaseOf("next_sa_subcmd", b) /\ "next_sa_subcmd" \in HeededNames
        BY <1>9, <1>10, <4>2 DEF PhaseOf, StartNames, ItemLists, EntryLists, HeededNames
      <4> QED
        BY <4>1, <4>3, RulePhase
    <3>3. CASE w \in {"DESTROY", "FLUSH", "DUMP", "QUERY", "LIST", "AGED", "ISOLATE"}
      <4>1. Next_(<<w>>)[1][1] \in {"DESTROY_RULE", "PORT_ID", "next_dump_attr", "QUERY_ACTION", "next_list_attr", "next_aged_attr", "BOOLEAN"}
        <5>1. /\ Next_(<<"DESTROY">>)[1][1] = "DESTROY_RULE" /\ Next_(<<"FLUSH">>)[1][1] = "PORT_ID"
              /\ Next_(<<"DUMP">>)[1][1] = "next_dump_attr" /\ Next_(<<"QUERY">>)[1][1] = "QUERY_ACTION"
              /\ Next_(<<"LIST">>)[1][1] = "next_list_attr" /\ Next_(<<"AGED">>)[1][1] = "next_aged_attr"
              /\ Next_(<<"ISOLATE">>)[1][1] = "BOOLEAN"
          BY CommandTurns
        <5> QED
          BY ONLY <3>3, <5>1
      <4>2. b.command \notin Heeded
        BY <1>9, <3>3 DEF Heeded, RuleCommands, MadeCommands
      <4>3. Next_(<<w>>)[1][1] \notin HeededNames
        BY <4>1 DEF HeededNames, StartNames, ItemLists, EntryLists
      <4> QED
        BY <4>2, <4>3, FreePhase
    <3> QED
      BY <1>1, <1>12, <3>1, <3>2, <3>3 DEF FirstWords
  <2> QED
    BY <1>1, <1>2, <1>3, <1>5, <1>6, <1>7, <1>8, <2>2, <2>3, WordOn
<1> QED
  BY <1>11, <1>12

LEMMA NoValueWords ==
    /\ (DOMAIN NamedTokens \ {"SET_RAW_INDEX", "SET_SAMPLE_INDEX"}) \cap ValueNames = {}
    /\ "AGED_DESTROY" \notin ValueNames /\ "END_SET" \notin ValueNames
BY TokensOfAll, TokenNames DEF ValueNames, SimpleValues, Uns, Bool, Mac, Ip4, Ip6

\* The place of a word that is no value
LEMMA WordPlace ==
    ASSUME PInv, line = "words", NEW w,
           w \in (DOMAIN NamedTokens \ {"SET_RAW_INDEX", "SET_SAMPLE_INDEX"}) \cup {"AGED_DESTROY", "END_SET"},
           w \notin {"ECPRI_COMMON", "ECPRI_TYPE"}, NEW c, NEW b, Word_(<<w>>, c, b)
    PROVE  /\ \E x \in RestNames :
              /\ ctx.next = << <<x>> >> /\ asked = Nothing /\ KeptBelow(given, ctx.args, << <<x>> >>, out)
              /\ CommandHome(w, x)
              /\ x \in {"next_sa_create_attr", "tunnel_commands"} => Points(given, ctx.object, <<"out">>)
              /\ given => PhaseOf(x, out) /\ (x \notin HeededNames => out.command \notin Heeded)
           /\ given => ctx.object # NULL \/ w \in {"FLOW", "SET"}
<1>1. Candidate(<<w>>)
  BY DEF Word_
<1>2. w \notin ValueNames
  BY NoValueWords
<1>3. w \notin {"END", "ECPRI_COMMON", "ECPRI_TYPE", "ACTION", "ITEM"}
  BY TokensOfAll, TokenNames
<1>4. PICK x \in RestNames :
              /\ ctx.next = << <<x>> >> /\ asked = Nothing /\ KeptBelow(given, ctx.args, << <<x>> >>, out)
              /\ CommandHome(w, x)
              /\ x \in {"next_sa_create_attr", "tunnel_commands"} => Points(given, ctx.object, <<"out">>)
  BY <1>1, <1>2, <1>3, CommandPlace
<1>5. given => PhaseOf(x, out) /\ (x \notin HeededNames => out.command \notin Heeded)
  BY <1>4, PhaseNow
<1>6. given => ctx.object # NULL \/ w \in {"FLOW", "SET"}
  <2>1. <<w>>[1] = w
    OBVIOUS
  <2> QED
    BY <1>1, <2>1, HasObject
<1> QED
  BY <1>4, <1>5, <1>6

\* Where the context is, or is not, pointed at an object
LEMMA AtIs ==
    ASSUME PInv, NEW x, x # NULL, NEW k
    PROVE  LET c == At(x, k)
           IN  /\ DOMAIN c = CtxFields /\ c.args = ctx.args /\ c.next = ctx.next /\ Points(given, c.object, x)
               /\ ~given => c.object = NULL
               /\ given => c.object # NULL
<1> DEFINE c == At(x, k)
<1>1. DOMAIN c = CtxFields /\ c.args = ctx.args /\ c.next = ctx.next /\ Points(given, c.object, x)
  BY AtContext
<1> HIDE DEF c
<1>2. (~given => c.object = NULL) /\ (given => c.object # NULL)
  BY <1>1 DEF Points
<1> QED
  BY <1>1, <1>2 DEF c

LEMMA Objects == {<<"out">>, <<"id">>, <<"attr">>, <<"tunnel_ops">>, <<"entries">>, <<"item">>, <<"action">>} \cap {NULL} = {}
BY DEF NULL

LEMMA Commanded ==
    ASSUME PInv, NEW w
    PROVE  /\ [out EXCEPT !.command = w].command = w /\ [out EXCEPT !.command = w].actions = out.actions
           /\ [out EXCEPT !.command = w].pattern = out.pattern
           /\ LET b == [out EXCEPT !.command = w, !.actions.set = TRUE]
              IN  b.command = w /\ b.actions.set = TRUE /\ b.pattern = out.pattern
           /\ LET b == [out EXCEPT !.actions.set = TRUE]
              IN  b.command = out.command /\ b.actions.set = TRUE /\ b.pattern = out.pattern
           /\ LET b == [out EXCEPT !.ids = @ + 1]
              IN  b.command = out.command /\ b.actions = out.actions /\ b.pattern = out.pattern
BY DEF PInv, Whole, OutFields

\* The second word of "tunnel", and what it names
LEMMA TunnelOn == ASSUME PInv, line = "words", NEW w, parse_tunnel(w) PROVE PInv'
<1>1. CASE w \in {"TUNNEL_CREATE", "TUNNEL_DESTROY", "TUNNEL_LIST"}
  <2> DEFINE b == [out EXCEPT !.command = w]
  <2>1. Word_(<<w>>, ctx, Filled(b))
    BY <1>1 DEF parse_tunnel
  <2>2. w \in DOMAIN NamedTokens \ {"SET_RAW_INDEX", "SET_SAMPLE_INDEX"} /\ w \notin {"ECPRI_COMMON", "ECPRI_TYPE"}
    BY <1>1, TokensOfAll, TokenNames
  <2>3. given => ctx.object # NULL
    BY <1>1, <2>1, <2>2, WordPlace
  <2>4. PICK z \in RestNames :
              /\ ctx.next = << <<z>> >> /\ asked = Nothing /\ KeptBelow(given, ctx.args, << <<z>> >>, out)
              /\ CommandHome(w, z)
              /\ z \in {"next_sa_create_attr", "tunnel_commands"} => Points(given, ctx.object, <<"out">>)
    BY <2>1, <2>2, WordPlace
  <2>5. z = "tunnel_commands" /\ Points(given, ctx.object, <<"out">>)
    BY <1>1, <2>4 DEF CommandHome
  <2>6. ~OverKept(<< <<z>> >>)
    BY <2>5 DEF OverKept, ItemLists, EntryLists
  <2>7. w \in OutWords
    BY <1>1 DEF OutWords, PortWords
  <2>8. Shape(given, Next_(<<w>>), Args_(<<w>>), IF Names(<<w>>) THEN <<w>> ELSE Nothing, ctx.object, DataOf(Filled(b)))
    BY <2>5, <2>7, OutShape
  <2>9. Whole(ctx, b) /\ b.command = w
    BY WholeBuffers, Commanded
  <2> HIDE DEF b
  <2>10. Phased(Next_(<<w>>), <<w>>, b)
    <3>1. Next_(<<w>>)[1][1] \in {"TUNNEL_CREATE_TYPE", "TUNNEL_DESTROY_ID", "PORT_ID"}
      <4>1. /\ /\ Next_(<<"TUNNEL_CREATE">>)[1][1] = "TUNNEL_CREATE_TYPE"
            /\ Next_(<<"TUNNEL_DESTROY">>)[1][1] = "TUNNEL_DESTROY_ID"
            /\ Next_(<<"TUNNEL_LIST">>)[1][1] = "PORT_ID"
        BY AttributeTurns
      <4> QED
        BY ONLY <1>1, <4>1
    <3>2. Next_(<<w>>)[1][1] \notin HeededNames
      BY <3>1 DEF HeededNames, StartNames, ItemLists, EntryLists
    <3>3. b.command \notin Heeded
      BY <1>1, <2>9 DEF Heeded, RuleCommands, MadeCommands
    <3> QED
      BY <3>2, <3>3, FreePhase
  <2>11. DOMAIN ctx = CtxFields /\ (~given => ctx.object = NULL) /\ w \notin {"ITEM", "ACTION"}
    BY <1>1, SameContext DEF PInv
  <2> QED
    BY <2>1, <2>3, <2>4, <2>6, <2>8, <2>9, <2>10, <2>11, WordOn
<1>2. CASE w \in {"TUNNEL_CREATE_TYPE", "TUNNEL_DESTROY_ID"}
  <2> DEFINE c == IF given THEN [ctx EXCEPT !.object = <<"tunnel_ops">>] ELSE ctx
  <2>1. Word_(<<w>>, c, out)
    BY <1>2 DEF parse_tunnel
  <2>2. w \in DOMAIN NamedTokens \ {"SET_RAW_INDEX", "SET_SAMPLE_INDEX"} /\ w \notin {"ECPRI_COMMON", "ECPRI_TYPE"}
    BY <1>2, TokensOfAll, TokenNames
  <2>3. PICK z \in RestNames :
              /\ ctx.next = << <<z>> >> /\ asked = Nothing /\ KeptBelow(given, ctx.args, << <<z>> >>, out)
              /\ CommandHome(w, z)
              /\ given => PhaseOf(z, out) /\ (z \notin HeededNames => out.command \notin Heeded)
    BY <2>1, <2>2, WordPlace
  <2>4. z = w
    BY <1>2, <2>3 DEF CommandHome
  <2>5. ~OverKept(<< <<z>> >>)
    BY <1>2, <2>4 DEF OverKept, ItemLists, EntryLists
  <2>6. /\ DOMAIN c = CtxFields /\ c.args = ctx.args /\ c.next = ctx.next /\ Points(given, c.object, <<"tunnel_ops">>)
        /\ ~given => c.object = NULL
    BY DEF PInv, Whole, CtxFields, Points
  <2>7. Filled(out) = out /\ Whole(ctx, out)
    BY WholeBuffers DEF Filled
  <2> HIDE DEF c
  <2>8. given => c.object # NULL
    BY <2>6, Objects DEF Points
  <2>9. Shape(given, Next_(<<w>>), Args_(<<w>>), IF Names(<<w>>) THEN <<w>> ELSE Nothing, c.object, DataOf(Filled(out)))
    <3>1. Names(<<w>>)
      BY <1>2 DEF Names
    <3>2. AtNamed(given, Next_(<<w>>), Args_(<<w>>), <<w>>, c.object)
      BY <1>2, <2>6 DEF AtNamed, NamedWords
    <3> QED
      BY <3>1, <3>2 DEF Shape
  <2>10. given => Phased(Next_(<<w>>), <<w>>, out)
    <3>1. Next_(<<w>>)[1][1] \in {"FILE_PATH", "UNSIGNED"}
      <4>1. Next_(<<"TUNNEL_CREATE_TYPE">>)[1][1] = "FILE_PATH" /\ Next_(<<"TUNNEL_DESTROY_ID">>)[1][1] = "UNSIGNED"
        BY AttributeTurns
      <4> QED
        BY ONLY <1>2, <4>1
    <3>2. Next_(<<w>>)[1][1] \notin HeededNames /\ z \notin HeededNames
      BY <1>2, <2>4, <3>1 DEF HeededNames, StartNames, ItemLists, EntryLists
    <3> QED
      BY <2>3, <3>2, FreePhase
  <2>11. w \notin {"ITEM", "ACTION"} /\ Word_(<<w>>, c, Filled(out))
    BY <1>2, <2>1, <2>7
  <2> QED
    BY <2>3, <2>5, <2>6, <2>7, <2>8, <2>9, <2>10, <2>11, WordOn
<1> QED
  BY <1>1, <1>2 DEF parse_tunnel

LEMMA AgedOn == ASSUME PInv, line = "words", NEW w, parse_aged(w) PROVE PInv'
<1>1. w = "AGED_DESTROY" /\ Word_(<<w>>, ctx, out)
  BY DEF parse_aged
<1>2. PICK z \in RestNames :
              /\ ctx.next = << <<z>> >> /\ asked = Nothing /\ KeptBelow(given, ctx.args, << <<z>> >>, out)
              /\ CommandHome(w, z)
              /\ given => PhaseOf(z, out) /\ (z \notin HeededNames => out.command \notin Heeded)
  BY <1>1, WordPlace
<1>3. given => ctx.object # NULL
  <2>1. w \in (DOMAIN NamedTokens \ {"SET_RAW_INDEX", "SET_SAMPLE_INDEX"}) \cup {"AGED_DESTROY", "END_SET"}
        /\ w \notin {"ECPRI_COMMON", "ECPRI_TYPE"} /\ w \notin {"FLOW", "SET"}
    BY <1>1
  <2>2. Word_(<<w>>, ctx, out)
    BY <1>1
  <2> QED
    BY ONLY PInv, line = "words", <2>1, <2>2, WordPlace
<1>4. z = "next_aged_attr"
  BY <1>1, <1>2 DEF CommandHome
<1>5. ~OverKept(<< <<z>> >>)
  BY <1>4 DEF OverKept, ItemLists, EntryLists
<1>6. Next_(<<w>>) = <<>> /\ Args_(<<w>>) = <<>> /\ ~Names(<<w>>)
  BY <1>1, ValueTurn DEF PlainValues, Names
<1>7. Filled(out) = out /\ Whole(ctx, out)
  BY WholeBuffers DEF Filled
<1>8. Shape(given, Next_(<<w>>), Args_(<<w>>), IF Names(<<w>>) THEN <<w>> ELSE Nothing, ctx.object, DataOf(Filled(out)))
  BY <1>6, NoneLeft
<1>9. given => Phased(Next_(<<w>>), <<w>>, out)
  <2>1. z \notin HeededNames
    BY <1>4 DEF HeededNames, StartNames, ItemLists, EntryLists
  <2> QED
    BY <1>2, <1>6, <2>1, FreePhase
<1>10. DOMAIN ctx = CtxFields /\ (~given => ctx.object = NULL) /\ w \notin {"ITEM", "ACTION"} /\ Word_(<<w>>, ctx, Filled(out))
  BY <1>1, <1>7, SameContext DEF PInv
<1> QED
  BY <1>2, <1>3, <1>5, <1>7, <1>8, <1>9, <1>10, WordOn

\* A word whose values go to the buffer
LEMMA OutWordOn ==
    ASSUME PInv, line = "words", NEW w \in OutWords, NEW c, NEW b, Word_(<<w>>, c, Filled(b)), Whole(ctx, b),
           DOMAIN c = CtxFields, c.args = ctx.args, c.next = ctx.next, Points(given, c.object, <<"out">>),
           NEW z, ctx.next = << <<z>> >>, asked = Nothing, KeptBelow(given, ctx.args, << <<z>> >>, out),
           ~OverKept(<< <<z>> >>),
           given => Phased(Next_(<<w>>), <<w>>, b)
    PROVE  PInv'
<1>1. Shape(given, Next_(<<w>>), Args_(<<w>>), IF Names(<<w>>) THEN <<w>> ELSE Nothing, c.object, DataOf(Filled(b)))
  BY OutShape
<1>2. (~given => c.object = NULL) /\ (given => c.object # NULL)
  BY Objects DEF Points
<1>3. w \notin {"ITEM", "ACTION"}
  BY DEF OutWords, PortWords, FirstWords
<1> QED
  BY <1>1, <1>2, <1>3, WordOn

\* A word after which there is a list y of words
LEMMA RestWordOn ==
    ASSUME PInv, line = "words", NEW w, w \notin {"ITEM", "ACTION"}, NEW c, NEW b, Word_(<<w>>, c, Filled(b)), Whole(ctx, b),
           DOMAIN c = CtxFields, c.args = ctx.args, c.next = ctx.next, ~given => c.object = NULL, given => c.object # NULL,
           NEW z, ctx.next = << <<z>> >>, asked = Nothing, KeptBelow(given, ctx.args, << <<z>> >>, out),
           NEW y \in RestNames, y \in {"next_sa_create_attr", "tunnel_commands"} => Points(given, c.object, <<"out">>),
           Next_(<<w>>) = << <<y>> >>, Args_(<<w>>) = <<>>, ~Names(<<w>>),
           OverKept(<< <<z>> >>) => OverKept(<< <<y>> >>) /\ b.command = out.command,
           given => PhaseOf(y, b) /\ (y \notin HeededNames => b.command \notin Heeded)
    PROVE  PInv'
<1>1. Shape(given, Next_(<<w>>), Args_(<<w>>), Nothing, c.object, DataOf(Filled(b)))
  BY NextIsRest
<1>2. given => Phased(Next_(<<w>>), <<w>>, b)
  <2>1. Next_(<<w>>) # <<>> /\ Next_(<<w>>)[1][1] = y
    OBVIOUS
  <2> QED
    BY <2>1 DEF Phased
<1>3. OverKept(<< <<z>> >>) => OverKept(Next_(<<w>>)) /\ b.command = out.command
  OBVIOUS
<1> QED
  BY <1>1, <1>2, <1>3, WordOn

\* Another identifier
LEMMA AnotherIdOn == ASSUME PInv, line = "words", NEW w, AnotherId(w) PROVE PInv'
<1> DEFINE c == At(<<"id">>, FALSE)
           b == [out EXCEPT !.ids = @ + 1]
<1>1. w \in IdWords /\ Word_(<<w>>, c, Filled(b))
  BY DEF AnotherId, IdWords
<1>2. w \in DOMAIN NamedTokens \ {"SET_RAW_INDEX", "SET_SAMPLE_INDEX"} /\ w \notin {"ECPRI_COMMON", "ECPRI_TYPE"}
  BY <1>1, TokensOfAll, TokenNames DEF IdWords
<1>3. PICK z \in RestNames :
            /\ ctx.next = << <<z>> >> /\ asked = Nothing /\ KeptBelow(given, ctx.args, << <<z>> >>, out)
            /\ CommandHome(w, z)
            /\ given => PhaseOf(z, out) /\ (z \notin HeededNames => out.command \notin Heeded)
  BY <1>1, <1>2, WordPlace
<1>4. /\ w = "DESTROY_RULE" => z \in {"DESTROY_RULE", "next_destroy_attr"}
      /\ w = "LIST_GROUP" => z = "next_list_attr"
      /\ w = "SHARED_ACTION_DESTROY_ID" => z \in {"SHARED_ACTION_DESTROY_ID", "next_sa_destroy_attr"}
  BY <1>3 DEF CommandHome
<1>5. z \notin HeededNames
  BY <1>1, <1>4 DEF HeededNames, StartNames, ItemLists, EntryLists, IdWords
<1>6. /\ DOMAIN c = CtxFields /\ c.args = ctx.args /\ c.next = ctx.next /\ Points(given, c.object, <<"id">>)
      /\ ~given => c.object = NULL
      /\ given => c.object # NULL
  BY AtIs, Objects
<1>7. Whole(ctx, b) /\ b.command = out.command
  BY WholeBuffers, Commanded
<1> HIDE DEF b, c
<1>8. ~Names(<<w>>) /\ w \notin {"ITEM", "ACTION"}
  BY <1>1 DEF Names, IdWords
<1>9. Shape(given, Next_(<<w>>), Args_(<<w>>), IF Names(<<w>>) THEN <<w>> ELSE Nothing, c.object, DataOf(Filled(b)))
  <2>1. AtId(given, Next_(<<w>>), Args_(<<w>>), Nothing, c.object)
    BY <1>1, <1>6 DEF AtId
  <2> QED
    BY <1>8, <2>1 DEF Shape
<1>10. /\ w = "DESTROY_RULE" => Next_(<<w>>)[1][1] = "next_destroy_attr"
       /\ w = "LIST_GROUP" => Next_(<<w>>)[1][1] = "next_list_attr"
       /\ w = "SHARED_ACTION_DESTROY_ID" => Next_(<<w>>)[1][1] = "next_sa_destroy_attr"
  <2>1. /\ Next_(<<"DESTROY_RULE">>)[1][1] = "next_destroy_attr"
        /\ Next_(<<"LIST_GROUP">>)[1][1] = "next_list_attr"
        /\ Next_(<<"SHARED_ACTION_DESTROY_ID">>)[1][1] = "next_sa_destroy_attr"
    BY AttributeTurns, SharedTurns
  <2> QED
    BY ONLY <2>1
<1>11. Next_(<<w>>)[1][1] \notin HeededNames
  BY <1>1, <1>10 DEF HeededNames, StartNames, ItemLists, EntryLists, IdWords
<1>12. given => Phased(Next_(<<w>>), <<w>>, b)
  BY <1>3, <1>5, <1>7, <1>11, FreePhase
<1>13. OverKept(<< <<z>> >>) => OverKept(Next_(<<w>>)) /\ b.command = out.command
  <2>1. CASE w = "SHARED_ACTION_DESTROY_ID"
    BY <1>7, <1>10, <2>1 DEF OverKept
  <2>2. CASE w # "SHARED_ACTION_DESTROY_ID"
    BY <1>1, <1>4, <2>2 DEF OverKept, ItemLists, EntryLists, IdWords
  <2> QED
    BY <2>1, <2>2
<1> QED
  BY <1>1, <1>3, <1>6, <1>7, <1>8, <1>9, <1>12, <1>13, WordOn

\* "shared_action destroy" pushes the port again.
LEMMA SharedDestroyOn == ASSUME PInv, line = "words", NEW w, parse_sa_destroy(w) PROVE PInv'
<1> DEFINE c == At(<<"out">>, FALSE)
           b == [out EXCEPT !.command = w]
           o == Filled(b)
           t == <<w>>
           base == ctx.args \o <<Out("port")>>
           m == << <<"SHARED_ACTION_DESTROY_ID">> >>
<1>1. w = "SHARED_ACTION_DESTROY" /\ Word_(t, c, o)
  BY DEF parse_sa_destroy
<1>2. w \in DOMAIN NamedTokens \ {"SET_RAW_INDEX", "SET_SAMPLE_INDEX"} /\ w \notin {"ECPRI_COMMON", "ECPRI_TYPE"}
  BY <1>1, TokensOfAll, TokenNames
<1>3. PICK z \in RestNames :
            /\ ctx.next = << <<z>> >> /\ asked = Nothing /\ KeptBelow(given, ctx.args, << <<z>> >>, out)
            /\ CommandHome(w, z)
  BY <1>1, <1>2, WordPlace
<1>4. z = "next_sa_subcmd"
  BY <1>1, <1>3 DEF CommandHome
<1>5. ctx.args \in Seq(KeptPlaces) /\ (given => ctx.args = <<>>)
  BY <1>3, <1>4 DEF KeptBelow, OverKept, ItemLists, EntryLists
<1>6. /\ DOMAIN c = CtxFields /\ c.args = ctx.args /\ c.next = ctx.next /\ Points(given, c.object, <<"out">>)
      /\ ~given => c.object = NULL
      /\ given => c.object # NULL
  BY AtIs, Objects
<1>7. Whole(ctx, b) /\ b.command = w
  BY WholeBuffers, Commanded
<1>8. Whole(ctx, o) /\ (given => o = b) /\ (~given => o = NewBuffer)
  BY <1>7, FilledIs
<1>9. Next_(t) = m /\ Args_(t) = <<Out("port")>>
  BY <1>1, CommandTurns
<1> HIDE DEF c, b, o
<1>10. base \in Seq(KeptPlaces) /\ base \o <<>> = base
  BY <1>5, Absorbed DEF KeptPlaces
<1>11. given => base = <<Out("port")>>
  BY <1>5, OnEmpty
<1>12. KeptBelow(given, base, m, o)
  BY <1>1, <1>7, <1>8, <1>10, <1>11 DEF KeptBelow, OverKept
<1>13. Shape(given, m, <<>>, Nothing, c.object, DataOf(o))
  BY NextIsRest DEF RestNames
<1>14. given => Phased(m, t, o)
  <2>1. w \notin Heeded
    BY <1>1 DEF Heeded, RuleCommands, MadeCommands
  <2>2. m[1][1] \notin HeededNames
    BY DEF HeededNames, StartNames, ItemLists, EntryLists
  <2> HIDE DEF t, m
  <2> QED
    BY <1>7, <1>8, <2>1, <2>2, FreePhase
<1>15. t \notin Slashes /\ ~Names(t)
  BY <1>1 DEF Slashes, Names
<1>16. Keeps(given, base, m, <<>>, t, Nothing, c.object, o)
  BY <1>6, <1>12, <1>13, <1>14, <1>15 DEF Keeps
<1>17. Front(c.next) \o Next_(t) = m
  <2>1. Front(c.next) = <<>>
    BY <1>3, <1>6, TopOfOne
  <2>2. <<>> \o m = m
    BY OnEmpty
  <2> QED
    BY <1>9, <2>1, <2>2
<1>18. c.args \o Args_(t) = base \o <<>>
  BY <1>6, <1>9, <1>10
<1>19. Keeps(given, base, Front(c.next) \o Next_(t), <<>>, t, IF Names(t) THEN t ELSE asked, c.object, o)
  BY <1>3, <1>15, <1>16, <1>17
<1>20. Whole([next |-> <<>>, args |-> <<>>, curr |-> t, object |-> NULL, objmask |-> FALSE, count |-> 0], o)
  BY <1>8 DEF Whole, CtxFields
<1> HIDE DEF t, base, m
<1> QED
  BY <1>1, <1>6, <1>8, <1>18, <1>19, <1>20, WordStays

\* A command whose values go to the buffer, read with the context at the buffer
LEMMA OutTurnOn ==
    ASSUME PInv, line = "words", NEW w \in OutWords, w \in DOMAIN NamedTokens, NEW b, Whole(ctx, b),
           Word_(<<w>>, At(<<"out">>, FALSE), Filled(b)), given => Phased(Next_(<<w>>), <<w>>, b)
    PROVE  PInv'
<1> DEFINE c == At(<<"out">>, FALSE)
<1>1. w \notin {"SET_RAW_INDEX", "SET_SAMPLE_INDEX", "ECPRI_COMMON", "ECPRI_TYPE"}
  BY DEF OutWords, PortWords, FirstWords
<1>2. PICK z \in RestNames :
            /\ ctx.next = << <<z>> >> /\ asked = Nothing /\ KeptBelow(given, ctx.args, << <<z>> >>, out)
            /\ CommandHome(w, z)
  BY <1>1, WordPlace
<1>3. z \in {"flow_commands", "set_commands", "next_sa_subcmd", "next_sa_create_attr", "tunnel_commands"}
  BY <1>2 DEF CommandHome, OutWords, PortWords, FirstWords
<1>4. ~OverKept(<< <<z>> >>)
  BY <1>3 DEF OverKept, ItemLists, EntryLists
<1>5. DOMAIN c = CtxFields /\ c.args = ctx.args /\ c.next = ctx.next /\ Points(given, c.object, <<"out">>)
  BY AtIs, Objects
<1> HIDE DEF c
<1>6. Word_(<<w>>, c, Filled(b))
  BY DEF c
<1> QED
  BY <1>2, <1>4, <1>5, <1>6, OutWordOn

\* The second words of "shared_action"
LEMMA SharedOn == ASSUME PInv, line = "words", NEW w, parse_sa(w) PROVE PInv'
<1>1. CASE w = "SHARED_ACTION_UPDATE"
  <2> DEFINE b == [out EXCEPT !.command = w, !.actions.set = TRUE]
  <2>1. Word_(<<w>>, At(<<"out">>, FALSE), Filled(b))
    BY <1>1 DEF parse_sa
  <2>2. w \in DOMAIN NamedTokens /\ w \in OutWords
    BY <1>1, TokensOfAll, TokenNames DEF OutWords
  <2>3. Whole(ctx, b) /\ b.command = w /\ b.actions.set = TRUE
    BY WholeBuffers, Commanded
  <2> HIDE DEF b
  <2>4. Next_(<<w>>) # <<>> /\ Next_(<<w>>)[1][1] = "SHARED_ACTION_SPEC"
    BY <1>1, CommandTurns
  <2>5. PhaseOf("SHARED_ACTION_SPEC", b) /\ "SHARED_ACTION_SPEC" \in HeededNames
    BY <1>1, <2>3 DEF PhaseOf, HeededNames, StartNames, ItemLists, EntryLists, MadeCommands
  <2>6. Phased(Next_(<<w>>), <<w>>, b)
    BY <2>4, <2>5, RulePhase
  <2> QED
    BY <2>1, <2>2, <2>3, <2>6, OutTurnOn
<1>2. CASE w = "SHARED_ACTION_QUERY"
  <2> DEFINE b == [out EXCEPT !.command = w]
  <2>1. Word_(<<w>>, At(<<"out">>, FALSE), Filled(b))
    BY <1>2 DEF parse_sa
  <2>2. w \in DOMAIN NamedTokens /\ w \in OutWords
    BY <1>2, TokensOfAll, TokenNames DEF OutWords
  <2>3. Whole(ctx, b) /\ b.command = w
    BY WholeBuffers, Commanded
  <2> HIDE DEF b
  <2>4. Next_(<<w>>)[1][1] = "END"
    BY <1>2, CommandTurns
  <2>5. b.command \notin Heeded /\ Next_(<<w>>)[1][1] \notin HeededNames
    BY <1>2, <2>3, <2>4 DEF Heeded, RuleCommands, MadeCommands, HeededNames, StartNames, ItemLists, EntryLists
  <2>6. Phased(Next_(<<w>>), <<w>>, b)
    BY <2>5, FreePhase
  <2> QED
    BY <2>1, <2>2, <2>3, <2>6, OutTurnOn
<1>3. CASE w = "SHARED_ACTION_CREATE"
  <2> DEFINE c == At(<<"out">>, FALSE)
             b == [out EXCEPT !.command = w, !.actions.set = TRUE]
  <2>1. Word_(<<w>>, c, Filled(b))
    BY <1>3 DEF parse_sa
  <2>2. w \in DOMAIN NamedTokens \ {"SET_RAW_INDEX", "SET_SAMPLE_INDEX"} /\ w \notin {"ECPRI_COMMON", "ECPRI_TYPE"}
    BY <1>3, TokensOfAll, TokenNames
  <2>3. PICK z \in RestNames :
              /\ ctx.next = << <<z>> >> /\ asked = Nothing /\ KeptBelow(given, ctx.args, << <<z>> >>, out)
              /\ CommandHome(w, z)
    BY <2>1, <2>2, WordPlace
  <2>4. ~OverKept(<< <<z>> >>)
    BY <1>3, <2>3 DEF CommandHome, OverKept, ItemLists, EntryLists
  <2>5. /\ DOMAIN c = CtxFields /\ c.args = ctx.args /\ c.next = ctx.next /\ Points(given, c.object, <<"out">>)
        /\ ~given => c.object = NULL
        /\ given => c.object # NULL
    BY AtIs, Objects
  <2>6. Whole(ctx, b) /\ b.command = w /\ b.actions.set = TRUE
    BY WholeBuffers, Commanded
  <2> HIDE DEF b, c
  <2> DEFINE y == "next_sa_create_attr"
  <2>7. Next_(<<w>>) = << <<y>> >> /\ Args_(<<w>>) = <<>> /\ y \in RestNames
    BY <1>3, CommandTurns DEF RestNames
  <2>8. ~Names(<<w>>) /\ w \notin {"ITEM", "ACTION"}
    BY <1>3 DEF Names
  <2>9. PhaseOf(y, b) /\ y \in HeededNames
    BY <1>3, <2>6 DEF PhaseOf, HeededNames, StartNames, ItemLists, EntryLists, MadeCommands
  <2> HIDE DEF y
  <2> QED
    BY <2>1, <2>3, <2>4, <2>5, <2>6, <2>7, <2>8, <2>9, RestWordOn
<1>4. CASE w \in {"SHARED_ACTION_INGRESS", "SHARED_ACTION_EGRESS", "SHARED_ACTION_TRANSFER"}
  <2>1. Word_(<<w>>, ctx, out)
    BY <1>4 DEF parse_sa
  <2>2. /\ w \in DOMAIN NamedTokens \ {"SET_RAW_INDEX", "SET_SAMPLE_INDEX"}
        /\ w \notin {"ECPRI_COMMON", "ECPRI_TYPE", "FLOW", "SET"}
    BY <1>4, TokensOfAll, TokenNames
  <2> DEFINE y == "next_sa_create_attr"
  <2>3. PICK z \in RestNames :
              /\ ctx.next = << <<z>> >> /\ asked = Nothing /\ KeptBelow(given, ctx.args, << <<z>> >>, out)
              /\ CommandHome(w, z)
              /\ z \in {"next_sa_create_attr", "tunnel_commands"} => Points(given, ctx.object, <<"out">>)
              /\ given => PhaseOf(z, out) /\ (z \notin HeededNames => out.command \notin Heeded)
    BY <2>1, <2>2, WordPlace
  <2>4. given => ctx.object # NULL
    BY <2>1, <2>2, WordPlace
  <2>5. z = y
    BY <1>4, <2>3 DEF CommandHome
  <2>6. Next_(<<w>>) = << <<y>> >> /\ Args_(<<w>>) = <<>>
    BY <1>4, SharedTurns
  <2>7. ~Names(<<w>>) /\ w \notin {"ITEM", "ACTION"}
    BY <1>4 DEF Names
  <2>8. Filled(out) = out /\ Whole(ctx, out) /\ DOMAIN ctx = CtxFields /\ (~given => ctx.object = NULL)
    BY WholeBuffers, SameContext DEF Filled, PInv
  <2>9. Word_(<<w>>, ctx, Filled(out))
    BY <2>1, <2>8
  <2>10. ~OverKept(<< <<z>> >>)
    BY <2>5 DEF OverKept, ItemLists, EntryLists
  <2> HIDE DEF y
  <2> QED
    BY <2>3, <2>4, <2>5, <2>6, <2>7, <2>8, <2>9, <2>10, RestWordOn
<1> QED
  BY <1>1, <1>2, <1>3, <1>4 DEF parse_sa

\* "set raw_encap", "set raw_decap" and "set sample_actions"
LEMMA SetOn == ASSUME PInv, line = "words", NEW w, parse_set_raw_encap_decap(w) \/ parse_set_sample_action(w) PROVE PInv'
<1>1. CASE parse_set_raw_encap_decap(w)
  <2> DEFINE b == [out EXCEPT !.command = w]
  <2>1. w \in RawCommands /\ Word_(<<w>>, At(<<"out">>, FALSE), Filled(b))
    BY <1>1 DEF parse_set_raw_encap_decap, RawCommands
  <2>2. w \in DOMAIN NamedTokens /\ w \in OutWords
    BY <2>1, TokensOfAll, TokenNames DEF OutWords, RawCommands
  <2>3. Whole(ctx, b) /\ b.command = w /\ b.actions = out.actions
    BY WholeBuffers, Commanded
  <2>4. PICK z \in RestNames :
              /\ CommandHome(w, z)
              /\ given => PhaseOf(z, out) /\ (z \notin HeededNames => out.command \notin Heeded)
    <3>1. w \notin {"SET_RAW_INDEX", "SET_SAMPLE_INDEX", "ECPRI_COMMON", "ECPRI_TYPE"}
      BY <2>1 DEF RawCommands
    <3> QED
      BY <2>1, <2>2, <3>1, WordPlace
  <2>5. given => out.actions.set = FALSE
    BY <2>1, <2>4 DEF CommandHome, RawCommands, PhaseOf, StartNames
  <2> HIDE DEF b
  <2>6. Next_(<<w>>) # <<>> /\ Next_(<<w>>)[1][1] = "next_set_raw"
    BY <2>1, SetTurns DEF RawCommands
  <2>7. given => PhaseOf("next_set_raw", b) /\ "next_set_raw" \in HeededNames
    BY <2>1, <2>3, <2>5 DEF PhaseOf, HeededNames, StartNames, ItemLists, EntryLists
  <2>8. given => Phased(Next_(<<w>>), <<w>>, b)
    BY <2>6, <2>7, RulePhase
  <2> QED
    BY <2>1, <2>2, <2>3, <2>8, OutTurnOn
<1>2. CASE parse_set_sample_action(w)
  <2> DEFINE b == [out EXCEPT !.command = w, !.actions.set = TRUE]
  <2>1. w = "SET_SAMPLE_ACTIONS" /\ Word_(<<w>>, At(<<"out">>, FALSE), Filled(b))
    BY <1>2 DEF parse_set_sample_action
  <2>2. w \in DOMAIN NamedTokens /\ w \in OutWords
    BY <2>1, TokensOfAll, TokenNames DEF OutWords
  <2>3. Whole(ctx, b) /\ b.command = w /\ b.actions.set = TRUE
    BY WholeBuffers, Commanded
  <2> HIDE DEF b
  <2>4. Next_(<<w>>) # <<>> /\ Next_(<<w>>)[1][1] = "SET_SAMPLE_INDEX"
    BY <2>1, SetTurns
  <2>5. PhaseOf("SET_SAMPLE_INDEX", b) /\ "SET_SAMPLE_INDEX" \in HeededNames
    BY <2>1, <2>3 DEF PhaseOf, HeededNames, StartNames, ItemLists, EntryLists
  <2>6. Phased(Next_(<<w>>), <<w>>, b)
    BY <2>4, <2>5, RulePhase
  <2> QED
    BY <2>1, <2>2, <2>3, <2>6, OutTurnOn
<1> QED
  BY <1>1, <1>2

\* Attributes of a rule, and the words that begin its pattern and its actions
LEMMA AttributeNamedOn ==
    ASSUME PInv, line = "words", NEW w \in {"GROUP", "PRIORITY", "TUNNEL_SET", "TUNNEL_MATCH"},
           NEW x, x = (IF w \in {"GROUP", "PRIORITY"} THEN <<"attr">> ELSE <<"tunnel_ops">>), Word_(<<w>>, At(x, FALSE), out)
    PROVE  PInv'
<1> DEFINE c == At(x, FALSE)
<1>1. w \in DOMAIN NamedTokens \ {"SET_RAW_INDEX", "SET_SAMPLE_INDEX"} /\ w \notin {"ECPRI_COMMON", "ECPRI_TYPE"}
  BY TokensOfAll, TokenNames
<1>2. PICK z \in RestNames :
            /\ ctx.next = << <<z>> >> /\ asked = Nothing /\ KeptBelow(given, ctx.args, << <<z>> >>, out)
            /\ CommandHome(w, z)
            /\ given => PhaseOf(z, out) /\ (z \notin HeededNames => out.command \notin Heeded)
  BY <1>1, WordPlace
<1>3. z = "next_vc_attr" /\ z \in HeededNames
  BY <1>2 DEF CommandHome, HeededNames
<1>4. ~OverKept(<< <<z>> >>)
  BY <1>3 DEF OverKept, ItemLists, EntryLists
<1>5. x # NULL
  BY Objects
<1>6. /\ DOMAIN c = CtxFields /\ c.args = ctx.args /\ c.next = ctx.next /\ Points(given, c.object, x)
      /\ ~given => c.object = NULL
      /\ given => c.object # NULL
  BY <1>5, AtIs
<1>7. Filled(out) = out /\ Whole(ctx, out)
  BY WholeBuffers DEF Filled
<1> HIDE DEF c
<1>8. Names(<<w>>) /\ w \notin {"ITEM", "ACTION"}
  BY DEF Names
<1>9. Shape(given, Next_(<<w>>), Args_(<<w>>), IF Names(<<w>>) THEN <<w>> ELSE Nothing, c.object, DataOf(Filled(out)))
  <2>1. AtNamed(given, Next_(<<w>>), Args_(<<w>>), <<w>>, c.object)
    BY <1>6 DEF AtNamed, NamedWords
  <2> QED
    BY <1>8, <2>1 DEF Shape
<1>10. Next_(<<w>>) # <<>> /\ Next_(<<w>>)[1][1] = z
  <2>1. /\ Next_(<<"GROUP">>) # <<>> /\ Next_(<<"GROUP">>)[1][1] = "next_vc_attr"
        /\ Next_(<<"PRIORITY">>) # <<>> /\ Next_(<<"PRIORITY">>)[1][1] = "next_vc_attr"
        /\ Next_(<<"TUNNEL_SET">>) # <<>> /\ Next_(<<"TUNNEL_SET">>)[1][1] = "next_vc_attr"
        /\ Next_(<<"TUNNEL_MATCH">>) # <<>> /\ Next_(<<"TUNNEL_MATCH">>)[1][1] = "next_vc_attr"
    BY AttributeTurns
  <2>2. w \in {"GROUP", "PRIORITY", "TUNNEL_SET", "TUNNEL_MATCH"}
    OBVIOUS
  <2> QED
    BY ONLY <1>3, <2>1, <2>2
<1>11. given => Phased(Next_(<<w>>), <<w>>, out)
  BY <1>2, <1>3, <1>10, RulePhase
<1>12. Word_(<<w>>, c, Filled(out))
  BY <1>7 DEF c
<1> QED
  BY <1>2, <1>4, <1>6, <1>7, <1>8, <1>9, <1>11, <1>12, WordOn

\* A word of a rule that changes the list of words
LEMMA RuleWordOn ==
    ASSUME PInv, line = "words", NEW w \in {"INGRESS", "EGRESS", "TRANSFER", "PATTERN", "ACTIONS"},
           NEW x \in {<<"attr">>, <<"entries">>}, NEW b, Whole(ctx, b), Word_(<<w>>, At(x, FALSE), Filled(b)),
           b.command = out.command, b.pattern = out.pattern,
           b.actions.set = (IF w = "ACTIONS" THEN TRUE ELSE out.actions.set)
    PROVE  PInv'
<1> DEFINE c == At(x, FALSE)
           y == IF w = "ACTIONS" THEN "next_action" ELSE IF w = "PATTERN" THEN "next_item" ELSE "next_vc_attr"
<1>1. w \in DOMAIN NamedTokens \ {"SET_RAW_INDEX", "SET_SAMPLE_INDEX"} /\ w \notin {"ECPRI_COMMON", "ECPRI_TYPE"}
  BY TokensOfAll, TokenNames
<1>2. PICK z \in RestNames :
            /\ ctx.next = << <<z>> >> /\ asked = Nothing /\ KeptBelow(given, ctx.args, << <<z>> >>, out)
            /\ CommandHome(w, z)
            /\ given => PhaseOf(z, out) /\ (z \notin HeededNames => out.command \notin Heeded)
  BY <1>1, WordPlace
<1>3. z = (IF w = "ACTIONS" THEN "ACTIONS" ELSE "next_vc_attr")
  BY <1>2 DEF CommandHome
<1>4. OverKept(<< <<z>> >>) => OverKept(<< <<y>> >>) /\ b.command = out.command
  BY <1>3 DEF OverKept, ItemLists, EntryLists
<1>5. x # NULL
  BY Objects
<1>6. /\ DOMAIN c = CtxFields /\ c.args = ctx.args /\ c.next = ctx.next
      /\ ~given => c.object = NULL
      /\ given => c.object # NULL
  BY <1>5, AtIs
<1> HIDE DEF c
<1>7. ~Names(<<w>>) /\ w \notin {"ITEM", "ACTION"}
  BY DEF Names
<1>8. Next_(<<w>>) = << <<y>> >> /\ Args_(<<w>>) = <<>>
  <2>1. CASE w = "ACTIONS"
    BY <2>1, EntryTurns
  <2>2. CASE w = "PATTERN"
    BY <2>2, AttributeTurns
  <2>3. CASE w \in {"INGRESS", "EGRESS", "TRANSFER"}
    BY <2>3, AttributeTurns
  <2> QED
    BY <2>1, <2>2, <2>3
<1>9. y \in RestNames /\ y \notin {"next_sa_create_attr", "tunnel_commands"} /\ y \in HeededNames
  BY DEF RestNames, HeededNames, ItemLists, EntryLists
<1>10. given => PhaseOf(y, b)
  <2> SUFFICES ASSUME given
               PROVE  PhaseOf(y, b)
    OBVIOUS
  <2>1. CASE w = "ACTIONS"
    BY <1>2, <1>3, <2>1 DEF PhaseOf, StartNames, ItemLists, EntryLists, Heeded
  <2>2. CASE w # "ACTIONS"
    BY <1>2, <1>3, <2>2 DEF PhaseOf, StartNames, ItemLists, EntryLists, Heeded
  <2> QED
    BY <2>1, <2>2
<1> HIDE DEF y
<1>11. Word_(<<w>>, c, Filled(b))
  BY DEF c
<1> QED
  BY <1>2, <1>4, <1>6, <1>7, <1>8, <1>9, <1>10, <1>11, RestWordOn

LEMMA AttributeOn == ASSUME PInv, line = "words", NEW w, Attribute(w) PROVE PInv'
<1>1. Filled(out) = out /\ Whole(ctx, out)
  BY WholeBuffers DEF Filled
<1>2. CASE w \in {"GROUP", "PRIORITY"} /\ Word_(<<w>>, At(<<"attr">>, FALSE), out)
  BY <1>2, AttributeNamedOn
<1>3. CASE w \in {"TUNNEL_SET", "TUNNEL_MATCH"} /\ Word_(<<w>>, At(<<"tunnel_ops">>, FALSE), out)
  BY <1>3, AttributeNamedOn
<1>4. CASE w \in {"INGRESS", "EGRESS", "TRANSFER"} /\ Word_(<<w>>, At(<<"attr">>, FALSE), out)
  BY <1>1, <1>4, RuleWordOn
<1>5. CASE w = "PATTERN" /\ Word_(<<w>>, At(<<"entries">>, FALSE), out)
  BY <1>1, <1>5, RuleWordOn
<1>6. CASE w = "ACTIONS" /\ Word_(<<w>>, At(<<"entries">>, FALSE), Filled([out EXCEPT !.actions.set = TRUE]))
  <2> DEFINE b == [out EXCEPT !.actions.set = TRUE]
  <2>1. b.command = out.command /\ b.actions.set = TRUE /\ b.pattern = out.pattern /\ Whole(ctx, b)
    BY Commanded, WholeBuffers
  <2>2. Word_(<<w>>, At(<<"entries">>, FALSE), Filled(b))
    BY <1>6
  <2> HIDE DEF b
  <2> QED
    BY <1>6, <2>1, <2>2, RuleWordOn
<1> QED
  BY <1>2, <1>3, <1>4, <1>5, <1>6 DEF Attribute

\* Every word of the commands
LEMMA CommandWordOn == ASSUME PInv, line = "words", NEW w, CommandWord(w) PROVE PInv'
<1> HIDE DEF PInv, Command, parse_tunnel, parse_aged, AnotherId, parse_sa_destroy, parse_sa, parse_set_raw_encap_decap,
             parse_set_sample_action, Attribute
<1>1. \/ Command(w) \/ parse_tunnel(w) \/ parse_aged(w) \/ AnotherId(w) \/ parse_sa_destroy(w) \/ parse_sa(w)
      \/ parse_set_raw_encap_decap(w) \/ parse_set_sample_action(w) \/ Attribute(w)
  BY DEF CommandWord
<1> QED
  BY <1>1, CommandOn, TunnelOn, AgedOn, AnotherIdOn, SharedDestroyOn, SharedOn, SetOn, AttributeOn

-----------------------------------------------------------------------------
(* Items, actions and their fields. *)

\* What kinds of words there are in the lists of words
Entry(x, t) == \/ t = <<"ITEM", t[2]>> /\ x = "next_item" /\ t[2] \in DOMAIN ItemFields \cup {"end"}
               \/ t = <<"ACTION", t[2]>> /\ x \in {"next_action", "next_action_sample"}
                                         /\ t[2] \in DOMAIN ActionFields \cup {"shared", "end", "/"}

LEMMA RestWords == \A x \in RestNames : \A t \in ListOf(<<x>>) : t = <<t[1]>> \/ Entry(x, t)
<1>1. \A x \in RestNames \cap SingleLists : \A t \in ListOf(<<x>>) : t = <<t[1]>>
  BY SinglesAre
<1>2. \A x \in RestNames \cap DOMAIN CommandLists : \A t \in ListOf(<<x>>) : t = <<t[1]>>
  <2>1. \A x \in DOMAIN CommandLists : \A t \in CommandLists[x] : t = <<t[1]>>
    BY DEF CommandLists, Words
  <2> QED
    BY <2>1, CommandListsAre
<1>3. \A x \in RestNames \cap DOMAIN GrammarLists : \A t \in ListOf(<<x>>) : t = <<t[1]>> \/ Entry(x, t)
  <2>1. \A x \in RestNames \cap DOMAIN GrammarLists : x \in {"next_item", "next_action", "next_action_sample"}
    BY ListNames DEF RestNames
  <2>2. \A t \in GrammarLists["next_item"] : t = <<t[1]>> \/ Entry("next_item", t)
    BY DEF GrammarLists, Words, next_item, Entry
  <2>3. \A t \in GrammarLists["next_action"] : Entry("next_action", t)
    BY DEF GrammarLists, next_action, Entry
  <2>4. \A t \in GrammarLists["next_action_sample"] : Entry("next_action_sample", t)
    BY ActionTable DEF GrammarLists, next_action_sample, Entry
  <2> QED
    BY <2>1, <2>2, <2>3, <2>4, CommandListsAre
<1>4. RestNames \subseteq SingleLists \cup DOMAIN CommandLists \cup DOMAIN GrammarLists
  BY ListNames DEF RestNames, SingleLists
<1> QED
  BY <1>1, <1>2, <1>3, <1>4

\* Where the words of items and actions are
SampleLists == EntryLists \cup {"next_action_sample"}
LEMMA ItemHome ==
    ASSUME NEW g, NEW l, NEW o, NEW d, RestList(g, l, o, d), NEW t \in ListOf(l), t[1] = "ITEM"
    PROVE  /\ l[1] \in ItemLists
           /\ \/ IsField(g, t, d)
              \/ t = <<"ITEM", "/">>
              \/ t = <<"ITEM", t[2]>> /\ t[2] \in DOMAIN ItemFields \cup {"end"}
<1>1. CASE WordOf(g, l, o, t)
  <2>1. PICK x \in RestNames : l = <<x>> /\ t[1] \in FirstsOf(x)
    BY <1>1 DEF WordOf
  <2>2. x = "next_item"
    BY <2>1, CommandHomes DEF CommandHome
  <2>3. t = <<t[1]>> \/ Entry(x, t)
    BY <2>1, RestWords
  <2>4. t # <<t[1]>>
    <3>1. <<"ITEM">> \notin next_item
      BY DEF next_item, Words
    <3>2. ListOf(l) = next_item
      BY <2>1, <2>2, CommandListsAre, ListNames DEF GrammarLists
    <3> QED
      BY <3>1, <3>2
  <2> QED
    BY <2>1, <2>2, <2>3, <2>4 DEF Entry, ItemLists
<1>2. CASE l[1] \in {"AFTER_ITEM", "AFTER_TYPE", "AFTER_MESSAGE"} /\ OfItem(g, t, d)
  BY <1>2 DEF OfItem, ItemLists
<1>3. t # <<"ECPRI_TYPE">> /\ t # <<"ACTION", "/">> /\ \A a : ~OfAction(t, a)
  BY DEF OfAction
<1> QED
  BY <1>1, <1>2, <1>3, Homes

LEMMA ActionHome ==
    ASSUME NEW g, NEW l, NEW o, NEW d, RestList(g, l, o, d), NEW t \in ListOf(l), t[1] = "ACTION"
    PROVE  /\ l[1] \in SampleLists
           /\ \/ t = <<"ACTION", t[2]>> /\ t[2] \in DOMAIN ActionFields \cup {"shared", "end", "/"}
              \/ \E a \in DOMAIN ActionFields : ActionAt(g, l, o, d, a) /\ OfAction(t, a) /\ Len(t) = 3
<1>1. CASE WordOf(g, l, o, t)
  <2>1. PICK x \in RestNames : l = <<x>> /\ t[1] \in FirstsOf(x)
    BY <1>1 DEF WordOf
  <2>2. x \in {"next_action", "next_action_sample"}
    BY <2>1, CommandHomes DEF CommandHome
  <2>3. t = <<t[1]>> \/ Entry(x, t)
    BY <2>1, RestWords
  <2>4. t # <<t[1]>>
    <3>1. <<"ACTION">> \notin next_action /\ <<"ACTION">> \notin next_action_sample
      BY DEF next_action, next_action_sample
    <3>2. ListOf(l) \in {next_action, next_action_sample}
      BY <2>1, <2>2, CommandListsAre, ListNames DEF GrammarLists
    <3> QED
      BY <3>1, <3>2
  <2> QED
    BY <2>1, <2>2, <2>3, <2>4 DEF Entry, SampleLists, EntryLists
<1>2. CASE l = <<"ACTION", "/">> /\ t = <<"ACTION", "/">>
  BY <1>2 DEF SampleLists, EntryLists
<1>3. ASSUME NEW a \in DOMAIN ActionFields, ActionAt(g, l, o, d, a), OfAction(t, a)
      PROVE  /\ l[1] \in SampleLists
             /\ \/ t = <<"ACTION", t[2]>> /\ t[2] \in DOMAIN ActionFields \cup {"shared", "end", "/"}
                \/ ActionAt(g, l, o, d, a) /\ OfAction(t, a) /\ Len(t) = 3
  BY <1>3 DEF ActionAt, OfAction, SampleLists, EntryLists
<1>4. t # <<"ECPRI_TYPE">> /\ ~OfItem(g, t, d)
  BY DEF OfItem, IsField
<1> QED
  BY <1>1, <1>2, <1>3, <1>4, Homes

\* How far the line is, told by its only list
LEMMA PlaceNow ==
    ASSUME PInv, line = "words", given, NEW l, ctx.next = <<l>>
    PROVE  PhaseOf(l[1], out) /\ (l[1] \notin HeededNames => out.command \notin Heeded)
<1>1. Phased(ctx.next, ctx.curr, out)
  BY DEF PInv, Reading
<1> QED
  BY <1>1 DEF Phased

\* Among the items, and among the actions, the phase of a line does not change.
Within(x, y) == (x \in ItemLists /\ y \in ItemLists) \/ (x \in SampleLists /\ y \in EntryLists)

LEMMA PhaseWithin ==
    ASSUME NEW x, NEW y, Within(x, y), NEW b, PhaseOf(x, b)
    PROVE  PhaseOf(y, b) /\ y \in HeededNames
<1>1. CASE x \in ItemLists /\ y \in ItemLists
  BY <1>1 DEF PhaseOf, HeededNames, ItemLists, EntryLists, StartNames
<1>2. CASE x \in SampleLists /\ y \in EntryLists
  <2>1. /\ b.command \in RawCommands \cup Heeded
        /\ b.actions.set = TRUE
        /\ b.command \in RuleCommands => b.pattern.ended = TRUE
    BY <1>2 DEF PhaseOf, SampleLists, Heeded, RuleCommands
  <2>2. y \notin StartNames /\ y \notin ItemLists /\ y \in HeededNames
        /\ y \notin {"next_vc_attr", "next_set_raw", "ACTIONS", "next_sa_create_attr", "SHARED_ACTION_SPEC", "SET_SAMPLE_INDEX",
                     "next_action_sample"}
    BY <1>2 DEF EntryLists, ItemLists, HeededNames, StartNames
  <2> QED
    BY <1>2, <2>1, <2>2 DEF PhaseOf
<1> QED
  BY <1>1, <1>2 DEF Within

\* A word of the entries that changes the buffer in nothing
LEMMA TurnOn ==
    ASSUME PInv, line = "words", NEW t, NEW c, Word_(t, c, out),
           DOMAIN c = CtxFields, c.args = ctx.args, c.next = ctx.next, ~given => c.object = NULL, given => c.object # NULL,
           NEW l, ctx.next = <<l>>, asked = Nothing, KeptBelow(given, ctx.args, <<l>>, out),
           Next_(t) # <<>>, Within(l[1], Next_(t)[1][1]), t \in Slashes => Len(Next_(t)) = 1 /\ Args_(t) = <<>>,
           Shape(given, Next_(t), Args_(t), IF Names(t) THEN t ELSE Nothing, c.object, DataOf(out))
    PROVE  PInv'
<1>1. given => PhaseOf(l[1], out)
  BY PlaceNow
<1>2. given => Phased(Next_(t), t, out)
  BY <1>1, PhaseWithin, RulePhase
<1>3. OverKept(<<l>>) => OverKept(Next_(t)) /\ out.command = out.command
  BY DEF Within, OverKept, SampleLists
<1>4. ~given => c.object = NULL /\ out = NewBuffer
  BY DEF PInv
<1>5. Whole(ctx, out)
  BY DEF PInv
<1>6. given /\ t \in Slashes => Balanced(Next_(t), ctx.args \o Args_(t), out)
  <2> SUFFICES ASSUME given, t \in Slashes
               PROVE  Balanced(Next_(t), ctx.args \o Args_(t), out)
    OBVIOUS
  <2>1. Len(Next_(t)) = 1 /\ Args_(t) = <<>>
    OBVIOUS
  <2>2. ctx.args \o <<>> = ctx.args
    BY NoneOnTop DEF KeptBelow
  <2>3. out.command # "SHARED_ACTION_DESTROY"
    BY <1>1 DEF Within, SampleLists, PhaseOf, Heeded, RuleCommands, MadeCommands, RawCommands
  <2>4. \/ ctx.args = <<>>
        \/ ctx.args = <<Out("port")>> /\ out.command \in RawCommands
    BY <2>3 DEF KeptBelow
  <2>5. ctx.args \o Args_(t) = ctx.args
    BY <2>1, <2>2
  <2>6. Len(ctx.args) <= IF out.command \in RawCommands THEN 1 ELSE 0
    <3>1. CASE ctx.args = <<>>
      BY ONLY <3>1
    <3>2. CASE ctx.args = <<Out("port")>> /\ out.command \in RawCommands
      BY ONLY <3>2
    <3> QED
      BY <2>4, <3>1, <3>2
  <2> QED
    BY <2>1, <2>5, <2>6 DEF Balanced
<1> QED
  BY <1>2, <1>3, <1>4, <1>5, <1>6, RestWord

\* The fields of items and of actions
LEMMA ItemFieldShape ==
    ASSUME NEW g, NEW t, NEW o, NEW d, IsField(g, t, d)
    PROVE  /\ Shape(g, Next_(t), Args_(t), t, o, d) /\ Names(t) /\ t \notin Slashes
           /\ Next_(t) # <<>> /\ Next_(t)[1][1] \in ItemLists
<1> PICK i \in DOMAIN ItemFields : \E f : /\ t = <<"ITEM", i, f>>
                                          /\ i = "ecpri" \/ f \in DOMAIN ItemFields[i]
                                          /\ Of(g, d, ItemData(i))
  BY DEF IsField
<1> PICK f : /\ t = <<"ITEM", i, f>>
             /\ i = "ecpri" \/ f \in DOMAIN ItemFields[i]
             /\ Of(g, d, ItemData(i))
  OBVIOUS
<1>1. Next_(t) = ItemFieldNext(i, f) /\ Args_(t) = ItemFieldArgs(i, f)
  BY FieldTurn
<1>2. PICK l, v, x :
            /\ ItemFieldNext(i, f) = <<l, <<v>>, x>>
            /\ ItemFieldArgs(i, f) = PlacesOf(ItemData(i), f, v)
            /\ v \in Kinds \cup {"STRING"}
            /\ l = <<"AFTER_ITEM", i>> \/ (i = "ecpri" /\ l = <<"AFTER_MESSAGE", f>>)
            /\ x \in FieldLists
            /\ v = "STRING" => x = <<"raw_param">>
  BY ItemFieldTurn
<1>3. Len(t) = 3 /\ t \notin Slashes
  BY DEF Slashes
<1>4. Next_(t) # <<>> /\ Next_(t)[1] = l /\ l[1] \in ItemLists
  BY <1>1, <1>2 DEF ItemLists
<1>5. ItemValue(g, l, v, Args_(t), t, d, i, f)
  BY <1>1, <1>2 DEF ItemValue
<1>6. AtParam(g, Next_(t), Args_(t), t, d)
  BY <1>1, <1>2, <1>5 DEF AtParam, FieldLists
<1> QED
  BY <1>3, <1>4, <1>6 DEF Shape, Names

LEMMA ActionFieldShape ==
    ASSUME NEW g, NEW t, NEW o, NEW d, NEW a \in DOMAIN ActionFields, OfAction(t, a), Len(t) = 3,
           Of(g, d, ActionData(a)), Points(g, o, ActionData(a))
    PROVE  /\ Shape(g, Next_(t), Args_(t), t, o, d) /\ Names(t) /\ t \notin Slashes
           /\ Next_(t) # <<>> /\ Next_(t)[1][1] \in EntryLists
<1>1. PICK f : /\ t = <<"ACTION", a, f>>
               /\ \/ f \in DOMAIN ActionFields[a]
                  \/ a \in IndexedActions /\ f = "index"
                  \/ a = "rss" /\ f \in {"func", "types", "queues"}
  BY DEF OfAction
<1>2. Next_(t) = ActionFieldNext(a, f) /\ Args_(t) = ActionFieldArgs(a, f)
  BY <1>1, FieldTurn
<1>3. Len(t) = 3 /\ t \notin Slashes
  BY DEF Slashes
<1>4. CASE f \in DOMAIN ActionFields[a]
  <2>1. PICK v : /\ ActionFieldNext(a, f) = << <<"AFTER_ACTION", a>>, <<v>> >>
                 /\ ActionFieldArgs(a, f) = PlacesOf(ActionData(a), f, v)
                 /\ v \in Kinds \cup {"HEX"}
    BY <1>4, ActionFieldTurn
  <2>2. AtAction(g, Next_(t), Args_(t), t, o, d)
    BY <1>1, <1>2, <2>1 DEF AtAction
  <2>3. Next_(t) # <<>> /\ Next_(t)[1][1] = "AFTER_ACTION"
    BY <1>2, <2>1
  <2> QED
    BY <1>3, <2>2, <2>3 DEF Shape, Names, EntryLists
<1>5. CASE a \in IndexedActions /\ f = "index"
  <2>1. Next_(t) = << <<"INDEX", a>> >> /\ Args_(t) = <<>>
    BY <1>2, <1>5, OwnFieldTurn
  <2>2. AtIndex(g, Next_(t), Args_(t), t, o)
    BY <1>1, <1>5, <2>1 DEF AtIndex
  <2>3. Next_(t) # <<>> /\ Next_(t)[1][1] = "INDEX"
    BY <2>1
  <2> QED
    BY <1>3, <2>2, <2>3 DEF Shape, Names, EntryLists
<1>6. CASE a = "rss" /\ f \in {"func", "types", "queues"}
  <2>1. Next_(t) = << <<"AFTER_ACTION", "rss">>, <<RssList(f)>> >> /\ Args_(t) = <<>>
    BY <1>2, <1>6, OwnFieldTurn
  <2>2. AtRss(g, Next_(t), Args_(t), t, o, d)
    BY <1>1, <1>6, <2>1 DEF AtRss
  <2>3. Next_(t) # <<>> /\ Next_(t)[1][1] = "AFTER_ACTION"
    BY <2>1
  <2> QED
    BY <1>3, <2>2, <2>3 DEF Shape, Names, EntryLists
<1> QED
  BY <1>1, <1>4, <1>5, <1>6

\* A word alone is a token of its own.
LEMMA OneWord ==
    ASSUME PInv, line = "words", NEW t, Candidate(t), t[1] \notin ValueNames,
           t[1] \notin {"END", "RSS_FUNC", "ITEM", "ACTION"}
    PROVE  t = <<t[1]>>
<1>1. t # <<"ITEM", "eth">>
  OBVIOUS
<1>2. PICK l : RestList(given, l, ctx.object, DataOf(out)) /\ t \in ListOf(l)
  BY <1>1, RestPlace
<1>3. CASE WordOf(given, l, ctx.object, t)
  <2>1. PICK x \in RestNames : l = <<x>>
    BY <1>3 DEF WordOf
  <2>2. t = <<t[1]>> \/ Entry(x, t)
    BY <1>2, <2>1, RestWords
  <2> QED
    BY <2>2 DEF Entry
<1>4. CASE t = <<"ECPRI_TYPE">>
  BY <1>4
<1>5. OfItem(given, t, DataOf(out)) => t = <<"ECPRI_COMMON">>
  BY DEF OfItem, IsField
<1>6. t # <<"ACTION", "/">> /\ \A a : ~OfAction(t, a)
  BY DEF OfAction
<1>7. t = <<"ECPRI_COMMON">> => t = <<t[1]>>
  OBVIOUS
<1> QED
  BY <1>2, <1>3, <1>4, <1>5, <1>6, <1>7, Homes

\* The attributes of a shared action
LEMMA SharedGroupOn ==
    ASSUME PInv, line = "words", Word_(<<"SHARED_ACTION_CREATE_ID">>, ctx, out)
    PROVE  PInv'
<1> DEFINE w == "SHARED_ACTION_CREATE_ID"
<1>1. /\ w \in DOMAIN NamedTokens \ {"SET_RAW_INDEX", "SET_SAMPLE_INDEX"}
      /\ w \notin {"ECPRI_COMMON", "ECPRI_TYPE"}
      /\ w \in OutWords
  BY TokensOfAll, TokenNames DEF OutWords
<1>2. Next_(<<w>>) # <<>> /\ Next_(<<w>>)[1][1] = "next_sa_create_attr"
  BY SharedTurns
<1>3. Word_(<<w>>, ctx, out) /\ w = "SHARED_ACTION_CREATE_ID"
  OBVIOUS
<1> HIDE DEF w
<1>4. PICK z \in RestNames :
            /\ ctx.next = << <<z>> >> /\ asked = Nothing /\ KeptBelow(given, ctx.args, << <<z>> >>, out)
            /\ CommandHome(w, z)
            /\ z \in {"next_sa_create_attr", "tunnel_commands"} => Points(given, ctx.object, <<"out">>)
            /\ given => PhaseOf(z, out) /\ (z \notin HeededNames => out.command \notin Heeded)
  BY <1>1, <1>3, WordPlace
<1>5. z = "next_sa_create_attr" /\ z \in HeededNames
  BY <1>3, <1>4 DEF CommandHome, HeededNames
<1>6. ~OverKept(<< <<z>> >>)
  BY <1>5 DEF OverKept, ItemLists, EntryLists
<1>7. Filled(out) = out /\ Whole(ctx, out) /\ DOMAIN ctx = CtxFields
  BY WholeBuffers, SameContext DEF Filled
<1>8. Points(given, ctx.object, <<"out">>)
  BY <1>4, <1>5
<1>9. given => Phased(Next_(<<w>>), <<w>>, out)
  BY <1>2, <1>4, <1>5, RulePhase
<1>10. Word_(<<w>>, ctx, Filled(out))
  BY <1>3, <1>7
<1> QED
  BY <1>1, <1>4, <1>6, <1>7, <1>8, <1>9, <1>10, OutWordOn

LEMMA SharedSpecOn ==
    ASSUME PInv, line = "words", Word_(<<"SHARED_ACTION_SPEC">>, ctx, out)
    PROVE  PInv'
<1> DEFINE w == "SHARED_ACTION_SPEC"
           y == "next_action"
<1>1. /\ w \in DOMAIN NamedTokens \ {"SET_RAW_INDEX", "SET_SAMPLE_INDEX"}
      /\ w \notin {"ECPRI_COMMON", "ECPRI_TYPE", "FLOW", "SET"}
  BY TokensOfAll, TokenNames
<1>2. Next_(<<w>>) = << <<y>> >> /\ Args_(<<w>>) = <<>> /\ ~Names(<<w>>) /\ w \notin {"ITEM", "ACTION"}
  BY SharedTurns DEF Names
<1>3. Word_(<<w>>, ctx, out) /\ w = "SHARED_ACTION_SPEC"
  OBVIOUS
<1> HIDE DEF w
<1>4. PICK z \in RestNames :
            /\ ctx.next = << <<z>> >> /\ asked = Nothing /\ KeptBelow(given, ctx.args, << <<z>> >>, out)
            /\ CommandHome(w, z)
            /\ given => PhaseOf(z, out) /\ (z \notin HeededNames => out.command \notin Heeded)
  BY <1>1, <1>3, WordPlace
<1>5. given => ctx.object # NULL
  BY <1>1, <1>3, WordPlace
<1>6. z \in {"SHARED_ACTION_SPEC", "next_sa_create_attr"}
  BY <1>3, <1>4 DEF CommandHome
<1>7. ~OverKept(<< <<z>> >>)
  BY <1>6 DEF OverKept, ItemLists, EntryLists
<1>8. Filled(out) = out /\ Whole(ctx, out) /\ DOMAIN ctx = CtxFields /\ (~given => ctx.object = NULL)
  BY WholeBuffers, SameContext DEF Filled, PInv
<1>9. given => PhaseOf(y, out) /\ y \in HeededNames
  BY <1>4, <1>6 DEF PhaseOf, HeededNames, StartNames, ItemLists, EntryLists, MadeCommands, RuleCommands, Heeded
<1>10. y \in RestNames /\ y \notin {"next_sa_create_attr", "tunnel_commands"}
  BY DEF RestNames
<1>11. Word_(<<w>>, ctx, Filled(out))
  BY <1>3, <1>8
<1> HIDE DEF y
<1> QED
  BY <1>2, <1>4, <1>5, <1>7, <1>8, <1>9, <1>10, <1>11, RestWordOn

\* "end_set" ends the line.
LEMMA EndSetOn == ASSUME PInv, line = "words", Word_(<<"END_SET">>, ctx, out) PROVE PInv'
<1> DEFINE w == "END_SET"
<1>1. w \in (DOMAIN NamedTokens \ {"SET_RAW_INDEX", "SET_SAMPLE_INDEX"}) \cup {"AGED_DESTROY", "END_SET"}
      /\ w \notin {"ECPRI_COMMON", "ECPRI_TYPE"} /\ w \notin {"FLOW", "SET", "ITEM", "ACTION"}
  OBVIOUS
<1>2. Next_(<<w>>) = <<>> /\ Args_(<<w>>) = <<>> /\ ~Names(<<w>>)
  BY ValueTurn DEF PlainValues, Names
<1>3. Word_(<<w>>, ctx, out) /\ w = "END_SET"
  OBVIOUS
<1> HIDE DEF w
<1>4. PICK z \in RestNames :
            /\ ctx.next = << <<z>> >> /\ asked = Nothing /\ KeptBelow(given, ctx.args, << <<z>> >>, out)
            /\ CommandHome(w, z)
  BY ONLY PInv, line = "words", <1>1, <1>3, WordPlace
<1>5. given => ctx.object # NULL
  BY ONLY PInv, line = "words", <1>1, <1>3, WordPlace
<1>6. Filled(out) = out /\ Whole(ctx, out) /\ DOMAIN ctx = CtxFields /\ (~given => ctx.object = NULL)
  BY WholeBuffers, SameContext DEF Filled, PInv
<1>7. Shape(given, Next_(<<w>>), Args_(<<w>>), IF Names(<<w>>) THEN <<w>> ELSE Nothing, ctx.object, DataOf(Filled(out)))
  BY <1>2, NoneLeft
<1>8. Phased(Next_(<<w>>), <<w>>, out) /\ OverKept(Next_(<<w>>))
  BY <1>2, <1>3 DEF Phased, OverKept
<1>9. Word_(<<w>>, ctx, Filled(out))
  BY <1>3, <1>6
<1> QED
  BY <1>1, <1>4, <1>5, <1>6, <1>7, <1>8, <1>9, WordOn

\* The word before the type of an eCPRI header, and the type
LEMMA EcpriOn ==
    ASSUME PInv, line = "words", NEW w \in {"ECPRI_COMMON", "ECPRI_TYPE"}, Word_(<<w>>, ctx, out)
    PROVE  PInv'
<1> DEFINE t == <<w>>
<1>1. /\ Candidate(t) /\ t[1] = w /\ t[1] \notin ValueNames /\ t[1] \notin {"END", "RSS_FUNC", "FLOW", "SET"}
      /\ t # <<"ITEM", "eth">> /\ t \notin Slashes /\ ~Names(t)
  BY DEF Word_, ValueNames, SimpleValues, Uns, Bool, Mac, Ip4, Ip6, Slashes, Names
<1>2. Word_(t, ctx, out)
  OBVIOUS
<1>3. /\ w = "ECPRI_COMMON" => Next_(t) = << <<"ECPRI_TYPE">> >> /\ Args_(t) = <<>>
      /\ w = "ECPRI_TYPE" => Next_(t) = << <<"ecpri_types">> >> /\ Args_(t) = <<Place(ItemData("ecpri"), "type")>>
  <2>1. ItemData("ecpri") = <<"data", "ITEM", "ecpri">>
    BY DEF ItemData, Struct
  <2> QED
    BY <2>1, EcpriTurns
<1>4. /\ t # <<"ACTION", "/">> /\ \A a : ~OfAction(t, a)
      /\ t # <<"ITEM", "/">> /\ ~IsField(given, t, DataOf(out))
  BY DEF OfAction, IsField
<1>5. t = <<"ECPRI_TYPE">> => w = "ECPRI_TYPE"
  BY <1>1
<1>6. t = <<"ECPRI_COMMON">> => w = "ECPRI_COMMON"
  BY <1>1
<1> HIDE DEF t
<1>7. PICK l : /\ ctx.next = <<l>> /\ asked = Nothing /\ KeptBelow(given, ctx.args, <<l>>, out)
               /\ RestList(given, l, ctx.object, DataOf(out)) /\ t \in ListOf(l)
  BY <1>1, RestPlace
<1>8. ~WordOf(given, l, ctx.object, t)
  BY <1>1, CommandHomes DEF WordOf, CommandHome
<1>9. l[1] \in ItemLists /\ Of(given, DataOf(out), ItemData("ecpri"))
  BY <1>4, <1>5, <1>6, <1>7, <1>8, Homes DEF OfItem, ItemLists
<1>10. Next_(t) # <<>> /\ Within(l[1], Next_(t)[1][1])
  <2>1. Next_(t) # <<>> /\ Next_(t)[1][1] \in {"ECPRI_TYPE", "ecpri_types"}
    BY <1>3
  <2> QED
    BY <1>9, <2>1 DEF Within, ItemLists
<1>11. Shape(given, Next_(t), Args_(t), Nothing, ctx.object, DataOf(out))
  <2>1. CASE w = "ECPRI_COMMON"
    <3>1. RestList(given, <<"ECPRI_TYPE">>, ctx.object, DataOf(out))
      BY <1>9 DEF RestList
    <3>2. AtRest(given, << <<"ECPRI_TYPE">> >>, <<>>, Nothing, ctx.object, DataOf(out))
      BY <3>1 DEF AtRest
    <3>3. Shape(given, << <<"ECPRI_TYPE">> >>, <<>>, Nothing, ctx.object, DataOf(out))
      BY <3>2 DEF Shape
    <3> QED
      BY <1>3, <2>1, <3>3
  <2>2. CASE w = "ECPRI_TYPE"
    <3>1. AtType(given, Next_(t), Args_(t), Nothing, DataOf(out))
      BY <1>3, <1>9, <2>2 DEF AtType
    <3> QED
      BY <3>1 DEF Shape
  <2> QED
    BY <2>1, <2>2
<1>12. DOMAIN ctx = CtxFields /\ (~given => ctx.object = NULL) /\ (given => ctx.object # NULL)
  BY <1>1, <1>2, SameContext, HasObject DEF PInv, Word_
<1> QED
  BY <1>1, <1>2, <1>7, <1>10, <1>11, <1>12, TurnOn

\* "/" begins another entry.
LEMMA SlashOn == ASSUME PInv, line = "words", NEW t \in Slashes, Word_(t, ctx, out) PROVE PInv'
<1>1. /\ /\ Candidate(t)
      /\ t[1] \in {"ITEM", "ACTION"}
      /\ t # <<"ITEM", "eth">>
      /\ ~Names(t)
      /\ Len(t) = 2
      /\ t = <<t[1], "/">>
  BY DEF Word_, Slashes, Names
<1>2. t[1] \notin ValueNames /\ t[1] \notin {"END", "RSS_FUNC", "FLOW", "SET"}
  BY <1>1 DEF ValueNames, SimpleValues, Uns, Bool, Mac, Ip4, Ip6
<1>3. PICK l : /\ ctx.next = <<l>> /\ asked = Nothing /\ KeptBelow(given, ctx.args, <<l>>, out)
               /\ RestList(given, l, ctx.object, DataOf(out)) /\ t \in ListOf(l)
  BY <1>1, <1>2, RestPlace
<1> DEFINE y == IF t[1] = "ITEM" THEN "next_item" ELSE "next_action"
<1>4. Next_(t) = << <<y>> >> /\ Args_(t) = <<>>
  <2>1. CASE t = <<"ITEM", "/">>
    BY <2>1, EntryTurn DEF ItemNext
  <2>2. CASE t = <<"ACTION", "/">>
    BY <2>2, EntryTurn DEF ActionNext
  <2> QED
    BY <2>1, <2>2 DEF Slashes
<1>5. Within(l[1], y)
  <2>1. CASE t[1] = "ITEM"
    BY <1>3, <2>1, ItemHome DEF Within, ItemLists
  <2>2. CASE t[1] = "ACTION"
    BY <1>3, <2>2, ActionHome DEF Within, EntryLists
  <2> QED
    BY <1>1, <2>1, <2>2
<1>6. y \in RestNames /\ y \notin {"next_sa_create_attr", "tunnel_commands"}
  BY DEF RestNames
<1> HIDE DEF y
<1>7. Next_(t) # <<>> /\ Next_(t)[1][1] = y /\ Len(Next_(t)) = 1
  BY <1>4
<1>8. Shape(given, Next_(t), Args_(t), Nothing, ctx.object, DataOf(out))
  BY <1>4, <1>6, NextIsRest
<1>9. DOMAIN ctx = CtxFields /\ (~given => ctx.object = NULL) /\ (given => ctx.object # NULL)
  BY <1>1, <1>2, SameContext, HasObject DEF PInv
<1> QED
  BY <1>1, <1>3, <1>4, <1>5, <1>7, <1>8, <1>9, TurnOn

\* A field of an item, and a field of an action with the context at its data
LEMMA ItemFieldOn ==
    ASSUME PInv, line = "words", NEW t, t[1] = "ITEM", Len(t) = 3, Word_(t, ctx, out)
    PROVE  PInv'
<1>1. Candidate(t) /\ t # <<"ITEM", "eth">> /\ t[1] \notin ValueNames /\ t[1] \notin {"END", "RSS_FUNC", "FLOW", "SET"}
  BY DEF Word_, ValueNames, SimpleValues, Uns, Bool, Mac, Ip4, Ip6
<1>2. PICK l : /\ ctx.next = <<l>> /\ asked = Nothing /\ KeptBelow(given, ctx.args, <<l>>, out)
               /\ RestList(given, l, ctx.object, DataOf(out)) /\ t \in ListOf(l)
  BY <1>1, RestPlace
<1>3. l[1] \in ItemLists /\ IsField(given, t, DataOf(out))
  BY <1>2, ItemHome
<1>4. /\ Shape(given, Next_(t), Args_(t), t, ctx.object, DataOf(out)) /\ Names(t) /\ t \notin Slashes
      /\ Next_(t) # <<>> /\ Next_(t)[1][1] \in ItemLists
  BY <1>3, ItemFieldShape
<1>5. Within(l[1], Next_(t)[1][1])
  BY <1>3, <1>4 DEF Within
<1>6. DOMAIN ctx = CtxFields /\ (~given => ctx.object = NULL) /\ (given => ctx.object # NULL)
  BY <1>1, SameContext, HasObject DEF PInv
<1> QED
  BY <1>2, <1>4, <1>5, <1>6, TurnOn

LEMMA ActionFieldOn ==
    ASSUME PInv, line = "words", NEW t, t[1] = "ACTION", Len(t) = 3, NEW c, Word_(t, c, out),
           DOMAIN c = CtxFields, c.args = ctx.args, c.next = ctx.next, ~given => c.object = NULL, given => c.object # NULL,
           c.object = (IF given /\ (t[2] \notin SelfSelected \cup IndexedActions \/ t[3] = "queues") THEN LastData ELSE ctx.object)
    PROVE  PInv'
<1>1. Candidate(t) /\ t # <<"ITEM", "eth">> /\ t[1] \notin ValueNames /\ t[1] \notin {"END", "RSS_FUNC", "FLOW", "SET"}
  BY DEF Word_, ValueNames, SimpleValues, Uns, Bool, Mac, Ip4, Ip6
<1>2. PICK l : /\ ctx.next = <<l>> /\ asked = Nothing /\ KeptBelow(given, ctx.args, <<l>>, out)
               /\ RestList(given, l, ctx.object, DataOf(out)) /\ t \in ListOf(l)
  BY <1>1, RestPlace
<1>3. PICK a \in DOMAIN ActionFields : ActionAt(given, l, ctx.object, DataOf(out), a) /\ OfAction(t, a)
  BY <1>2, ActionHome
<1>4. l[1] \in SampleLists
  BY <1>2, ActionHome
<1>5. t[2] = a
  BY <1>3 DEF OfAction
<1>6. Of(given, DataOf(out), ActionData(a)) /\ (a \in OwnParser => Points(given, ctx.object, ActionData(a)))
  BY <1>3 DEF ActionAt
<1>7. Points(given, c.object, ActionData(a))
  <2>1. SelfSelected \cup IndexedActions \subseteq OwnParser
    BY DEF SelfSelected, IndexedActions, OwnParser
  <2>2. given => LastData = ActionData(a)
    BY <1>6, LastDataIs DEF Of
  <2> QED
    BY <1>5, <1>6, <2>1, <2>2 DEF Points
<1>8. /\ Shape(given, Next_(t), Args_(t), t, c.object, DataOf(out)) /\ Names(t) /\ t \notin Slashes
      /\ Next_(t) # <<>> /\ Next_(t)[1][1] \in EntryLists
  BY <1>3, <1>6, <1>7, ActionFieldShape
<1>9. Within(l[1], Next_(t)[1][1])
  BY <1>4, <1>8 DEF Within
<1> QED
  BY <1>2, <1>8, <1>9, TurnOn

\* Every word without a parse function of its own
LEMMA DefaultOn == ASSUME PInv, line = "words", parse_default PROVE PInv'
<1>1. PICK t : /\ \/ t[1] \in {"SHARED_ACTION_CREATE_ID", "SHARED_ACTION_SPEC", "ECPRI_COMMON", "ECPRI_TYPE", "END_SET"}
                  \/ t \in {<<"ITEM", "/">>, <<"ACTION", "/">>}
                  \/ t[1] = "ITEM" /\ Len(t) = 3
                  \/ /\ t[1] = "ACTION" /\ Len(t) = 3
                     /\ (t[2] \in SelfSelected \cup IndexedActions /\ t[3] # "queues")
               /\ Word_(t, ctx, out)
  BY DEF parse_default
<1>2. CASE t[1] \in {"SHARED_ACTION_CREATE_ID", "SHARED_ACTION_SPEC", "ECPRI_COMMON", "ECPRI_TYPE", "END_SET"}
  <2>1. /\ t[1] \notin ValueNames /\ t[1] \notin {"END", "RSS_FUNC", "ITEM", "ACTION"}
    BY <1>2 DEF ValueNames, SimpleValues, Uns, Bool, Mac, Ip4, Ip6
  <2>2. t = <<t[1]>>
    BY <1>1, <2>1, OneWord DEF Word_
  <2>3. Word_(<<t[1]>>, ctx, out)
    BY <1>1, <2>2
  <2>4. CASE t[1] = "SHARED_ACTION_CREATE_ID"
    BY <2>3, <2>4, SharedGroupOn
  <2>5. CASE t[1] = "SHARED_ACTION_SPEC"
    BY <2>3, <2>5, SharedSpecOn
  <2>6. CASE t[1] \in {"ECPRI_COMMON", "ECPRI_TYPE"}
    BY <2>3, <2>6, EcpriOn
  <2>7. CASE t[1] = "END_SET"
    BY <2>3, <2>7, EndSetOn
  <2> QED
    BY <1>2, <2>4, <2>5, <2>6, <2>7
<1>3. CASE t \in {<<"ITEM", "/">>, <<"ACTION", "/">>}
  BY <1>1, <1>3, SlashOn DEF Slashes
<1>4. CASE t[1] = "ITEM" /\ Len(t) = 3
  BY <1>1, <1>4, ItemFieldOn
<1>5. CASE t[1] = "ACTION" /\ Len(t) = 3 /\ t[2] \in SelfSelected \cup IndexedActions /\ t[3] # "queues"
  <2>1. Candidate(t) /\ t[1] \notin {"FLOW", "SET"}
    BY <1>1, <1>5 DEF Word_
  <2>2. DOMAIN ctx = CtxFields /\ (~given => ctx.object = NULL) /\ (given => ctx.object # NULL)
    BY <2>1, SameContext, HasObject DEF PInv
  <2> QED
    BY <1>1, <1>5, <2>2, ActionFieldOn
<1> QED
  BY <1>1, <1>2, <1>3, <1>4, <1>5

\* A field of an action that is not at its data yet
LEMMA ConfOn == ASSUME PInv, line = "words", parse_vc_conf PROVE PInv'
<1> DEFINE c == At(LastData, FALSE)
<1>1. PICK t : /\ t[1] = "ACTION" /\ Len(t) = 3
               /\ t[2] \notin SelfSelected \cup IndexedActions \/ t[3] = "queues"
               /\ Word_(t, c, out)
  BY DEF parse_vc_conf
<1>2. Candidate(t) /\ t # <<"ITEM", "eth">> /\ t[1] \notin ValueNames /\ t[1] \notin {"END", "RSS_FUNC"}
  BY <1>1 DEF Word_, ValueNames, SimpleValues, Uns, Bool, Mac, Ip4, Ip6
<1>3. given => LastData # NULL
  <2>1. PICK l : RestList(given, l, ctx.object, DataOf(out)) /\ t \in ListOf(l)
    BY <1>2, RestPlace
  <2>2. PICK a \in DOMAIN ActionFields : ActionAt(given, l, ctx.object, DataOf(out), a)
    BY <1>1, <2>1, ActionHome
  <2>3. ActionData(a) # NULL
    BY DEF ActionData, NULL
  <2> QED
    BY <2>2, <2>3, LastDataIs DEF ActionAt, Of
<1>4. DOMAIN c = CtxFields /\ c.args = ctx.args /\ c.next = ctx.next /\ Points(given, c.object, LastData)
  BY AtContext
<1>5. /\ ~given => c.object = NULL
      /\ given => c.object # NULL
      /\ c.object = IF given THEN LastData ELSE ctx.object
  BY <1>3, <1>4 DEF Points, PInv
<1> HIDE DEF c
<1> QED
  BY <1>1, <1>4, <1>5, ActionFieldOn

\* How a value is meant: "prefix" has another list take the place of the one below.
LEMMA SpecParts ==
    ASSUME NEW g, NEW n, NEW p, NEW q, NEW d, AtParam(g, n, p, q, d), NEW x, <<"PARAM", x>> \in ListOf(Last(n))
    PROVE  \E i \in DOMAIN ItemFields : \E f, l, v, y :
              /\ n = <<l, <<v>>, y>> /\ ItemValue(g, l, v, p, q, d, i, f)
              /\ x = "prefix" => v # "STRING"
<1> PICK i \in DOMAIN ItemFields : \E f, l, v, y :
            /\ n = <<l, <<v>>, y>> /\ ItemValue(g, l, v, p, q, d, i, f)
            /\ y \in FieldLists
            /\ v = "STRING" => y = <<"raw_param">>
  BY DEF AtParam, FieldLists
<1> PICK f, l, v, y :
            /\ n = <<l, <<v>>, y>> /\ ItemValue(g, l, v, p, q, d, i, f)
            /\ y \in FieldLists
            /\ v = "STRING" => y = <<"raw_param">>
  OBVIOUS
<1>1. Last(n) = y
  BY TopOfThree
<1>2. x = "prefix" => v # "STRING"
  BY <1>1, ParamLists
<1> QED
  BY <1>2

LEMMA SpecNext ==
    ASSUME NEW l, NEW v, NEW y, NEW w
    PROVE  /\ [<<l, <<v>>, y>> EXCEPT ![3 - 1] = <<w>>] = <<l, <<w>>, y>>
           /\ Front(<<l, <<v>>, y>>) = <<l, <<v>>>> /\ <<l, <<v>>>> \o <<>> = <<l, <<v>>>>
<1>1. Front(<<l, <<v>>, y>>) = <<l, <<v>>>>
  BY TopOfThree
<1> QED
  BY <1>1

LEMMA PrefixContext ==
    ASSUME NEW c, DOMAIN c = CtxFields, NEW l, NEW v, NEW y, c.next = <<l, <<v>>, y>>
    PROVE  LET s == [c EXCEPT !.next[Len(c.next) - 1] = <<"PREFIX">>]
           IN  DOMAIN s = CtxFields /\ s.args = c.args /\ s.object = c.object /\ s.next = <<l, <<"PREFIX">>, y>>
<1> DEFINE s == [c EXCEPT !.next[Len(c.next) - 1] = <<"PREFIX">>]
<1>1. Len(c.next) = 3 /\ "next" \in DOMAIN c
  BY TopOfThree DEF CtxFields
<1>2. s.next = [c.next EXCEPT ![3 - 1] = <<"PREFIX">>]
  BY <1>1
<1>3. s.next = <<l, <<"PREFIX">>, y>>
  BY <1>2, SpecNext
<1>4. DOMAIN s = CtxFields /\ s.args = c.args /\ s.object = c.object
  BY DEF CtxFields
<1> QED
  BY <1>3, <1>4

LEMMA SpecContext ==
    ASSUME PInv, NEW x, parse_vc_spec(x), NEW l, NEW v, NEW y, ctx.next = <<l, <<v>>, y>>
    PROVE  \E e, w : /\ Word_(<<"PARAM", x>>, e, out)
                     /\ DOMAIN e = CtxFields /\ e.args = ctx.args /\ Points(given, e.object, LastData)
                     /\ e.next = <<l, <<w>>, y>>
                     /\ w = IF x = "prefix" THEN "PREFIX" ELSE v
<1> DEFINE c == At(LastData, x = "is")
           s == [c EXCEPT !.next[Len(c.next) - 1] = <<"PREFIX">>]
<1>1. Word_(<<"PARAM", x>>, IF x = "prefix" THEN s ELSE c, out)
  BY DEF parse_vc_spec
<1>2. DOMAIN c = CtxFields /\ c.args = ctx.args /\ c.next = ctx.next /\ Points(given, c.object, LastData)
  BY AtContext
<1>3. DOMAIN s = CtxFields /\ s.args = c.args /\ s.object = c.object /\ s.next = <<l, <<"PREFIX">>, y>>
  BY <1>2, PrefixContext
<1> HIDE DEF c, s
<1>4. CASE x = "prefix"
  <2>1. Word_(<<"PARAM", x>>, s, out)
    BY <1>1, <1>4
  <2>2. DOMAIN s = CtxFields /\ s.args = ctx.args /\ Points(given, s.object, LastData)
    BY <1>2, <1>3
  <2> QED
    BY <1>3, <1>4, <2>1, <2>2
<1>5. CASE x # "prefix"
  <2>1. Word_(<<"PARAM", x>>, c, out)
    BY <1>1, <1>5
  <2> QED
    BY <1>2, <1>5, <2>1
<1> QED
  BY <1>4, <1>5

LEMMA SpecOn == ASSUME PInv, line = "words", NEW x, parse_vc_spec(x) PROVE PInv'
<1> DEFINE t == <<"PARAM", x>>
<1>1. Candidate(t)
  BY DEF parse_vc_spec
<1>2. Next_(t) = <<>> /\ Args_(t) = <<>> /\ ~Names(t) /\ t \notin Slashes /\ t[1] = "PARAM"
  <2>1. Next_(t) = <<>> /\ Args_(t) = <<>>
    BY EntryTurn
  <2>2. t[1] = "PARAM" /\ Len(t) = 2
    OBVIOUS
  <2> HIDE DEF t
  <2>3. ~Names(t) /\ t \notin Slashes
    BY <2>2 DEF Names, Slashes
  <2> QED
    BY <2>1, <2>2, <2>3
<1> PICK base, p : /\ ctx.args = base \o p
                   /\ KeptBelow(given, base, ctx.next, out)
                   /\ Shape(given, ctx.next, p, asked, ctx.object, DataOf(out))
  BY Parts
<1>3. AtParam(given, ctx.next, p, asked, DataOf(out))
  BY <1>1, <1>2, OwnValueAt DEF Candidate
<1> PICK i \in DOMAIN ItemFields : \E f, l, v, y :
            /\ ctx.next = <<l, <<v>>, y>> /\ ItemValue(given, l, v, p, asked, DataOf(out), i, f)
            /\ x = "prefix" => v # "STRING"
  <2>1. <<"PARAM", x>> \in ListOf(Last(ctx.next))
    BY <1>1 DEF Candidate
  <2> QED
    BY <1>3, <2>1, SpecParts
<1> PICK f, l, v, y :
            /\ ctx.next = <<l, <<v>>, y>> /\ ItemValue(given, l, v, p, asked, DataOf(out), i, f)
            /\ x = "prefix" => v # "STRING"
  OBVIOUS
<1>4. PICK e, w : /\ Word_(t, e, out)
                   /\ DOMAIN e = CtxFields /\ e.args = ctx.args /\ Points(given, e.object, LastData)
                   /\ e.next = <<l, <<w>>, y>>
                   /\ w = IF x = "prefix" THEN "PREFIX" ELSE v
  <2>1. ctx.next = <<l, <<v>>, y>>
    OBVIOUS
  <2> QED
    BY ONLY PInv, parse_vc_spec(x), <2>1, SpecContext
<1> DEFINE m == <<l, <<w>>>>
<1>5. Front(e.next) \o Next_(t) = m
  <2>1. Front(e.next) = m /\ m \o <<>> = m
    BY <1>4, SpecNext
  <2> QED
    BY <1>2, <2>1
<1>6. ItemValue(given, l, w, p, asked, DataOf(out), i, f)
  BY <1>4, KindsAre DEF ItemValue, PlacesOf
<1>7. LastData = DataOf(out) /\ (given => DataOf(out) = ItemData(i))
  BY <1>6, LastDataIs DEF ItemValue, Of
<1>8. Points(given, e.object, ItemData(i))
  BY <1>4, <1>7 DEF Points
<1>9. ItemData(i) # NULL
  BY DEF ItemData, NULL
<1>10. AtItem(given, m, p, asked, e.object, DataOf(out))
  BY <1>6, <1>8 DEF AtItem
<1>11. m # <<>> /\ ctx.next # <<>> /\ m[1] = ctx.next[1]
  OBVIOUS
<1> HIDE DEF m, t
<1>12. BottomStays(ctx.next, m)
  BY <1>11 DEF BottomStays
<1>13. Shape(given, m, p, asked, e.object, DataOf(out))
  BY <1>10 DEF Shape
<1>14. KeptBelow(given, base, m, out)
  BY <1>11, <1>12, SameBottom
<1>15. given => Phased(m, t, out)
  <2>1. given => Phased(ctx.next, ctx.curr, out)
    BY DEF PInv, Reading
  <2> QED
    BY <1>11, <1>12, <2>1, SamePhase
<1>16. Keeps(given, base, m, p, t, asked, e.object, out)
  BY <1>2, <1>8, <1>9, <1>13, <1>14, <1>15 DEF Keeps, Points
<1>17. Keeps(given, base, Front(e.next) \o Next_(t), p, t, IF Names(t) THEN t ELSE asked, e.object, out)
  BY <1>2, <1>5, <1>16
<1>18. ~given => e.object = NULL /\ out = NewBuffer
  BY <1>8 DEF PInv, Points
<1>19. Whole([next |-> <<>>, args |-> <<>>, curr |-> t, object |-> NULL, objmask |-> FALSE, count |-> 0], out)
  BY DEF PInv, Whole, CtxFields
<1>20. e.args \o Args_(t) = base \o p
  <2>1. (base \o p) \o <<>> = base \o p
    BY ShapeIsShort, ShortOnTop DEF KeptBelow
  <2> QED
    BY <1>2, <1>4, <2>1
<1> QED
  BY <1>1, <1>4, <1>17, <1>18, <1>19, <1>20, WordStays

\* What an entry makes of the context and of the buffer
LEMMA EntryContext ==
    ASSUME PInv, NEW x, x # NULL
    PROVE  LET c == IF given THEN [At(x, FALSE) EXCEPT !.count = 0] ELSE ctx
           IN  /\ DOMAIN c = CtxFields /\ c.args = ctx.args /\ c.next = ctx.next /\ Points(given, c.object, x)
               /\ ~given => c.object = NULL
               /\ given => c.object # NULL
<1> DEFINE a == At(x, FALSE)
           c == IF given THEN [a EXCEPT !.count = 0] ELSE ctx
<1>1. DOMAIN a = CtxFields /\ a.args = ctx.args /\ a.next = ctx.next /\ Points(given, a.object, x)
  BY AtContext
<1>2. DOMAIN ctx = CtxFields /\ (~given => ctx.object = NULL)
  BY SameContext DEF PInv
<1> HIDE DEF a
<1>3. CASE given
  <2> DEFINE e == [a EXCEPT !.count = 0]
  <2>1. DOMAIN e = CtxFields /\ e.args = a.args /\ e.next = a.next /\ e.object = a.object
    BY <1>1 DEF CtxFields
  <2>2. c = e
    BY <1>3
  <2> HIDE DEF e, c
  <2> QED
    BY <1>1, <1>3, <2>1, <2>2 DEF Points, a, c
<1>4. CASE ~given
  BY <1>2, <1>4 DEF Points, a
<1> QED
  BY <1>3, <1>4

LEMMA AddedItem ==
    ASSUME PInv, NEW i
    PROVE  LET b == AddItem(i)
           IN  /\ Whole(ctx, b) /\ b.command = out.command /\ b.actions = out.actions
               /\ b.pattern.ended = (i = "end") /\ DataOf(b) = ItemData(i)
<1> DEFINE b == AddItem(i)
<1>1. b = [out EXCEPT !.pattern = [n |-> out.pattern.n + 1, ended |-> (i = "end")], !.last = <<"ITEM", i>>]
  BY DEF AddItem, PInv, Whole, OutFields
<1>2. DOMAIN out = OutFields /\ Whole(ctx, out)
  BY DEF PInv, Whole
<1> DEFINE r == [n |-> out.pattern.n + 1, ended |-> (i = "end")]
<1>3. r.ended = (i = "end")
  OBVIOUS
<1>4. b = [out EXCEPT !.pattern = r, !.last = <<"ITEM", i>>]
  BY <1>1
<1> HIDE DEF r, b
<1>5. /\ DOMAIN b = OutFields /\ b.command = out.command /\ b.actions = out.actions
      /\ b.pattern = r /\ b.last = <<"ITEM", i>>
  BY <1>2, <1>4 DEF OutFields
<1>6. Whole(ctx, b)
  BY <1>2, <1>5 DEF Whole
<1>7. DataOf(b) = ItemData(i)
  BY <1>5 DEF DataOf
<1> QED
  BY <1>3, <1>5, <1>6, <1>7 DEF b

LEMMA AddedAction ==
    ASSUME PInv, NEW a
    PROVE  LET b == AddAction(a)
           IN  /\ Whole(ctx, b) /\ b.command = out.command /\ b.pattern = out.pattern
               /\ b.actions.set = TRUE /\ b.actions.n > 0 /\ b.actions.ended = (a = "end") /\ DataOf(b) = ActionData(a)
<1> DEFINE b == AddAction(a)
<1>1. b = [out EXCEPT !.actions = [set |-> TRUE, n |-> out.actions.n + 1, ended |-> (a = "end")], !.last = <<"ACTION", a>>]
  BY DEF AddAction, PInv, Whole, OutFields
<1>2. DOMAIN out = OutFields /\ Whole(ctx, out) /\ out.actions.n \in Nat
  BY DEF PInv, Whole
<1> DEFINE r == [set |-> TRUE, n |-> out.actions.n + 1, ended |-> (a = "end")]
<1>3. r.ended = (a = "end") /\ r.set = TRUE /\ r.n \in Nat /\ r.n > 0 /\ DOMAIN r = {"set", "n", "ended"}
  BY <1>2
<1>4. b = [out EXCEPT !.actions = r, !.last = <<"ACTION", a>>]
  BY <1>1
<1> HIDE DEF r, b
<1>5. /\ DOMAIN b = OutFields /\ b.command = out.command /\ b.pattern = out.pattern
      /\ b.actions = r /\ b.last = <<"ACTION", a>>
  BY <1>2, <1>4 DEF OutFields
<1>6. Whole(ctx, b)
  BY <1>2, <1>3, <1>5 DEF Whole
<1>7. DataOf(b) = ActionData(a)
  BY <1>5 DEF DataOf
<1> QED
  BY <1>3, <1>5, <1>6, <1>7 DEF b

\* What an item, and what an action, leaves
LEMMA ItemShape ==
    ASSUME NEW g, NEW i \in DOMAIN ItemFields \cup {"end"}, i # "/", NEW o, NEW d, Of(g, d, ItemData(i))
    PROVE  LET t == <<"ITEM", i>>
           IN  /\ Shape(g, Next_(t), Args_(t), Nothing, o, d) /\ ~Names(t) /\ t \notin Slashes
               /\ Next_(t) # <<>> /\ Next_(t)[1][1] = IF i = "end" THEN "ACTIONS" ELSE "AFTER_ITEM"
<1> DEFINE t == <<"ITEM", i>>
<1>1. Next_(t) = ItemNext(i) /\ Args_(t) = IF i = "pppoe_proto_id" THEN <<Place(ItemData(i), "proto_id")>> ELSE <<>>
  BY EntryTurn
<1>2. ~Names(t) /\ t \notin Slashes
  BY DEF Names, Slashes
<1> HIDE DEF t
<1>3. CASE i = "end"
  <2>1. Next_(t) = << <<"ACTIONS">> >> /\ Args_(t) = <<>>
    BY <1>1, <1>3 DEF ItemNext
  <2>2. Shape(g, << <<"ACTIONS">> >>, <<>>, Nothing, o, d)
    <3>1. "ACTIONS" \in RestNames /\ "ACTIONS" \notin {"next_sa_create_attr", "tunnel_commands"}
      BY DEF RestNames
    <3> QED
      BY <3>1, NextIsRest
  <2>3. Next_(t) # <<>> /\ Next_(t)[1][1] = "ACTIONS"
    BY <2>1
  <2> QED
    BY <1>2, <1>3, <2>1, <2>2, <2>3 DEF t
<1>4. CASE i = "pppoe_proto_id"
  <2>1. Next_(t) = << <<"AFTER_ITEM", i>>, <<Uns>>, <<"item_param">> >> /\ Args_(t) = <<Place(ItemData(i), "proto_id")>>
    BY <1>1, <1>4 DEF ItemNext
  <2>2. i \in DOMAIN ItemFields
    BY <1>4
  <2>3. ItemValue(g, <<"AFTER_ITEM", i>>, Uns, Args_(t), Nothing, d, i, "proto_id")
    BY <2>1 DEF ItemValue, PlacesOf, Kinds, Uns
  <2>4. AtParam(g, Next_(t), Args_(t), Nothing, d)
    BY <2>1, <2>2, <2>3 DEF AtParam, Uns
  <2>5. Next_(t) # <<>> /\ Next_(t)[1][1] = "AFTER_ITEM"
    BY <2>1
  <2> QED
    BY <1>2, <1>4, <2>4, <2>5 DEF Shape, t
<1>5. CASE i \notin {"end", "pppoe_proto_id"}
  <2>1. Next_(t) = << <<"AFTER_ITEM", i>> >> /\ Args_(t) = <<>>
    BY <1>1, <1>5 DEF ItemNext
  <2>2. RestList(g, <<"AFTER_ITEM", i>>, o, d)
    BY <1>5 DEF RestList
  <2>3. AtRest(g, Next_(t), Args_(t), Nothing, o, d)
    BY <2>1, <2>2 DEF AtRest
  <2>4. Next_(t) # <<>> /\ Next_(t)[1][1] = "AFTER_ITEM"
    BY <2>1
  <2> QED
    BY <1>2, <1>5, <2>3, <2>4 DEF Shape, t
<1> QED
  BY <1>3, <1>4, <1>5 DEF t

LEMMA ActionShape ==
    ASSUME NEW g, NEW a \in DOMAIN ActionFields \cup {"shared", "end"}, a # "/", NEW o, NEW d, Of(g, d, ActionData(a)),
           a \in OwnParser => Points(g, o, ActionData(a))
    PROVE  LET t == <<"ACTION", a>>
           IN  /\ Shape(g, Next_(t), Args_(t), Nothing, o, d) /\ ~Names(t) /\ t \notin Slashes
               /\ a = "end" => Next_(t) = <<>>
               /\ a # "end" => Next_(t) # <<>> /\ Next_(t)[1][1] \in EntryLists
<1> DEFINE t == <<"ACTION", a>>
<1>1. Next_(t) = ActionNext(a) /\ Args_(t) = IF a = "shared" THEN <<Place(<<"id">>, "id")>> ELSE <<>>
  BY EntryTurn
<1>2. ~Names(t) /\ t \notin Slashes
  BY DEF Names, Slashes
<1> HIDE DEF t
<1>3. CASE a = "end"
  <2>1. Next_(t) = <<>> /\ Args_(t) = <<>>
    BY <1>1, <1>3 DEF ActionNext
  <2> QED
    BY <1>2, <1>3, <2>1, NoneLeft DEF t
<1>4. CASE a = "shared"
  <2>1. Next_(t) = << <<"SHARED_ACTION_ID2PTR">> >> /\ Args_(t) = <<Place(<<"id">>, "id")>>
    BY <1>1, <1>4 DEF ActionNext
  <2>2. AtShared(Next_(t), Args_(t), Nothing)
    BY <2>1 DEF AtShared
  <2>3. Next_(t) # <<>> /\ Next_(t)[1][1] \in EntryLists
    BY <2>1 DEF EntryLists
  <2> QED
    BY <1>2, <1>4, <2>2, <2>3 DEF Shape, t
<1>5. CASE a \notin {"end", "shared"}
  <2>1. Next_(t) = << <<"AFTER_ACTION", a>> >> /\ Args_(t) = <<>>
    BY <1>1, <1>5 DEF ActionNext
  <2>2. RestList(g, <<"AFTER_ACTION", a>>, o, d)
    BY <1>5 DEF RestList
  <2>3. AtRest(g, Next_(t), Args_(t), Nothing, o, d)
    BY <2>1, <2>2 DEF AtRest
  <2>4. Next_(t) # <<>> /\ Next_(t)[1][1] \in EntryLists
    BY <2>1 DEF EntryLists
  <2> QED
    BY <1>2, <1>5, <2>3, <2>4 DEF Shape, t
<1> QED
  BY <1>3, <1>4, <1>5 DEF t

\* An item among the others
LEMMA ItemTurnOn ==
    ASSUME PInv, line = "words", NEW i \in DOMAIN ItemFields \cup {"end"}, i # "/", NEW c, NEW o, Word_(<<"ITEM", i>>, c, o),
           DOMAIN c = CtxFields, c.args = ctx.args, c.next = ctx.next, ~given => c.object = NULL, given => c.object # NULL,
           given => o = (IF out.actions.set = TRUE THEN AddAction(i) ELSE AddItem(i)), ~given => o = NewBuffer,
           NEW l, ctx.next = <<l>>, asked = Nothing, KeptBelow(given, ctx.args, <<l>>, out), l[1] \in ItemLists
    PROVE  PInv'
<1> DEFINE t == <<"ITEM", i>>
<1>1. given => PhaseOf(l[1], out)
  BY PlaceNow
<1>2. given => out.actions.set = FALSE /\ out.command \in RuleCommands \cup RawCommands
  BY <1>1 DEF PhaseOf
<1>3. given => o = AddItem(i)
  BY <1>2
<1>4. LET b == AddItem(i)
      IN  /\ Whole(ctx, b) /\ b.command = out.command /\ b.actions = out.actions
          /\ b.pattern.ended = (i = "end") /\ DataOf(b) = ItemData(i)
  BY AddedItem
<1>5. given => /\ Whole(ctx, o) /\ o.command = out.command /\ o.actions = out.actions
               /\ o.pattern.ended = (i = "end") /\ DataOf(o) = ItemData(i)
  BY <1>3, <1>4
<1>6. ~given => Whole(ctx, o) /\ o.command = out.command
  BY WholeBuffers DEF PInv
<1>7. Of(given, DataOf(o), ItemData(i))
  BY <1>5 DEF Of
<1>8. /\ Shape(given, Next_(t), Args_(t), Nothing, c.object, DataOf(o)) /\ ~Names(t) /\ t \notin Slashes
      /\ Next_(t) # <<>> /\ Next_(t)[1][1] = IF i = "end" THEN "ACTIONS" ELSE "AFTER_ITEM"
  BY <1>7, ItemShape
<1>9. Word_(t, c, o)
  OBVIOUS
<1> HIDE DEF t
<1>10. OverKept(<<l>>) => OverKept(Next_(t)) /\ o.command = out.command
  BY <1>5, <1>6, <1>8 DEF OverKept, ItemLists
<1>11. given => Phased(Next_(t), t, o)
  <2> SUFFICES ASSUME given
               PROVE  Phased(Next_(t), t, o)
    OBVIOUS
  <2>1. CASE i = "end"
    <3>1. PhaseOf("ACTIONS", o) /\ "ACTIONS" \in HeededNames
      BY <1>2, <1>5, <2>1 DEF PhaseOf, HeededNames, StartNames, ItemLists, EntryLists
    <3> QED
      BY <1>8, <2>1, <3>1, RulePhase
  <2>2. CASE i # "end"
    <3>1. PhaseOf("AFTER_ITEM", o) /\ "AFTER_ITEM" \in HeededNames
      BY <1>2, <1>5, <2>2 DEF PhaseOf, HeededNames, StartNames, ItemLists, EntryLists
    <3> QED
      BY <1>8, <2>2, <3>1, RulePhase
  <2> QED
    BY <2>1, <2>2
<1> QED
  BY <1>5, <1>6, <1>8, <1>9, <1>10, <1>11, RestWord

\* The first item of "set raw", where the place of the index it was not given stays
LEMMA RawItemOn ==
    ASSUME PInv, line = "words", NEW c, NEW o, Word_(<<"ITEM", "eth">>, c, o),
           DOMAIN c = CtxFields, c.args = ctx.args, c.next = ctx.next, ~given => c.object = NULL, given => c.object # NULL,
           given => o = (IF out.actions.set = TRUE THEN AddAction("eth") ELSE AddItem("eth")), ~given => o = NewBuffer,
           ctx.next = << <<"next_set_raw">> >>, asked = Nothing,
           NEW low, ctx.args = low \o <<Out("port")>>, KeptBelow(given, low, ctx.next, out)
    PROVE  PInv'
<1> DEFINE t == <<"ITEM", "eth">>
           m == << <<"AFTER_ITEM", "eth">> >>
           base == low \o <<Out("port")>>
           l == <<"next_set_raw">>
<1>1. given => PhaseOf("next_set_raw", out)
  <2>1. l[1] = "next_set_raw" /\ ctx.next = <<l>>
    OBVIOUS
  <2> HIDE DEF l
  <2> QED
    BY <2>1, PlaceNow
<1>2. given => out.actions.set = FALSE /\ out.command \in RawCommands
  BY <1>1 DEF PhaseOf
<1>3. given => o = AddItem("eth")
  BY <1>2
<1>4. LET b == AddItem("eth")
      IN  /\ Whole(ctx, b) /\ b.command = out.command /\ b.actions = out.actions
          /\ DataOf(b) = ItemData("eth")
  BY AddedItem
<1>5. given => /\ Whole(ctx, o) /\ o.command = out.command /\ o.actions = out.actions
               /\ DataOf(o) = ItemData("eth")
  BY <1>3, <1>4
<1>6. ~given => Whole(ctx, o)
  BY WholeBuffers DEF PInv
<1>7. Next_(t) = m /\ Args_(t) = <<>> /\ ~Names(t) /\ t \notin Slashes
  <2>1. Next_(t) = m /\ Args_(t) = <<>>
    BY EntryTurn DEF ItemNext
  <2>2. t[1] = "ITEM" /\ t[2] = "eth" /\ Len(t) = 2
    OBVIOUS
  <2> HIDE DEF t
  <2> QED
    BY <2>1, <2>2 DEF Names, Slashes
<1>8. Shape(given, m, <<>>, Nothing, c.object, DataOf(o))
  <2>1. RestList(given, <<"AFTER_ITEM", "eth">>, c.object, DataOf(o))
    BY <1>5, ItemTable DEF RestList, Of
  <2>2. AtRest(given, m, <<>>, Nothing, c.object, DataOf(o))
    BY <2>1 DEF AtRest
  <2> QED
    BY <2>2 DEF Shape
<1>9. low \in Seq(KeptPlaces) /\ (given => low = <<>>)
  BY <1>2 DEF KeptBelow, OverKept, ItemLists, EntryLists
<1>10. base \in Seq(KeptPlaces) /\ base \o <<>> = base
  BY <1>9, Absorbed DEF KeptPlaces
<1>11. given => base = <<Out("port")>>
  BY <1>9, OnEmpty
<1>12. OverKept(m)
  BY DEF OverKept, ItemLists
<1>13. Word_(t, c, o)
  OBVIOUS
<1>14. given => Phased(m, t, o)
  <2>1. given => PhaseOf("AFTER_ITEM", o) /\ "AFTER_ITEM" \in HeededNames
    BY <1>2, <1>5 DEF PhaseOf, HeededNames, StartNames, ItemLists, EntryLists, RawCommands, RuleCommands
  <2>2. m # <<>> /\ m[1][1] = "AFTER_ITEM"
    OBVIOUS
  <2> HIDE DEF m
  <2> QED
    BY <2>1, <2>2, RulePhase
<1>15. Front(c.next) \o Next_(t) = m
  <2>1. Front(c.next) = <<>>
    BY TopOfOne
  <2>2. <<>> \o m = m
    BY OnEmpty
  <2> QED
    BY <1>7, <2>1, <2>2
<1>16. c.args \o Args_(t) = base \o <<>>
  BY <1>7
<1> HIDE DEF t, m, base, l
<1>17. KeptBelow(given, base, m, o)
  BY <1>2, <1>5, <1>10, <1>11, <1>12 DEF KeptBelow
<1>18. Keeps(given, base, m, <<>>, t, Nothing, c.object, o)
  BY <1>7, <1>8, <1>14, <1>17 DEF Keeps
<1>19. Keeps(given, base, Front(c.next) \o Next_(t), <<>>, t, IF Names(t) THEN t ELSE asked, c.object, o)
  BY <1>7, <1>15, <1>18
<1>20. Whole([next |-> <<>>, args |-> <<>>, curr |-> t, object |-> NULL, objmask |-> FALSE, count |-> 0], o)
  BY <1>5, <1>6 DEF Whole, CtxFields
<1> QED
  BY <1>13, <1>16, <1>19, <1>20, WordStays

\* Where an item is
LEMMA ItemPlace ==
    ASSUME PInv, line = "words", NEW t, Candidate(t), t[1] = "ITEM"
    PROVE  \/ \E l : /\ ctx.next = <<l>> /\ asked = Nothing /\ KeptBelow(given, ctx.args, <<l>>, out)
                     /\ RestList(given, l, ctx.object, DataOf(out)) /\ t \in ListOf(l)
           \/ /\ t = <<"ITEM", "eth">>
              /\ ctx.next = << <<"next_set_raw">> >> /\ asked = Nothing
              /\ \E low : ctx.args = low \o <<Out("port")>> /\ KeptBelow(given, low, ctx.next, out)
<1> PICK base, p : /\ ctx.args = base \o p
                   /\ KeptBelow(given, base, ctx.next, out)
                   /\ Shape(given, ctx.next, p, asked, ctx.object, DataOf(out))
  BY Parts
<1>1. t \in ListOf(Last(ctx.next)) /\ ctx.next # <<>>
  BY DEF Candidate
<1>2. /\ t[1] \notin {"RULE_ID", "GROUP_ID", "SHARED_ACTION_ID", "PRIORITY_LEVEL", "UNSIGNED", "FILE_PATH", "PARAM"}
      /\ t[1] \notin Kinds \cup {"STRING", "PREFIX", "HEX"} /\ t[1] \notin OutTops
      /\ t[1] \notin {"ECPRI", "RSS_FUNC", "RSS_TYPE", "RSS_QUEUE", "INDEX", "SHARED_ACTION_ID2PTR", "SET_RAW_INDEX"}
  BY DEF OutTops, Kinds, Uns, Bool, Mac, Ip4, Ip6
<1>3. CASE AtOut(given, ctx.next, p, asked, ctx.object)
  <2>1. Last(ctx.next) \in {<<"next_dump_attr">>, <<"next_set_raw">>} \/ \E w \in OutTops : Last(ctx.next) = <<w>>
    BY <1>3, OutTopIs DEF AtOut
  <2>2. OutTops \subseteq SingleLists
    BY DEF OutTops, SingleLists, Kinds, Bool
  <2>3. Last(ctx.next) = <<"next_set_raw">> /\ t = <<"ITEM", "eth">>
    BY <1>1, <1>2, <2>1, <2>2, MixedListsAre, SinglesAre
  <2>4. <<"SET_RAW_INDEX">> \in ListOf(Last(ctx.next))
    BY <2>3, MixedListsAre
  <2>5. ctx.next = << <<"next_set_raw">> >> /\ p = <<Out("port")>>
    BY <1>1, <2>4, IndexWordAt
  <2>6. asked = Nothing
    BY <1>3, <2>5 DEF AtOut
  <2> QED
    BY <2>3, <2>5, <2>6
<1>4. CASE ~AtOut(given, ctx.next, p, asked, ctx.object)
  <2>1. PICK l : /\ ctx.next = <<l>> /\ Last(ctx.next) = l /\ p = <<>> /\ asked = Nothing
                 /\ RestList(given, l, ctx.object, DataOf(out))
    BY <1>1, <1>2, <1>4, WordTellsShape
  <2>2. ctx.args = base
    BY <2>1, NoneOnTop DEF KeptBelow
  <2> QED
    BY <1>1, <2>1, <2>2
<1> QED
  BY <1>3, <1>4

\* Items
LEMMA ItemOn == ASSUME PInv, line = "words", Item PROVE PInv'
<1> PICK t : /\ t[1] = "ITEM" /\ Len(t) = 2 /\ t[2] # "/"
             /\ parse_vc(t, <<"item">>)
  BY DEF Item
<1> DEFINE c == IF given THEN [At(<<"item">>, FALSE) EXCEPT !.count = 0] ELSE ctx
           b == IF out.actions.set THEN AddAction(t[2]) ELSE AddItem(t[2])
           o == Filled(b)
<1>1. Word_(t, c, o)
  BY DEF parse_vc
<1>2. /\ DOMAIN c = CtxFields /\ c.args = ctx.args /\ c.next = ctx.next
      /\ ~given => c.object = NULL
      /\ given => c.object # NULL
  <2>1. <<"item">> # NULL
    BY Objects
  <2> QED
    BY <2>1, EntryContext
<1>3. /\ given => o = (IF out.actions.set = TRUE THEN AddAction(t[2]) ELSE AddItem(t[2]))
      /\ ~given => o = NewBuffer
  BY DEF Filled, PInv
<1>4. Candidate(t)
  BY <1>1 DEF Word_
<1>5. PICK i : i = t[2]
  OBVIOUS
<1> HIDE DEF c, o
<1>6. ASSUME NEW l, ctx.next = <<l>>, asked = Nothing, KeptBelow(given, ctx.args, <<l>>, out),
             RestList(given, l, ctx.object, DataOf(out)), t \in ListOf(l)
      PROVE  PInv'
  <2>1. /\ l[1] \in ItemLists
        /\ \/ IsField(given, t, DataOf(out))
           \/ t = <<"ITEM", "/">>
           \/ t = <<"ITEM", t[2]>> /\ t[2] \in DOMAIN ItemFields \cup {"end"}
    BY <1>6, ItemHome
  <2>2. ~IsField(given, t, DataOf(out))
    BY DEF IsField
  <2>3. <<"ITEM", "/">>[2] = "/"
    OBVIOUS
  <2>4. t = <<"ITEM", i>> /\ i \in DOMAIN ItemFields \cup {"end"} /\ i # "/" /\ l[1] \in ItemLists
    BY <1>5, <2>1, <2>2, <2>3
  <2>5. Word_(<<"ITEM", i>>, c, o)
    BY <1>1, <2>4
  <2>6. /\ given => o = (IF out.actions.set = TRUE THEN AddAction(i) ELSE AddItem(i))
        /\ ~given => o = NewBuffer
    BY <1>3, <1>5
  <2> QED
    BY <1>2, <1>6, <2>4, <2>5, <2>6, ItemTurnOn
<1>7. ASSUME t = <<"ITEM", "eth">>, ctx.next = << <<"next_set_raw">> >>, asked = Nothing,
             NEW low, ctx.args = low \o <<Out("port")>>, KeptBelow(given, low, ctx.next, out)
      PROVE  PInv'
  <2>1. t[2] = "eth"
    BY <1>7
  <2>2. Word_(<<"ITEM", "eth">>, c, o)
    BY <1>1, <1>7
  <2>3. /\ given => o = (IF out.actions.set = TRUE THEN AddAction("eth") ELSE AddItem("eth"))
        /\ ~given => o = NewBuffer
    BY <1>3, <2>1
  <2> QED
    BY <1>2, <1>7, <2>2, <2>3, RawItemOn
<1> QED
  BY <1>4, <1>6, <1>7, ItemPlace

\* Actions
LEMMA ActionTurnOn ==
    ASSUME PInv, line = "words", NEW a \in DOMAIN ActionFields \cup {"shared", "end"}, a # "/", NEW c, NEW o,
           Word_(<<"ACTION", a>>, c, o),
           DOMAIN c = CtxFields, c.args = ctx.args, c.next = ctx.next, ~given => c.object = NULL, given => c.object # NULL,
           Points(given, c.object, IF a \in OwnParser THEN ActionData(a) ELSE <<"action">>),
           given => o = (IF out.actions.set = TRUE THEN AddAction(a) ELSE AddItem(a)), ~given => o = NewBuffer,
           NEW l, ctx.next = <<l>>, asked = Nothing, KeptBelow(given, ctx.args, <<l>>, out), l[1] \in SampleLists
    PROVE  PInv'
<1> DEFINE t == <<"ACTION", a>>
<1>1. given => PhaseOf(l[1], out)
  BY PlaceNow
<1>2. given => /\ out.actions.set = TRUE /\ out.command \in RawCommands \cup Heeded
               /\ (out.command \in RuleCommands => out.pattern.ended = TRUE)
  BY <1>1 DEF PhaseOf, SampleLists, EntryLists, Heeded, RuleCommands, RawCommands, MadeCommands
<1>3. given => o = AddAction(a)
  BY <1>2
<1>4. LET b == AddAction(a)
      IN  /\ Whole(ctx, b) /\ b.command = out.command /\ b.pattern = out.pattern
          /\ b.actions.set = TRUE /\ b.actions.n > 0 /\ b.actions.ended = (a = "end") /\ DataOf(b) = ActionData(a)
  BY AddedAction
<1>5. given => /\ Whole(ctx, o) /\ o.command = out.command /\ o.pattern = out.pattern
               /\ o.actions.set = TRUE /\ o.actions.n > 0 /\ o.actions.ended = (a = "end") /\ DataOf(o) = ActionData(a)
  BY <1>3, <1>4
<1>6. ~given => Whole(ctx, o) /\ o.command = out.command
  BY WholeBuffers DEF PInv
<1>7. Of(given, DataOf(o), ActionData(a)) /\ (a \in OwnParser => Points(given, c.object, ActionData(a)))
  BY <1>5 DEF Of
<1>8. /\ Shape(given, Next_(t), Args_(t), Nothing, c.object, DataOf(o)) /\ ~Names(t) /\ t \notin Slashes
      /\ a = "end" => Next_(t) = <<>>
      /\ a # "end" => Next_(t) # <<>> /\ Next_(t)[1][1] \in EntryLists
  BY <1>7, ActionShape
<1>9. Word_(t, c, o)
  OBVIOUS
<1> HIDE DEF t
<1>10. OverKept(Next_(t)) /\ o.command = out.command
  BY <1>5, <1>6, <1>8 DEF OverKept
<1>11. given => Phased(Next_(t), t, o)
  <2> SUFFICES ASSUME given
               PROVE  Phased(Next_(t), t, o)
    OBVIOUS
  <2>1. CASE a = "end"
    <3>1. Complete(o)
      BY <1>2, <1>5, <2>1 DEF Complete
    <3> QED
      BY <1>8, <2>1, <3>1 DEF Phased
  <2>2. CASE a # "end"
    <3>1. PhaseOf(Next_(t)[1][1], o) /\ Next_(t)[1][1] \in HeededNames
      BY <1>2, <1>5, <1>8, <2>2 DEF PhaseOf, HeededNames, StartNames, ItemLists, EntryLists
    <3> QED
      BY <1>8, <2>2, <3>1, RulePhase
  <2> QED
    BY <2>1, <2>2
<1> QED
  BY <1>5, <1>6, <1>8, <1>9, <1>10, <1>11, RestWord

LEMMA ActionOn == ASSUME PInv, line = "words", Action PROVE PInv'
<1> PICK t : /\ t[1] = "ACTION" /\ Len(t) = 2 /\ t[2] # "/"
             /\ parse_vc(t, IF t[2] \in OwnParser THEN ActionData(t[2]) ELSE <<"action">>)
  BY DEF Action
<1> DEFINE x == IF t[2] \in OwnParser THEN ActionData(t[2]) ELSE <<"action">>
           c == IF given THEN [At(x, FALSE) EXCEPT !.count = 0] ELSE ctx
           b == IF out.actions.set THEN AddAction(t[2]) ELSE AddItem(t[2])
           o == Filled(b)
<1>1. Word_(t, c, o)
  BY DEF parse_vc
<1>2. /\ DOMAIN c = CtxFields /\ c.args = ctx.args /\ c.next = ctx.next /\ Points(given, c.object, x)
      /\ ~given => c.object = NULL
      /\ given => c.object # NULL
  <2>1. x # NULL
    <3>1. <<"action">> # NULL
      BY Objects
    <3>2. ActionData(t[2]) # NULL
      BY DEF ActionData, NULL
    <3> QED
      BY <3>1, <3>2
  <2> HIDE DEF x
  <2> QED
    BY <2>1, EntryContext
<1>3. /\ given => o = (IF out.actions.set = TRUE THEN AddAction(t[2]) ELSE AddItem(t[2]))
      /\ ~given => o = NewBuffer
  BY DEF Filled, PInv
<1>4. Candidate(t)
  BY <1>1 DEF Word_
<1>5. PICK a : a = t[2]
  OBVIOUS
<1> HIDE DEF c, o
<1>6. PICK l : /\ ctx.next = <<l>> /\ asked = Nothing /\ KeptBelow(given, ctx.args, <<l>>, out)
               /\ RestList(given, l, ctx.object, DataOf(out)) /\ t \in ListOf(l)
  <2>1. t # <<"ITEM", "eth">>
    OBVIOUS
  <2>2. t[1] \notin ValueNames /\ t[1] \notin {"END", "RSS_FUNC"}
    BY DEF ValueNames, SimpleValues, Uns, Bool, Mac, Ip4, Ip6
  <2> QED
    BY <1>4, <2>1, <2>2, RestPlace
<1>7. t = <<"ACTION", a>> /\ a \in DOMAIN ActionFields \cup {"shared", "end"} /\ a # "/" /\ l[1] \in SampleLists
  <2>1. /\ l[1] \in SampleLists
        /\ \/ t = <<"ACTION", t[2]>> /\ t[2] \in DOMAIN ActionFields \cup {"shared", "end", "/"}
           \/ \E y \in DOMAIN ActionFields : ActionAt(given, l, ctx.object, DataOf(out), y) /\ OfAction(t, y) /\ Len(t) = 3
    BY <1>6, ActionHome
  <2> QED
    BY <1>5, <2>1
<1>8. Word_(<<"ACTION", a>>, c, o)
  BY <1>1, <1>7
<1>9. /\ given => o = (IF out.actions.set = TRUE THEN AddAction(a) ELSE AddItem(a))
      /\ ~given => o = NewBuffer
  BY <1>3, <1>5
<1>10. Points(given, c.object, IF a \in OwnParser THEN ActionData(a) ELSE <<"action">>)
  BY <1>2, <1>5
<1> QED
  BY <1>2, <1>6, <1>7, <1>8, <1>9, <1>10, ActionTurnOn

-----------------------------------------------------------------------------
(* Lines. *)

\* A line that begins has one list left: the word it begins with.
LEMMA Begins ==
    ASSUME NEW first \in {"ZERO", "START_SET"}
    PROVE  \E x \in {"FLOW", "SET"} : NewContext(<<first>>, <<Next_(<<first>>)[1]>>) = NewContext(<<first>>, << <<x>> >>)
<1>1. CASE first = "ZERO"
  <2>1. Next_(<<"ZERO">>)[1] = <<"FLOW">>
    BY CommandTurns
  <2> QED
    BY <1>1, <2>1
<1>2. CASE first = "START_SET"
  <2>1. Next_(<<"START_SET">>)[1] = <<"SET">>
    BY CommandTurns
  <2> QED
    BY <1>2, <2>1
<1> QED
  BY <1>1, <1>2

LEMMA BeginOn ==
    ASSUME PInv, NEW first \in {"ZERO", "START_SET"}, NEW buffered \in BOOLEAN, cmd_flow_context_init(first, buffered)
    PROVE  PInv'
<1> PICK x \in {"FLOW", "SET"} : ctx' = NewContext(<<first>>, << <<x>> >>)
  BY Begins DEF cmd_flow_context_init
<1> DEFINE c == NewContext(<<first>>, << <<x>> >>)
           b == NewBuffer
           n == << <<x>> >>
<1>1. ctx' = c /\ out' = b /\ given' = buffered /\ line' = "words" /\ asked' = Nothing /\ stored' = {}
  BY DEF cmd_flow_context_init
<1>2. /\ c.next = n /\ c.args = <<>> /\ c.curr = <<first>> /\ c.object = NULL /\ DOMAIN c = CtxFields
      /\ b.command = "" /\ b.actions.set = FALSE
  BY DEF NewContext, NewBuffer, CtxFields
<1>3. Whole(c, b)
  BY <1>2 DEF Whole, NewBuffer, OutFields
<1>4. n # <<>> /\ n[1][1] = x /\ <<first>> \notin Slashes
  BY DEF Slashes
<1>5. Shape(buffered, n, <<>>, Nothing, NULL, DataOf(b))
  <2>1. x \in RestNames /\ x \notin {"next_sa_create_attr", "tunnel_commands"}
    BY DEF RestNames
  <2> QED
    BY <2>1, NextIsRest
<1>6. PhaseOf(x, b) /\ x \in HeededNames
  BY <1>2 DEF PhaseOf, HeededNames, StartNames, ItemLists, EntryLists, Heeded, RuleCommands, MadeCommands
<1> HIDE DEF c, b, n
<1>7. Phased(n, <<first>>, b)
  BY <1>4, <1>6, RulePhase
<1>8. KeptBelow(buffered, <<>>, n, b) /\ <<>> = <<>> \o <<>>
  BY OnEmpty DEF KeptBelow
<1>9. Reading(buffered, c, b, Nothing)
  BY <1>2, <1>4, <1>5, <1>7, <1>8 DEF Reading
<1>10. WellStored({})
  BY DEF WellStored
<1>11. b = NewBuffer /\ c.object = NULL
  BY <1>2 DEF b
<1> QED
  BY <1>1, <1>3, <1>9, <1>10, <1>11 DEF PInv

LEMMA OutTopEnds ==
    ASSUME NEW n, NEW p, OutValues(n, p)
    PROVE  n = << <<"next_dump_attr">> >> \/ Last(n) = <<"next_set_raw">> \/ \E w \in OutTops : Last(n) = <<w>>
BY TopOfOne, TopOfTwo, TopOfThree DEF OutValues, OutTops

\* Where a line may end, it is complete, or it is not one whose lists matter.
LEMMA EndPlace ==
    ASSUME PInv, line = "words", ctx.next # <<>>, <<"END">> \in ListOf(Last(ctx.next))
    PROVE  ctx.next[1][1] \notin HeededNames
<1> DEFINE t == <<"END">>
<1> PICK base, p : /\ ctx.args = base \o p
                   /\ KeptBelow(given, base, ctx.next, out)
                   /\ Shape(given, ctx.next, p, asked, ctx.object, DataOf(out))
  BY Parts
<1>1. t \in ListOf(Last(ctx.next)) /\ t[1] = "END" /\ Len(t) = 1
  OBVIOUS
<1> HIDE DEF t
<1>2. /\ t[1] \notin {"RULE_ID", "GROUP_ID", "SHARED_ACTION_ID", "PRIORITY_LEVEL", "UNSIGNED", "FILE_PATH", "PARAM"}
      /\ t[1] \notin Kinds \cup {"STRING", "PREFIX", "HEX"} /\ t[1] \notin OutTops
      /\ t[1] \notin {"ECPRI", "RSS_FUNC", "RSS_TYPE", "RSS_QUEUE", "INDEX", "SHARED_ACTION_ID2PTR", "SET_RAW_INDEX"}
  BY <1>1 DEF OutTops, Kinds, Uns, Bool, Mac, Ip4, Ip6
<1>3. CASE AtOut(given, ctx.next, p, asked, ctx.object)
  <2>1. Last(ctx.next) \in {<<"next_dump_attr">>, <<"next_set_raw">>} \/ \E w \in OutTops : Last(ctx.next) = <<w>>
    BY <1>3, OutTopIs DEF AtOut
  <2>2. OutTops \subseteq SingleLists
    BY DEF OutTops, SingleLists, Kinds, Bool
  <2>3. Last(ctx.next) = <<"next_dump_attr">>
    BY <1>1, <1>2, <2>1, <2>2, MixedListsAre, SinglesAre
  <2>4. ctx.next = << <<"next_dump_attr">> >> \/ Last(ctx.next) = <<"next_set_raw">> \/ \E w \in OutTops : Last(ctx.next) = <<w>>
    BY <1>3, OutTopEnds DEF AtOut
  <2>5. ctx.next = << <<"next_dump_attr">> >>
    BY <2>3, <2>4 DEF OutTops, Bool
  <2>6. ctx.next[1][1] = "next_dump_attr"
    BY <2>5
  <2> QED
    BY <2>6 DEF HeededNames, StartNames, ItemLists, EntryLists
<1>4. CASE ~AtOut(given, ctx.next, p, asked, ctx.object)
  <2>1. PICK l : /\ ctx.next = <<l>> /\ Last(ctx.next) = l /\ p = <<>> /\ asked = Nothing
                 /\ RestList(given, l, ctx.object, DataOf(out))
    BY <1>1, <1>2, <1>4, WordTellsShape
  <2>2. t # <<"ECPRI_TYPE">> /\ t # <<"ACTION", "/">> /\ ~OfItem(given, t, DataOf(out)) /\ \A a : ~OfAction(t, a)
    BY <1>1 DEF OfItem, IsField, OfAction
  <2>3. WordOf(given, l, ctx.object, t)
    BY <1>1, <2>1, <2>2, Homes
  <2>4. PICK x \in RestNames : l = <<x>> /\ "END" \in FirstsOf(x)
    BY <1>1, <2>3 DEF WordOf
  <2>5. x \in {"END", "next_sa_destroy_attr", "next_destroy_attr", "next_list_attr", "next_aged_attr"}
    BY <2>4, CommandHomes DEF CommandHome
  <2>6. ctx.next[1][1] = x
    BY <2>1, <2>4
  <2> QED
    BY <2>5, <2>6 DEF HeededNames, StartNames, ItemLists, EntryLists
<1> QED
  BY <1>3, <1>4

LEMMA EndOn == ASSUME PInv, cmd_flow_tok PROVE PInv'
<1>1. /\ line = "words" /\ given = TRUE /\ line' = "ran" /\ stored' = {}
      /\ ctx' = ctx /\ out' = out /\ given' = given
  BY DEF cmd_flow_tok, PInv
<1>2. Phased(ctx.next, ctx.curr, out)
  BY <1>1 DEF PInv, Reading
<1>3. ctx.next # <<>> => Complete(out)
  <2> SUFFICES ASSUME ctx.next # <<>>
               PROVE  Complete(out)
    OBVIOUS
  <2>1. ctx.next[1][1] \notin HeededNames
    BY <1>1, EndPlace DEF cmd_flow_tok
  <2>2. out.command \notin Heeded
    BY <1>2, <2>1 DEF Phased
  <2> QED
    BY <2>2 DEF Complete, Heeded, RuleCommands, MadeCommands
<1>4. ctx.curr = <<"END_SET">> \/ Complete(out)
  BY <1>2, <1>3 DEF Phased
<1>5. WellStored({})
  BY DEF WellStored
<1>6. Whole(ctx, out)
  BY DEF PInv
<1> QED
  BY <1>1, <1>4, <1>5, <1>6 DEF PInv

LEMMA LeaveOn == ASSUME Leave PROVE PInv'
<1>1. ctx' = NewContext(<<"ZERO">>, <<>>) /\ out' = NewBuffer
  BY DEF Leave
<1>2. Whole(NewContext(<<"ZERO">>, <<>>), NewBuffer)
  BY DEF Whole, NewContext, NewBuffer, CtxFields, OutFields
<1>3. stored' = {} /\ given' = TRUE /\ line' = "idle"
  BY DEF Leave
<1>4. WellStored({})
  BY DEF WellStored
<1> QED
  BY <1>1, <1>2, <1>3, <1>4 DEF PInv

LEMMA ReadOn == ASSUME PInv, ReadWord PROVE PInv'
<1>1. line = "words"
  BY DEF ReadWord
<1>2. CASE parse_default
  BY <1>1, <1>2, DefaultOn
<1>3. CASE parse_init \/ parse_set_init
  BY <1>1, <1>3, InitOn
<1>4. CASE \E w \in DOMAIN NamedTokens \cup {"AGED_DESTROY"} : CommandWord(w)
  BY <1>1, <1>4, CommandWordOn
<1>5. CASE Item
  BY <1>1, <1>5, ItemOn
<1>6. CASE Action
  BY <1>1, <1>6, ActionOn
<1>7. CASE \E x \in {"is", "spec", "last", "mask", "prefix"} : parse_vc_spec(x)
  BY <1>1, <1>7, SpecOn
<1>8. CASE parse_vc_conf
  BY <1>1, <1>8, ConfOn
<1>9. CASE Values
  BY <1>1, <1>9, ValuesOn
<1> QED
  BY <1>2, <1>3, <1>4, <1>5, <1>6, <1>7, <1>8, <1>9 DEF ReadWord

LEMMA PStays == ASSUME PInv, PNext \/ UNCHANGED pvars PROVE PInv'
<1>1. CASE \E first \in {"ZERO", "START_SET"}, buffered \in BOOLEAN : cmd_flow_context_init(first, buffered)
  BY <1>1, BeginOn
<1>2. CASE ReadWord
  BY <1>2, ReadOn
<1>3. CASE cmd_flow_tok
  BY <1>3, EndOn
<1>4. CASE Leave
  BY <1>4, LeaveOn
<1>5. CASE UNCHANGED pvars
  BY <1>5 DEF pvars, PInv, Whole, Reading
<1> QED
  BY <1>1, <1>2, <1>3, <1>4, <1>5 DEF PNext

\* What a line of the flow grammar does, no other part of the prompt undoes.
LEMMA LinesInvariant == Spec => []PInv
<1>1. Init => PInv
  BY PInitially DEF Init
<1>2. PInv /\ [Next]_vars => PInv'
  <2> SUFFICES ASSUME PInv, [Next]_vars
               PROVE  PInv'
    OBVIOUS
  <2>1. PNext \/ UNCHANGED pvars
    BY DEF Next, vars
  <2> QED
    BY <2>1, PStays
<1> QED
  BY <1>1, <1>2, PTL DEF Spec

\* Each value of a flow command is stored in the field that the words before it name, in an object
\* of the kind that field is an offset into, and nothing is while a line is only completed
\* (parse_int(), parse_string() and the places that parse_default() and push_args() leave).
THEOREM ValuesAreStoredWhereMeant == Spec => []StoredWhereMeant
<1>1. PInv => StoredWhereMeant
  BY PMeans
<1> QED
  BY <1>1, LinesInvariant, PTL

\* After every entry the stacks of the parser are as after the first, and a line that is carried
\* out has lists that end (cmd_flow_parse(), cmd_flow_tok() and cmd_flow_parsed()).
THEOREM FlowLinesHoldTogether == Spec => []LinesHoldTogether
<1>1. PInv => LinesHoldTogether
  BY PMeans
<1> QED
  BY <1>1, LinesInvariant, PTL
=============================================================================
