-------------------------- MODULE CoordinatorListing --------------------------
(***************************************************************************)
(* The listings of the coordinator: what a response built from one kvList  *)
(* and a kvGet per key has to do with the store, while other handlers      *)
(* write and delete between those calls and entries expire.  The variable  *)
(* watch only observes.                                                    *)
(***************************************************************************)
EXTENDS Coordinator

VARIABLE watch    \* what was live since the listing in slot r began

lvars == <<now, proxies, records, req, watch>>

\* The keys the request m asks for, with their values, that are live now.
LiveValues(m) ==
    IF m.op = "meshStatus"
    THEN {<<k, records[k].value>> : k \in {j \in MeshKey : Live(records[j])}}
    ELSE {<<i, proxies[i].value>> :
             i \in {j \in Id : Live(proxies[j]) /\ (m.op = "sub" => j = m.id)}}

Unwatched == [may |-> {}, must |-> {}]

\* must: the keys live at every moment since kvList returned; may: the
\* values live at some moment since then.
Watch(r) ==
    LET live == LiveValues(req[r].msg)'
    IN  IF req'[r].step # "scan" THEN Unwatched
        ELSE IF req[r].step = "scan"
        THEN [may |-> watch[r].may \cup live,
              must |-> watch[r].must \cap {kv[1] : kv \in live}]
        ELSE [may |-> live, must |-> {kv[1] : kv \in live}]

LInit == Init /\ watch = [r \in Req |-> Unwatched]

LNext == Next /\ watch' = [r \in Req |-> Watch(r)]

LSpec == LInit /\ [][LNext]_lvars

\* A handler that can go on does so: nothing in the code blocks.
LFairSpec == LSpec /\ \A r \in Req : WF_vars(Handle(r))

-----------------------------------------------------------------------------
(* Properties.                                                             *)

\* A listing is a sequence of reads and no snapshot, yet it never returns a
\* value that was not live at some moment while it ran (index.ts:454-472).
ListSound ==
    \A r \in Req : req[r].step = "scan" => req[r].result \subseteq watch[r].may

\* And it has every key that was live all the while, apart from those whose
\* value it is meant to hide.
ListComplete ==
    \A r \in Req : req[r].step = "scan" =>
        \A k \in watch[r].must :
            \/ k \in req[r].todo
            \/ \E kv \in req[r].result : kv[1] = k
            \/ \E kv \in watch[r].may :
                  kv[1] = k /\ ~Shown(req[r].msg.op, kv[1], kv[2])
=============================================================================
