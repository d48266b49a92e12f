---------------------------- MODULE RemoteFiles ----------------------------
(***************************************************************************)
(* exists, remove, metadata and list_files of FileTransferServiceImpl      *)
(* (service.rs) on a directory of another node: the request goes to the    *)
(* control plane of that node, which handles one request after the other   *)
(* (ops/file_ops.rs), and the call waits for a response of its own kind    *)
(* and session until manifest_timeout. Programs of the other node create   *)
(* and remove files meanwhile. The tree is one directory, a file in it and *)
(* a hidden file in it.                                                    *)
(***************************************************************************)
EXTENDS Naturals, FiniteSets

CONSTANTS
    RemoteCall,         \* calls, each with its TransferSessionId
    MaxChanges          \* bound: changes by other programs

ASSUME RemoteAssumption == MaxChanges \in Nat /\ 0 \notin RemoteCall

VARIABLES
    tree,       \* the paths that exist
    rcall,      \* the calls of the client
    requests,   \* requests on their way to the control plane
    answers,    \* answers on their way back
    handler,    \* the remove that the control plane is in the middle of
    changes,
    gone        \* ghost: the paths each call has removed or found missing

remoteVars == <<tree, rcall, requests, answers, handler, changes, gone>>

Paths == {"dir", "dir/file", "dir/.hidden"}
Children(p) == IF p = "dir" THEN Paths \ {"dir"} ELSE {}
Operations == {"exists", "remove", "metadata", "list"}
Options == [recursive : BOOLEAN, ignore_not_found : BOOLEAN, include_hidden : BOOLEAN,
            pattern : BOOLEAN]      \* pattern: only names that contain "file"
NoRequest == [id |-> 0]

RemoteInit ==
    /\ tree = Paths
    /\ rcall = [c \in RemoteCall |-> [pc |-> "idle", result |-> {}, pattern |-> FALSE]]
    /\ requests = {} /\ answers = {}
    /\ handler = NoRequest
    /\ changes = 0
    /\ gone = [c \in RemoteCall |-> {}]

\* Every call sends a request of its own session and waits. Options that an
\* operation does not read are FALSE.
CallRemote(c) ==
    /\ rcall[c].pc = "idle"
    /\ \E op \in Operations, p \in Paths, o \in Options :
         /\ op # "remove" => ~o.recursive /\ ~o.ignore_not_found
         /\ op # "list" => ~o.include_hidden /\ ~o.pattern
         /\ requests' = requests \cup {[id |-> c, op |-> op, path |-> p, options |-> o]}
         /\ rcall' = [rcall EXCEPT ![c] = [pc |-> op, result |-> {}, pattern |-> o.pattern]]
    /\ UNCHANGED <<tree, answers, handler, changes, gone>>

Answer(r, kind, result) == answers' = answers \cup {[id |-> r.id, kind |-> kind, result |-> result]}

\* validate refuses some paths (a symbolic link, a parent directory). The
\* handlers of remove, metadata and list put the error into their response;
\* handle_exists_request returns it and the control plane sends an Error.
RefusePath ==
    /\ handler = NoRequest
    /\ \E r \in requests :
         /\ requests' = requests \ {r}
         /\ Answer(r, IF r.op = "exists" THEN "error" ELSE r.op, {"Err"})
    /\ UNCHANGED <<tree, rcall, handler, changes, gone>>

\* The entries of a directory that list_files returns.
list_files(p, options) ==
    IF p \notin tree \/ p # "dir" THEN {"Err"}
    ELSE {q \in tree \cap Children(p) : q = "dir/.hidden" => options.include_hidden}

handle_exists_request(p) == tree \cap {p}
handle_metadata_request(p) == tree \cap {p}

\* The request carries neither pattern nor limit.
handle_list_request(p, options) == list_files(p, options)

HandleRead ==
    /\ handler = NoRequest
    /\ \E r \in requests :
         /\ r.op # "remove"
         /\ requests' = requests \ {r}
         /\ Answer(r, r.op, CASE r.op = "exists" -> handle_exists_request(r.path)
                              [] r.op = "metadata" -> handle_metadata_request(r.path)
                              [] r.op = "list" -> handle_list_request(r.path, r.options))
    /\ UNCHANGED <<tree, rcall, handler, changes, gone>>

\* remove reads the metadata of the path ...
StartRemove ==
    /\ handler = NoRequest
    /\ \E r \in requests :
         /\ r.op = "remove"
         /\ requests' = requests \ {r}
         /\ IF r.path \in tree
            THEN handler' = r /\ UNCHANGED <<answers, gone>>
            ELSE /\ Answer(r, "remove", IF r.options.ignore_not_found THEN {"Ok"} ELSE {"Err"})
                 /\ gone' = [gone EXCEPT ![r.id] = @ \cup {r.path}]
                 /\ UNCHANGED handler
    /\ UNCHANGED <<tree, rcall, changes>>

\* Mutant: an error of the removal is taken for a missing file.
FinishRemove_AnyError ==
    /\ handler # NoRequest
    /\ LET p == handler.path
           blocked == ~handler.options.recursive /\ tree \cap Children(p) # {}
       IN  /\ tree' = IF blocked THEN tree ELSE tree \ ({p} \cup Children(p))
           /\ gone' = IF blocked THEN gone ELSE [gone EXCEPT ![handler.id] = @ \cup {p}]
           /\ Answer(handler, "remove", IF handler.options.ignore_not_found \/ ~blocked
                                        THEN {"Ok"} ELSE {"Err"})
    /\ handler' = NoRequest
    /\ UNCHANGED <<rcall, requests, changes>>

\* ... and removes it; by then it may have disappeared, which is an error
\* unless ignore_not_found, and a directory with files is only removed with
\* recursive.
FinishRemove ==
    /\ handler # NoRequest
    /\ LET p == handler.path
           found == p \in tree
           blocked == ~handler.options.recursive /\ tree \cap Children(p) # {}
           ok == ~blocked /\ (found \/ handler.options.ignore_not_found)
       IN  /\ tree' = IF blocked THEN tree ELSE tree \ ({p} \cup Children(p))
           /\ gone' = IF blocked THEN gone ELSE [gone EXCEPT ![handler.id] = @ \cup {p}]
           /\ Answer(handler, "remove", IF ok THEN {"Ok"} ELSE {"Err"})
    /\ handler' = NoRequest
    /\ UNCHANGED <<rcall, requests, changes>>

\* What metadata and list_files make of their response: a missing file is an
\* error, and the entries are filtered by the caller.
metadata(found) == IF found = {} THEN {"Err"} ELSE found
list_filter_match(entry, pattern) == pattern => entry = "dir/file"
ListResult(entries, pattern) ==
    {e \in entries : e = "Err" \/ list_filter_match(e, pattern)}

\* recv_filtered takes the response of the session and of the awaited kind.
ReceiveAnswer(c) ==
    /\ \E a \in answers :
         /\ a.id = c /\ a.kind = rcall[c].pc
         /\ answers' = answers \ {a}
         /\ rcall' = [rcall EXCEPT ![c].pc = "returned",
                                   ![c].result = CASE a.kind = "metadata" -> metadata(a.result)
                                                   [] a.kind = "list" ->
                                                        ListResult(a.result, rcall[c].pattern)
                                                   [] OTHER -> a.result]
    /\ UNCHANGED <<tree, requests, handler, changes, gone>>

\* manifest_timeout; a late answer stays in the inbox.
RemoteTimeout(c) ==
    /\ rcall[c].pc \in Operations
    /\ rcall' = [rcall EXCEPT ![c].pc = "returned", ![c].result = {"Timeout"}]
    /\ UNCHANGED <<tree, requests, answers, handler, changes, gone>>

\* Another program creates or removes a file.
ChangeTree ==
    /\ changes < MaxChanges
    /\ changes' = changes + 1
    /\ \E p \in Paths :
         \/ p \in tree /\ tree' = tree \ ({p} \cup Children(p))
         \/ p \notin tree /\ tree' = tree \cup {p, "dir"}
    /\ UNCHANGED <<rcall, requests, answers, handler, gone>>

RemoteNext ==
    \/ \E c \in RemoteCall : CallRemote(c) \/ ReceiveAnswer(c) \/ RemoteTimeout(c)
    \/ RefusePath \/ HandleRead \/ StartRemove \/ FinishRemove \/ ChangeTree

RemoteSpec == RemoteInit /\ [][RemoteNext]_remoteVars

-----------------------------------------------------------------------------
RemoteTypeOK ==
    /\ tree \subseteq Paths
    /\ tree # {} => "dir" \in tree
    /\ \A c \in RemoteCall : rcall[c].pc \in Operations \cup {"idle", "returned"}
    /\ handler = NoRequest \/ handler.op = "remove"
    /\ gone \in [RemoteCall -> SUBSET Paths]

\* A remove that returned Ok has removed its path or seen it missing while
\* the call ran; a call that has its answer has nothing left that could act
\* on a file created after it.
RemoveIsDone ==
    \A c \in RemoteCall :
        rcall[c].pc = "returned" =>
            /\ "Ok" \in rcall[c].result => gone[c] # {}
            /\ "Timeout" \notin rcall[c].result =>
                 /\ \A r \in requests : r.id # c
                 /\ handler.id # c
=============================================================================
