----------------------------- MODULE MCPreflight -----------------------------
(* A target in a container, in blocksnoop's own namespaces, given together    *)
(* with another process's thread of the same or of another namespace, or by a *)
(* number that is a thread's; hosts on which at most one prerequisite of a    *)
(* backend is missing.                                                        *)
EXTENDS Preflight, TLC

Task(tgid, ns, ltgid, local) ==
    [tgid |-> tgid, ns |-> ns, ltgid |-> ltgid, local |-> local, mnt |-> ns]

Contained == (10 :> Task(10, "pod", 1, 1)) @@ (11 :> Task(10, "pod", 1, 2))
Sharing == (10 :> Task(10, "host", 10, 10)) @@ (11 :> Task(10, "host", 10, 11))
Misaimed == (10 :> Task(10, "pod", 1, 1)) @@ (11 :> Task(11, "pod", 3, 3))
Misplaced == (10 :> Task(10, "pod", 1, 1)) @@ (11 :> Task(11, "vm", 1, 1))
Threaded == (10 :> Task(11, "pod", 1, 2)) @@ (11 :> Task(11, "pod", 1, 1))
MCTables == {Contained, Sharing, Misaimed, Misplaced, Threaded}

MCNewcomers ==
    (10 :> {Task(10, "pod", 7, 7), Task(10, "vm", 5, 5)})
    @@ (11 :> {Task(10, "vm", 5, 6)})

MCBystanders ==
    {Task(1, "host", 1, 1), Task(20, "pod", 5, 5), Task(21, "pod", 10, 10)}

Good ==
    [platform |-> TRUE, root |-> TRUE, austin |-> TRUE, sidecar |-> TRUE,
     privileges |-> TRUE, pid_namespace_helper |-> TRUE, bcc |-> "importable",
     mounts |-> {"tracing", "debug"}, files |-> {"enter", "exit"}, headers |-> "built",
     object_path |-> "unset", object_beside |-> {"given", "real"}]

Facts == {"platform", "root", "austin", "sidecar", "privileges", "pid_namespace_helper"}

Without(e) ==
    {[e EXCEPT ![f] = FALSE] : f \in Facts}
    \cup {[e EXCEPT !.bcc = b] : b \in {"broken", "absent"}}
    \cup {[e EXCEPT !.mounts = m] : m \in {{}, {"tracing"}}}
    \cup {[e EXCEPT !.files = f] : f \in {{"enter"}}}

\* Each differs for Core in its object and for BCC in its headers
Otherwise(e) ==
    {[e EXCEPT !.object_path = "readable", !.object_beside = {}, !.headers = "usr_src"],
     [e EXCEPT !.object_path = "unreadable", !.headers = "unlinkable"],
     [e EXCEPT !.object_beside = {"given"}, !.headers = "absent"],
     [e EXCEPT !.object_beside = {"real"}],
     [e EXCEPT !.object_beside = {}]}

MCEnvironments == {Good} \cup Without(Good) \cup Otherwise(Good)
=============================================================================
