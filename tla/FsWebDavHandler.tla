-------------------------- MODULE FsWebDavHandler --------------------------
(***************************************************************************)
(* The WebDAV server over a directory: handleRequest() and the handlers of *)
(* qlib/WebDavHandler/FsWebDavHandler.qc, the part of PROPPATCH in         *)
(* AbstractWebDavHandler.qc, and InMemoryWebDavPropertyHandler.qc.         *)
(*                                                                         *)
(* The HTTP server calls the handler from one thread per connection.  The  *)
(* only lock is the one inside each call of the property handler: between  *)
(* two accesses to the file system or the properties any other request may *)
(* run, so every access is a step.  The file system is external.           *)
(***************************************************************************)
EXTENDS Integers, Sequences, SequencesExt, FiniteSets

CONSTANTS
  Thread,       \* the connections' threads
  Path,         \* normalized paths below basePath, which is one of them
  Parent,       \* [Path -> Path or None]; None: outside of basePath
  Prop,         \* properties: namespace and name
  DavProp,      \* those in the namespace "DAV:"
  Val,          \* property values
  Block,        \* what a file can hold
  Request,      \* the requests clients send
  InitFs,       \* the file system at the start
  None

Method == {"OPTIONS", "LOCK", "UNLOCK", "COPY", "MOVE", "GET", "PROPFIND", "PUT",
           "DELETE", "MKCOL", "PROPPATCH"}

\* body: whether there is one, and whether it can be read; data: its blocks;
\* actions: the updates it asks for, a removal with None.
RequestType ==
  [method: Method, path: Path, body: {"none", "ok", "bad"}, depth: {"0", "1", "infinity"},
   data: Seq(Block), chunked: BOOLEAN, actions: Seq([prop: Prop, val: Val \cup {None}])]

\* type: as hstat() tells; data: the blocks of a file.
Resource == [type: {"none", "dir", "file"}, data: Seq(Block)]
NoFile == [type |-> "none", data |-> <<>>]
Directory == [type |-> "dir", data |-> <<>>]
File(d) == [type |-> "file", data |-> d]
NoProps == [x \in Prop |-> None]

Above[p \in Path] == IF Parent[p] = None THEN {} ELSE {Parent[p]} \cup Above[Parent[p]]
Below(p) == {q \in Path : p \in Above[q]}

ASSUME WebDavAssumption ==
  /\ None \notin Path \cup Val
  /\ Parent \in [Path -> Path \cup {None}]
  /\ DavProp \subseteq Prop
  /\ "hole" \in Block
  /\ Request \subseteq RequestType
  /\ InitFs \in [Path -> Resource]
  /\ \A p \in Path : InitFs[p].type # "file" => InitFs[p].data = <<>>

VARIABLES
  fs,        \* [Path -> resource]
  props,     \* m_cache: [Path -> [Prop -> value or None]]
  job,       \* [Thread -> the request it handles]
  orphaned   \* history: paths whose properties outlived the resource for a known cause

wvars == <<fs, props, job, orphaned>>

\* k: actions or blocks done; linked: the file it has open is still at the path;
\* alone: no other request changed the resource since; changed: it changed something.
Idle == [at |-> "idle", req |-> None, k |-> 0, code |-> 0, linked |-> FALSE,
         alone |-> TRUE, changed |-> FALSE]

Stage == Method \cup {"idle", "read", "open", "write", "remove", "forget", "mkdir", "patch", "done"}
Job == [at: Stage, req: Request \cup {None}, k: Nat, code: Nat, linked: BOOLEAN,
        alone: BOOLEAN, changed: BOOLEAN]

Reply(t, code) == [job[t] EXCEPT !.at = "done", !.code = code]
Goto(t, label) == [job[t] EXCEPT !.at = label]
Req(t) == job[t].req
Here(t) == Req(t).path

\* Thread t goes on as j; what it did to the resources of the others is noted.
Step(t, j) ==
  job' = [u \in Thread |->
    IF u = t THEN [j EXCEPT !.changed = @ \/ fs' # fs \/ props' # props]
    ELSE IF job[u].at = "idle" THEN job[u]
    ELSE LET p == Here(u) IN
         [job[u] EXCEPT !.linked = @ /\ fs'[p].type = "file",
                        !.alone = @ /\ fs'[p] = fs[p] /\ props'[p] = props[p]]]

Exists(p) == fs[p].type # "none"
ParentExists(p) == Parent[p] = None \/ fs[Parent[p]].type = "dir"

\* handleRequest(): the thread has answered its last request.
Receive(t, r) ==
  /\ job[t].at \in {"idle", "done"}
  /\ job' = [job EXCEPT ![t] = [Idle EXCEPT !.at = r.method, !.req = r]]
  /\ UNCHANGED <<fs, props, orphaned>>

\* A handler that reads, or answers at once.
Quiet(t, j) == UNCHANGED <<fs, props, orphaned>> /\ Step(t, j)

\* OPTIONS, LOCK and UNLOCK.
Refuse(t) ==
  \/ job[t].at = "OPTIONS" /\ Quiet(t, Reply(t, 200))
  \/ job[t].at = "LOCK" /\ \E code \in {400, 501} : Quiet(t, Reply(t, code))
  \/ job[t].at = "UNLOCK" /\ Quiet(t, Reply(t, 501))

\* COPY and MOVE end with an exception, as the key "webdav_rest_path" of cx is
\* never set (971): the server answers 500.
CopyMove(t) == job[t].at \in {"COPY", "MOVE"} /\ Quiet(t, Reply(t, 500))

-----------------------------------------------------------------------------
(* GET, HEAD and PROPFIND *)

Look(t) ==
  /\ job[t].at \in {"GET", "PROPFIND"}
  /\ Quiet(t, IF ~Exists(Here(t)) THEN Reply(t, 404)
              ELSE IF Req(t).body = "bad" /\ job[t].at = "PROPFIND" THEN Reply(t, 400)
              ELSE Goto(t, "read"))

\* getETag() and Dir::list() throw when the resource is gone; a directory
\* within the directory makes PROPFIND recurse on its own arguments (164)
\* until the stack is exhausted.
Read(t) ==
  LET p == Here(t)
      nested == /\ Req(t).method = "PROPFIND" /\ Req(t).depth = "infinity"
                /\ fs[p].type = "dir"
                /\ \E q \in Path : Parent[q] = p /\ fs[q].type = "dir"
  IN  /\ job[t].at = "read"
      /\ Quiet(t, IF ~Exists(p) \/ nested THEN Reply(t, 500)
                  ELSE Reply(t, IF Req(t).method = "GET" THEN 200 ELSE 207))

-----------------------------------------------------------------------------
(* POST and PUT *)

Put(t) ==
  /\ job[t].at = "PUT"
  /\ Quiet(t, IF ParentExists(Here(t)) THEN Goto(t, "open") ELSE Reply(t, 409))

\* Slip: the file is opened without O_TRUNC.
Open_Keep(t) ==
  LET p == Here(t) IN
  /\ job[t].at = "open"
  /\ fs' = [fs EXCEPT ![p] = IF @.type = "file" THEN @ ELSE File(<<>>)]
  /\ UNCHANGED <<props, orphaned>>
  /\ Step(t, [Goto(t, "write") EXCEPT !.linked = TRUE])

\* A body that cannot be read is found before the file is opened, unless it
\* is chunked.
Open(t) ==
  LET p == Here(t)
      can == fs[p].type # "dir" /\ ParentExists(p)
  IN  /\ job[t].at = "open"
      /\ \/ /\ can
            /\ fs' = [fs EXCEPT ![p] = File(<<>>)]
            /\ UNCHANGED <<props, orphaned>>
            /\ Step(t, [Goto(t, "write") EXCEPT !.linked = TRUE])
         \/ ~can /\ Quiet(t, Reply(t, IF Req(t).chunked THEN 400 ELSE 500))
         \/ ~Req(t).chunked /\ Quiet(t, Reply(t, 400))

\* write() replaces what is at its offset and keeps what is behind it.
Written(old, offset, new) ==
  [i \in 1..(IF Len(old) > offset + Len(new) THEN Len(old) ELSE offset + Len(new)) |->
     IF i \in (offset + 1)..(offset + Len(new)) THEN new[i - offset]
     ELSE IF i <= Len(old) THEN old[i] ELSE "hole"]

\* Slip: what is written goes to the path, not to the open file.
Write_Path(t) ==
  /\ job[t].at = "write"
  /\ job[t].k < Len(Req(t).data)
  /\ fs' = [fs EXCEPT ![Here(t)].data = Req(t).data]
  /\ UNCHANGED <<props, orphaned>>
  /\ Step(t, [job[t] EXCEPT !.k = Len(Req(t).data)])

\* The file system with n blocks more in the open file; a file that was unlinked
\* takes them unseen.
Stored(t, n) ==
  IF n = 0 \/ ~job[t].linked THEN fs
  ELSE [fs EXCEPT ![Here(t)] =
          File(Written(@.data, job[t].k, SubSeq(Req(t).data, job[t].k + 1, job[t].k + n)))]

\* The next block of a chunked body, or the whole of another one.
Write(t) ==
  LET n == IF Req(t).chunked THEN 1 ELSE Len(Req(t).data)
  IN  /\ job[t].at = "write"
      /\ job[t].k < Len(Req(t).data)
      /\ fs' = Stored(t, n)
      /\ UNCHANGED <<props, orphaned>>
      /\ Step(t, [job[t] EXCEPT !.k = @ + n])

\* The connection breaks within a chunked body, or the file cannot take all of
\* the body: m blocks of the last write are in it.
UploadFails(t) ==
  /\ job[t].at = "write"
  /\ job[t].k < Len(Req(t).data)
  /\ \E m \in 0..(IF Req(t).chunked THEN 0 ELSE Len(Req(t).data) - 1) : fs' = Stored(t, m)
  /\ UNCHANGED <<props, orphaned>>
  /\ Step(t, Reply(t, 400))

\* getETag() throws when the file is gone.
Tag(t) ==
  /\ job[t].at = "write" /\ job[t].k = Len(Req(t).data)
  /\ Quiet(t, Reply(t, IF Exists(Here(t)) THEN 201 ELSE 500))

-----------------------------------------------------------------------------
(* DELETE and MKCOL *)

Delete(t) ==
  /\ job[t].at = "DELETE"
  /\ Quiet(t, IF Exists(Here(t)) THEN Goto(t, "remove") ELSE Reply(t, 404))

HasProps(p) == props[p] # NoProps

\* FsUtil::remove_path(): the whole tree; a resource that is gone may be an error.
RemovePath(t) ==
  LET p == Here(t)
      tree == {p} \cup Below(p)
  IN  /\ job[t].at = "remove"
      /\ fs' = [q \in Path |-> IF q \in tree THEN NoFile ELSE fs[q]]
      /\ orphaned' = orphaned \cup {q \in Below(p) : HasProps(q)}
      /\ UNCHANGED props
      /\ \/ Step(t, Goto(t, "forget"))
         \/ ~Exists(p) /\ Step(t, Reply(t, 500))

\* It fails when something is put into the tree, part of which is gone then.
RemoveFails(t) ==
  LET p == Here(t) IN
  /\ job[t].at = "remove"
  /\ fs[p].type = "dir"
  /\ \E gone \in SUBSET Below(p) :
       /\ \A q \in gone : Below(q) \subseteq gone
       /\ fs' = [q \in Path |-> IF q \in gone THEN NoFile ELSE fs[q]]
       /\ orphaned' = orphaned \cup {q \in gone : HasProps(q)}
  /\ UNCHANGED props
  /\ Step(t, Reply(t, 500))

\* Slip: the properties are kept.
Forget_Not(t) == job[t].at = "forget" /\ Quiet(t, Reply(t, 204))

\* deleteProperties(): those of the path itself.
Forget(t) ==
  LET p == Here(t) IN
  /\ job[t].at = "forget"
  /\ props' = [props EXCEPT ![p] = NoProps]
  /\ orphaned' = orphaned \ {p}
  /\ UNCHANGED fs
  /\ Step(t, Reply(t, 204))

Mkcol(t) ==
  LET p == Here(t) IN
  /\ job[t].at = "MKCOL"
  /\ Quiet(t, IF Req(t).body # "none" THEN Reply(t, 415)
              ELSE IF fs[p].type = "dir" THEN Reply(t, 405)
              ELSE IF ~ParentExists(p) THEN Reply(t, 409)
              ELSE Goto(t, "mkdir"))

\* Slip: a file in the way is replaced.
MakeDir_Replace(t) ==
  /\ job[t].at = "mkdir"
  /\ fs' = [fs EXCEPT ![Here(t)] = Directory]
  /\ UNCHANGED <<props, orphaned>>
  /\ Step(t, Reply(t, IF Exists(Here(t)) THEN 405 ELSE 201))

\* Dir::create(): with every missing directory above, or an exception.
MakeDir(t) ==
  LET way == {Here(t)} \cup Above[Here(t)] IN
  /\ job[t].at = "mkdir"
  /\ \/ /\ \A q \in way : fs[q].type # "file"
        /\ fs' = [q \in Path |-> IF q \in way THEN Directory ELSE fs[q]]
        /\ UNCHANGED <<props, orphaned>>
        /\ Step(t, Reply(t, 201))
     \/ (Exists(Here(t)) \/ ~ParentExists(Here(t))) /\ Quiet(t, Reply(t, 500))

-----------------------------------------------------------------------------
(* PROPPATCH *)

\* Slip: the updates are not verified together.
Refused_Never(actions) == FALSE

\* verifyPropertyUpdates(): one update in the namespace "DAV:" fails them all.
Refused(actions) == \E i \in 1..Len(actions) : actions[i].prop \in DavProp

Proppatch(t) ==
  /\ job[t].at = "PROPPATCH"
  /\ Quiet(t, IF Req(t).body = "bad" THEN Reply(t, 400)
              ELSE IF ~Exists(Here(t)) THEN Reply(t, 404)
              ELSE IF Refused(Req(t).actions) THEN Reply(t, 207)
              ELSE Goto(t, "patch"))

\* The lock is taken for each update; the resource may be gone by now.
PatchOne(t) ==
  LET p == Here(t)
      a == Req(t).actions[job[t].k + 1]
  IN  /\ job[t].at = "patch"
      /\ job[t].k < Len(Req(t).actions)
      /\ props' = [props EXCEPT ![p][a.prop] = a.val]
      /\ orphaned' = IF Exists(p) THEN orphaned ELSE orphaned \cup {p}
      /\ UNCHANGED fs
      /\ Step(t, [job[t] EXCEPT !.k = @ + 1])

Patched(t) ==
  /\ job[t].at = "patch" /\ job[t].k = Len(Req(t).actions)
  /\ Quiet(t, Reply(t, 207))

-----------------------------------------------------------------------------
WebDavInit ==
  /\ fs = InitFs
  /\ props = [p \in Path |-> NoProps]
  /\ job = [t \in Thread |-> Idle]
  /\ orphaned = {}

WebDavNext ==
  \E t \in Thread :
    \/ \E r \in Request : Receive(t, r)
    \/ Refuse(t) \/ CopyMove(t) \/ Look(t) \/ Read(t)
    \/ Put(t) \/ Open(t) \/ Write(t) \/ UploadFails(t) \/ Tag(t)
    \/ Delete(t) \/ RemovePath(t) \/ RemoveFails(t) \/ Forget(t)
    \/ Mkcol(t) \/ MakeDir(t)
    \/ Proppatch(t) \/ PatchOne(t) \/ Patched(t)

WebDavSpec == WebDavInit /\ [][WebDavNext]_wvars

-----------------------------------------------------------------------------
(* Properties *)

\* Types; only files hold data, and no request does more than it was asked for.
WebDavTypeOK ==
  /\ fs \in [Path -> Resource]
  /\ \A p \in Path : fs[p].type \in {"none", "dir"} => fs[p].data = <<>>
  /\ props \in [Path -> [Prop -> Val \cup {None}]]
  /\ job \in [Thread -> Job]
  /\ \A t \in Thread : job[t].at # "idle" =>
       job[t].k <= Len(Req(t).data) + Len(Req(t).actions)
  /\ orphaned \subseteq Path

Done(t) == job[t].at = "done"

\* The upload failed when its file was open: the old content is gone, and the
\* file holds a leading part of the body, less than the whole.
CutShort(t) ==
  /\ Req(t).method = "PUT"
  /\ job[t].alone =>
       \E k \in 0..(Len(Req(t).data) - 1) : fs[Here(t)] = File(SubSeq(Req(t).data, 1, k))

\* A request that is refused with a 4xx status has changed nothing, neither the
\* resource nor properties; an upload that was cut short is the one exception,
\* and not even that leaves anything in the file but the start of its body.
RefusalChangesNothing ==
  \A t \in Thread : Done(t) /\ job[t].changed /\ job[t].code \in 400..499 => CutShort(t)

\* An upload that is answered with 201 has stored its body, unless another
\* request changed the file meanwhile.
UploadStored ==
  \A t \in Thread : Done(t) /\ Req(t).method = "PUT" /\ job[t].code = 201 /\ job[t].alone =>
    fs[Here(t)] = File(Req(t).data)

\* What DELETE answered 204 for is gone and its properties with it, unless another
\* request brought them back.
DeletedIsGone ==
  \A t \in Thread : Done(t) /\ Req(t).method = "DELETE" /\ job[t].code = 204 /\ job[t].alone =>
    ~Exists(Here(t)) /\ ~HasProps(Here(t))

\* Properties outlive their resource in two cases only: it was removed with its
\* collection, or while a PROPPATCH of it was under way.  Otherwise the DELETE
\* that removed it is about to delete them.
NoOrphanProps ==
  \A p \in Path : HasProps(p) /\ ~Exists(p) =>
    p \in orphaned \/ \E t \in Thread : job[t].at = "forget" /\ Here(t) = p

\* PROPPATCH is all or nothing: no property in the namespace "DAV:" is ever set,
\* and when one is asked for, the others are not set either.
PatchAllOrNothing ==
  \A t \in Thread : Done(t) /\ Req(t).method = "PROPPATCH" /\ job[t].code = 207 =>
    /\ job[t].k \in {0, Len(Req(t).actions)}
    /\ (\E a \in ToSet(Req(t).actions) : a.prop \in DavProp) => ~job[t].changed

\* "in a single atomic action": properties that every PROPPATCH sets together to
\* one value are equal when no request is being handled.
Twins(x, y) ==
  \A r \in Request : \A v \in Val \cup {None} :
    [prop |-> x, val |-> v] \in ToSet(r.actions) <=> [prop |-> y, val |-> v] \in ToSet(r.actions)

PatchAtomic ==
  (\A t \in Thread : job[t].at \in {"idle", "done"}) =>
    \A p \in Path, x, y \in Prop : Twins(x, y) => props[p][x] = props[p][y]
=============================================================================
