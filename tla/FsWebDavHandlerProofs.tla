----------------------- MODULE FsWebDavHandlerProofs -----------------------
(***************************************************************************)
(* Proofs about FsWebDavHandler, for any number of connections, any tree   *)
(* of paths and any requests, however their accesses interleave.           *)
(*                                                                         *)
(* The argument: what a request knows of its resource at a stage (JobInv)  *)
(* speaks only of what it read while alone, so the steps of the others,    *)
(* which take "alone" away when they change the resource, preserve it;     *)
(* what remains is one step of one request.                                *)
(***************************************************************************)
EXTENDS FsWebDavHandler, SequenceTheorems, TLAPS

-----------------------------------------------------------------------------
(* The inductive invariant *)

Typed ==
  /\ fs \in [Path -> Resource]
  /\ \A p \in Path : fs[p].type \in {"none", "dir"} => fs[p].data = <<>>
  /\ props \in [Path -> [Prop -> Val \cup {None}]]
  /\ job \in [Thread -> Job]
  /\ orphaned \subseteq Path

\* Each stage belongs to a method, and nothing was changed before the last ones.
Staged(t) ==
  LET j == job[t]
      r == Req(t)
  IN  /\ j.at # "idle" => r \in Request
      /\ j.at \in Method => r.method = j.at
      /\ j.at = "read" => r.method \in {"GET", "PROPFIND"}
      /\ j.at \in {"open", "write"} => r.method = "PUT"
      /\ j.at \in {"remove", "forget"} => r.method = "DELETE"
      /\ j.at = "mkdir" => r.method = "MKCOL"
      /\ j.at = "patch" => r.method = "PROPPATCH" /\ ~Refused(r.actions) /\ j.k <= Len(r.actions)
      /\ j.at \notin {"write", "patch", "done"} => j.k = 0
      /\ j.at \notin {"write", "forget", "patch", "done"} => ~j.changed

\* An upload that is alone has its first k blocks in the file it has open.
Uploading(t) ==
  LET r == Req(t) IN
  job[t].at = "write" =>
    /\ job[t].k <= Len(r.data)
    /\ ~r.chunked => job[t].k \in {0, Len(r.data)}
    /\ job[t].linked => fs[Here(t)].type = "file"
    /\ job[t].alone => job[t].linked /\ fs[Here(t)] = File(SubSeq(r.data, 1, job[t].k))

Deleting(t) == job[t].at = "forget" /\ job[t].alone => ~Exists(Here(t))

\* A file that holds the start of the body, and not the whole.
Leading(r, file) == \E k \in 0..(Len(r.data) - 1) : file = File(SubSeq(r.data, 1, k))

\* What the answers promise.
Answered(t) ==
  LET j == job[t]
      r == Req(t)
  IN  Done(t) =>
        /\ j.k <= Len(r.data) + Len(r.actions)
        /\ j.changed /\ j.code \in 400..499 =>
             r.method = "PUT" /\ (j.alone => Leading(r, fs[r.path]))
        /\ r.method = "PUT" /\ j.code = 201 /\ j.alone => fs[r.path] = File(r.data)
        /\ r.method = "DELETE" /\ j.code = 204 /\ j.alone => ~Exists(r.path) /\ ~HasProps(r.path)
        /\ r.method = "PROPPATCH" /\ j.code = 207 =>
             j.k \in {0, Len(r.actions)} /\ (Refused(r.actions) => ~j.changed)

JobInv(t) == Staged(t) /\ Uploading(t) /\ Deleting(t) /\ Answered(t)

WebDavInv == Typed /\ (\A t \in Thread : JobInv(t)) /\ NoOrphanProps

-----------------------------------------------------------------------------
(* Requests, files and jobs *)

LEMMA RequestFacts ==
  ASSUME NEW r \in Request
  PROVE  /\ r.path \in Path /\ r.method \in Method /\ r.chunked \in BOOLEAN
         /\ r.data \in Seq(Block) /\ Len(r.data) \in Nat
         /\ r.actions \in Seq([prop: Prop, val: Val \cup {None}]) /\ Len(r.actions) \in Nat
<1>1. r \in RequestType
  BY WebDavAssumption
<1> QED
  BY <1>1 DEF RequestType

LEMMA FileFacts ==
  ASSUME NEW d \in Seq(Block)
  PROVE  File(d) \in Resource /\ File(d).type = "file" /\ File(d).data = d
BY DEF File, Resource

LEMMA OtherResources ==
  /\ NoFile \in Resource /\ NoFile.type = "none" /\ NoFile.data = <<>>
  /\ Directory \in Resource /\ Directory.type = "dir" /\ Directory.data = <<>>
BY DEF NoFile, Directory, Resource

\* What is written behind the first blocks continues them.
LEMMA WrittenAppends ==
  ASSUME NEW d \in Seq(Block), NEW k \in Nat, NEW n \in Nat, k + n <= Len(d)
  PROVE  Written(SubSeq(d, 1, k), k, SubSeq(d, k + 1, k + n)) = SubSeq(d, 1, k + n)
<1> DEFINE old == SubSeq(d, 1, k)
           new == SubSeq(d, k + 1, k + n)
           all == SubSeq(d, 1, k + n)
<1>1. \A i \in 1..Len(d) : d[i] \in Block
  OBVIOUS
<1>2. Len(d) \in Nat
  OBVIOUS
<1>3. old \in Seq(Block) /\ Len(old) = k /\ \A i \in 1..k : old[i] = d[i]
  <2>1. \A i \in 1..k : d[i] \in Block
    BY <1>1, <1>2
  <2> QED
    BY <1>2, <2>1, SubSeqProperties
<1>4. new \in Seq(Block) /\ Len(new) = n /\ \A i \in 1..n : new[i] = d[k + i]
  <2>1. \A i \in (k + 1)..(k + n) : d[i] \in Block
    BY <1>1, <1>2
  <2> QED
    BY <1>2, <2>1, SubSeqProperties
<1>5. all \in Seq(Block) /\ Len(all) = k + n /\ \A i \in 1..(k + n) : all[i] = d[i]
  <2>1. \A i \in 1..(k + n) : d[i] \in Block
    BY <1>1, <1>2
  <2> QED
    BY <1>2, <2>1, SubSeqProperties
<1> HIDE DEF old, new, all
<1>6. Written(old, k, new) =
        [i \in 1..(k + n) |-> IF i \in (k + 1)..(k + n) THEN new[i - k]
                              ELSE IF i <= k THEN old[i] ELSE "hole"]
  BY <1>3, <1>4 DEF Written
<1>7. \A i \in 1..(k + n) : Written(old, k, new)[i] = all[i]
  <2> SUFFICES ASSUME NEW i \in 1..(k + n)
               PROVE  Written(old, k, new)[i] = all[i]
    OBVIOUS
  <2>1. CASE i <= k
    BY <1>3, <1>5, <1>6, <2>1
  <2>2. CASE i > k
    <3>1. i - k \in 1..n /\ k + (i - k) = i
      BY <2>2
    <3>2. new[i - k] = d[k + (i - k)]
      BY <1>4, <3>1
    <3>3. i \in (k + 1)..(k + n)
      BY <2>2
    <3>4. Written(old, k, new)[i] = new[i - k]
      BY <1>6, <3>3
    <3> QED
      BY <1>5, <3>1, <3>2, <3>4
  <2> QED
    BY <2>1, <2>2
<1>8. all = [i \in 1..(k + n) |-> all[i]]
  BY <1>5
<1>9. Written(old, k, new) = all
  BY <1>6, <1>7, <1>8
<1> QED
  BY <1>9 DEF old, new, all

\* Whatever is written where, the file holds a sequence of blocks.
LEMMA WrittenTyped ==
  ASSUME NEW old \in Seq(Block), NEW offset \in Nat, NEW new \in Seq(Block)
  PROVE  Written(old, offset, new) \in Seq(Block)
<1> DEFINE n == IF Len(old) > offset + Len(new) THEN Len(old) ELSE offset + Len(new)
           f == [i \in 1..n |->
                   IF i \in (offset + 1)..(offset + Len(new)) THEN new[i - offset]
                   ELSE IF i <= Len(old) THEN old[i] ELSE "hole"]
<1>1. n \in Nat
  OBVIOUS
<1>2. \A i \in 1..n : (IF i \in (offset + 1)..(offset + Len(new)) THEN new[i - offset]
                       ELSE IF i <= Len(old) THEN old[i] ELSE "hole") \in Block
  <2> SUFFICES ASSUME NEW i \in 1..n
               PROVE  (IF i \in (offset + 1)..(offset + Len(new)) THEN new[i - offset]
                       ELSE IF i <= Len(old) THEN old[i] ELSE "hole") \in Block
    OBVIOUS
  <2>1. i \in (offset + 1)..(offset + Len(new)) => new[i - offset] \in Block
    <3> SUFFICES ASSUME i \in (offset + 1)..(offset + Len(new))
                 PROVE  new[i - offset] \in Block
      OBVIOUS
    <3>1. i - offset \in 1..Len(new)
      OBVIOUS
    <3> QED
      BY <3>1
  <2>2. i <= Len(old) => old[i] \in Block
    <3> SUFFICES ASSUME i <= Len(old)
                 PROVE  old[i] \in Block
      OBVIOUS
    <3>1. i \in 1..Len(old)
      BY <1>1
    <3> QED
      BY <3>1
  <2>3. "hole" \in Block
    BY WebDavAssumption
  <2> QED
    BY <2>1, <2>2, <2>3, Zenon
<1>3. f \in [1..n -> Block]
  BY <1>2
<1>4. f \in Seq(Block)
  BY <1>1, <1>3
<1> QED
  BY <1>4 DEF Written

LEMMA JobFields ==
  ASSUME NEW j \in Job
  PROVE  /\ j.at \in Stage /\ j.req \in Request \cup {None} /\ j.k \in Nat /\ j.code \in Nat
         /\ j.linked \in BOOLEAN /\ j.alone \in BOOLEAN /\ j.changed \in BOOLEAN
BY DEF Job

LEMMA SetChanged ==
  ASSUME NEW j \in Job, NEW b \in BOOLEAN, NEW n, n = [j EXCEPT !.changed = b]
  PROVE  /\ n \in Job /\ n.at = j.at /\ n.req = j.req /\ n.k = j.k /\ n.code = j.code
         /\ n.linked = j.linked /\ n.alone = j.alone /\ n.changed = b
BY DEF Job

\* What a step of t does to the jobs.
LEMMA StepFacts ==
  ASSUME Typed, NEW t \in Thread, NEW j \in Job, Step(t, j)
  PROVE  /\ job' \in [Thread -> Job]
         /\ /\ job'[t].at = j.at /\ job'[t].req = j.req /\ job'[t].k = j.k
            /\ job'[t].code = j.code /\ job'[t].linked = j.linked /\ job'[t].alone = j.alone
            /\ job'[t].changed <=> (j.changed \/ fs' # fs \/ props' # props)
         /\ \A u \in Thread \ {t} :
              /\ job'[u].at = job[u].at /\ job'[u].req = job[u].req /\ job'[u].k = job[u].k
              /\ job'[u].code = job[u].code /\ job'[u].changed = job[u].changed
              /\ job[u].at # "idle" =>
                   /\ job'[u].linked <=> (job[u].linked /\ fs'[Here(u)].type = "file")
                   /\ job'[u].alone <=> (job[u].alone /\ fs'[Here(u)] = fs[Here(u)]
                                           /\ props'[Here(u)] = props[Here(u)])
<1>1. job' = [u \in Thread |->
        IF u = t THEN [j EXCEPT !.changed = j.changed \/ fs' # fs \/ props' # props]
        ELSE IF job[u].at = "idle" THEN job[u]
        ELSE [job[u] EXCEPT !.linked = job[u].linked /\ fs'[Here(u)].type = "file",
                            !.alone = job[u].alone /\ fs'[Here(u)] = fs[Here(u)]
                                        /\ props'[Here(u)] = props[Here(u)]]]
  BY DEF Step
<1>2. /\ job'[t] \in Job
      /\ job'[t].at = j.at /\ job'[t].req = j.req /\ job'[t].k = j.k
      /\ job'[t].code = j.code /\ job'[t].linked = j.linked /\ job'[t].alone = j.alone
      /\ job'[t].changed <=> (j.changed \/ fs' # fs \/ props' # props)
  <2>1. PICK b \in BOOLEAN : b = (j.changed \/ fs' # fs \/ props' # props)
    BY JobFields
  <2>2. job'[t] = [j EXCEPT !.changed = b]
    BY <1>1, <2>1, Zenon
  <2>3. /\ job'[t] \in Job
        /\ job'[t].at = j.at /\ job'[t].req = j.req /\ job'[t].k = j.k
        /\ job'[t].code = j.code /\ job'[t].linked = j.linked /\ job'[t].alone = j.alone
        /\ job'[t].changed = b
    BY <2>2, SetChanged
  <2> QED
    BY <2>1, <2>3
<1>3. ASSUME NEW u \in Thread \ {t}
      PROVE  /\ job'[u] \in Job
             /\ job'[u].at = job[u].at /\ job'[u].req = job[u].req /\ job'[u].k = job[u].k
             /\ job'[u].code = job[u].code /\ job'[u].changed = job[u].changed
             /\ job[u].at # "idle" =>
                  /\ job'[u].linked <=> (job[u].linked /\ fs'[Here(u)].type = "file")
                  /\ job'[u].alone <=> (job[u].alone /\ fs'[Here(u)] = fs[Here(u)]
                                          /\ props'[Here(u)] = props[Here(u)])
  <2>1. job[u] \in Job
    BY DEF Typed
  <2>2. CASE job[u].at = "idle"
    <3>1. job'[u] = job[u]
      BY <1>1, <2>2, Zenon
    <3> QED
      BY <2>1, <2>2, <3>1
  <2>3. CASE job[u].at # "idle"
    <3>1. PICK a \in BOOLEAN : a = (job[u].linked /\ fs'[Here(u)].type = "file")
      BY <2>1, JobFields
    <3>2. PICK b \in BOOLEAN : b = (job[u].alone /\ fs'[Here(u)] = fs[Here(u)]
                                      /\ props'[Here(u)] = props[Here(u)])
      BY <2>1, JobFields
    <3>3. job'[u] = [job[u] EXCEPT !.linked = a, !.alone = b]
      BY <1>1, <2>3, <3>1, <3>2, Zenon
    <3>4. /\ job'[u] \in Job
          /\ job'[u].at = job[u].at /\ job'[u].req = job[u].req /\ job'[u].k = job[u].k
          /\ job'[u].code = job[u].code /\ job'[u].changed = job[u].changed
          /\ job'[u].linked = a /\ job'[u].alone = b
      BY <2>1, <3>3 DEF Job
    <3> QED
      BY <3>1, <3>2, <3>4
  <2> QED
    BY <2>2, <2>3
<1>4. job' \in [Thread -> Job]
  <2>1. \A u \in Thread : job'[u] \in Job
    BY <1>2, <1>3
  <2> QED
    BY <1>1, <2>1, Zenon
<1> QED
  BY <1>2, <1>3, <1>4
-----------------------------------------------------------------------------
(* One step *)

\* A job that goes on untouched keeps what it knows, if it notes what happens to
\* its resource.
LEMMA JobGoesOn ==
  ASSUME NEW u \in Thread, JobInv(u),
         job'[u].at = job[u].at /\ job'[u].req = job[u].req /\ job'[u].k = job[u].k
           /\ job'[u].code = job[u].code /\ job'[u].changed = job[u].changed,
         job[u].at = "write" =>
           (job'[u].linked <=> (job[u].linked /\ fs'[Here(u)].type = "file")),
         job[u].at # "idle" =>
           (job'[u].alone <=> (job[u].alone /\ fs'[Here(u)] = fs[Here(u)]
                                 /\ props'[Here(u)] = props[Here(u)]))
  PROVE  JobInv(u)'
<1>1. Here(u)' = Here(u) /\ Req(u)' = Req(u)
  BY DEF Here, Req
<1>2. Staged(u)'
  BY <1>1 DEF JobInv, Staged
<1>3. Uploading(u)'
  BY <1>1 DEF JobInv, Uploading
<1>4. Deleting(u)'
  BY <1>1 DEF JobInv, Deleting, Exists
<1>5. Answered(u)'
  <2> SUFFICES ASSUME Done(u)
               PROVE  Answered(u)'
    BY DEF Answered, Done
  <2> DEFINE r == Req(u)
  <2>1. job'[u].alone =>
          job[u].alone /\ fs'[r.path] = fs[r.path] /\ props'[r.path] = props[r.path]
    BY DEF Done, Here
  <2>2. /\ job[u].k <= Len(r.data) + Len(r.actions)
        /\ job[u].changed /\ job[u].code \in 400..499 =>
             r.method = "PUT" /\ (job'[u].alone => Leading(r, fs'[r.path]))
        /\ r.method = "PROPPATCH" /\ job[u].code = 207 =>
             job[u].k \in {0, Len(r.actions)} /\ (Refused(r.actions) => ~job[u].changed)
    BY <2>1 DEF JobInv, Answered, Leading
  <2>3. r.method = "PUT" /\ job[u].code = 201 /\ job'[u].alone => fs'[r.path] = File(r.data)
    BY <2>1 DEF JobInv, Answered
  <2>4. r.method = "DELETE" /\ job[u].code = 204 /\ job'[u].alone =>
          fs'[r.path].type = "none" /\ props'[r.path] = NoProps
    BY <2>1 DEF JobInv, Answered, Exists, HasProps
  <2> HIDE DEF r
  <2>5. Req(u)' = r
    BY <1>1 DEF r
  <2> QED
    BY <2>2, <2>3, <2>4, <2>5 DEF Answered, Exists, HasProps, Leading
<1> QED
  BY <1>2, <1>3, <1>4, <1>5 DEF JobInv

\* The steps of the others take nothing from what a request knows.
LEMMA OthersGoOn ==
  ASSUME Typed, NEW t \in Thread, NEW j \in Job, Step(t, j),
         NEW u \in Thread \ {t}, JobInv(u)
  PROVE  JobInv(u)'
BY StepFacts, JobGoesOn

\* So a step keeps the invariant when it does for its own request, and leaves no
\* properties behind but those that are noted, or that it is about to delete.
LEMMA StepKeeps ==
  ASSUME WebDavInv, NEW t \in Thread, NEW j \in Job, Step(t, j), j.req = Req(t),
         fs' \in [Path -> Resource],
         \A p \in Path : fs'[p].type \in {"none", "dir"} => fs'[p].data = <<>>,
         props' \in [Path -> [Prop -> Val \cup {None}]],
         orphaned' \subseteq Path,
         JobInv(t)',
         \A p \in Path : props'[p] # NoProps /\ fs'[p].type = "none" =>
           \/ p \in orphaned'
           \/ j.at = "forget" /\ p = Here(t)
           \/ /\ props[p] # NoProps /\ fs[p].type = "none"
              /\ p \in orphaned => p \in orphaned'
              /\ job[t].at = "forget" => p # Here(t)
  PROVE  WebDavInv'
<1>1. Typed
  BY DEF WebDavInv
<1>2. Typed'
  BY <1>1, StepFacts DEF Typed
<1>3. ASSUME NEW u \in Thread
      PROVE  JobInv(u)'
  <2>1. CASE u = t
    BY <2>1
  <2>2. CASE u # t
    BY <1>1, <2>2, OthersGoOn DEF WebDavInv
  <2> QED
    BY <2>1, <2>2
<1>4. NoOrphanProps'
  <2> SUFFICES ASSUME NEW p \in Path, props'[p] # NoProps, fs'[p].type = "none", p \notin orphaned'
               PROVE  \E u \in Thread : job'[u].at = "forget" /\ job'[u].req.path = p
    BY DEF NoOrphanProps, HasProps, Exists, Here, Req
  <2>1. CASE j.at = "forget" /\ p = Here(t)
    <3>1. job'[t].at = "forget" /\ job'[t].req.path = p
      BY <1>1, <2>1, StepFacts DEF Here, Req
    <3> QED
      BY <3>1
  <2>2. CASE /\ props[p] # NoProps /\ fs[p].type = "none" /\ p \notin orphaned
             /\ job[t].at = "forget" => p # Here(t)
    <3>1. PICK u \in Thread : job[u].at = "forget" /\ Here(u) = p
      BY <2>2 DEF WebDavInv, NoOrphanProps, HasProps, Exists
    <3>2. u # t
      BY <2>2, <3>1
    <3>3. job'[u].at = "forget" /\ job'[u].req.path = p
      BY <1>1, <3>1, <3>2, StepFacts DEF Here, Req
    <3> QED
      BY <3>3
  <2> QED
    BY <2>1, <2>2
<1> QED
  BY <1>2, <1>3, <1>4 DEF WebDavInv

\* What a job is changed to.
LEMMA ReplyFacts ==
  ASSUME Typed, NEW t \in Thread, NEW code \in Nat
  PROVE  LET j == Reply(t, code)
         IN  /\ j \in Job /\ j.at = "done" /\ j.code = code /\ j.req = Req(t)
             /\ j.k = job[t].k /\ j.linked = job[t].linked /\ j.alone = job[t].alone
             /\ j.changed = job[t].changed
<1>1. job[t] \in Job
  BY DEF Typed
<1> QED
  BY <1>1 DEF Reply, Job, Stage, Req

LEMMA GotoFacts ==
  ASSUME Typed, NEW t \in Thread, NEW label \in Stage
  PROVE  LET j == Goto(t, label)
         IN  /\ j \in Job /\ j.at = label /\ j.code = job[t].code /\ j.req = Req(t)
             /\ j.k = job[t].k /\ j.linked = job[t].linked /\ j.alone = job[t].alone
             /\ j.changed = job[t].changed
<1>1. job[t] \in Job
  BY DEF Typed
<1> QED
  BY <1>1 DEF Goto, Job, Req

\* A request in a stage has a path and counts its blocks and updates.
LEMMA Underway ==
  ASSUME WebDavInv, NEW t \in Thread, job[t].at # "idle"
  PROVE  /\ Typed /\ JobInv(t) /\ Req(t) \in Request /\ Here(t) \in Path /\ Here(t) = Req(t).path
         /\ Len(Req(t).data) \in Nat /\ Len(Req(t).actions) \in Nat
         /\ job[t] \in Job /\ job[t].k \in Nat
<1>1. Typed /\ JobInv(t)
  BY DEF WebDavInv
<1>2. Req(t) \in Request
  BY <1>1 DEF JobInv, Staged
<1>3. job[t] \in Job
  BY <1>1 DEF Typed
<1> QED
  BY <1>1, <1>2, <1>3, RequestFacts, JobFields DEF Here

LEMMA WithinBoth ==
  ASSUME NEW k \in Nat, NEW m \in Nat, NEW n \in Nat, k <= m \/ k <= n
  PROVE  k <= m + n
OBVIOUS

\* No request does more than it was asked for.
LEMMA JobCounts ==
  ASSUME WebDavInv, NEW t \in Thread, job[t].at # "idle"
  PROVE  job[t].k <= Len(Req(t).data) + Len(Req(t).actions)
<1>1. /\ JobInv(t) /\ Len(Req(t).data) \in Nat /\ Len(Req(t).actions) \in Nat
      /\ job[t].k \in Nat
  BY Underway
<1>2. CASE job[t].at = "done"
  BY <1>1, <1>2 DEF JobInv, Answered, Done
<1>3. CASE job[t].at # "done"
  <2>1. job[t].at = "write" => job[t].k <= Len(Req(t).data)
    BY <1>1 DEF JobInv, Uploading
  <2>2. job[t].at = "patch" => job[t].k <= Len(Req(t).actions)
    BY <1>1 DEF JobInv, Staged
  <2>3. job[t].at \notin {"write", "patch"} => job[t].k = 0
    BY <1>1, <1>3 DEF JobInv, Staged
  <2>4. job[t].k = 0 => job[t].k <= Len(Req(t).data)
    BY <1>1
  <2>5. job[t].k <= Len(Req(t).data) \/ job[t].k <= Len(Req(t).actions)
    BY <2>1, <2>2, <2>3, <2>4
  <2> QED
    BY <1>1, <2>5, WithinBoth
<1> QED
  BY <1>2, <1>3

\* An answer keeps its promises when it is given with a reason.
LEMMA ReplyKeeps ==
  ASSUME WebDavInv, NEW t \in Thread, NEW code \in Nat, Step(t, Reply(t, code)),
         job[t].at \notin {"idle", "done"},
         code \in 400..499 =>
           \/ ~job[t].changed /\ fs' = fs /\ props' = props
           \/ Req(t).method = "PUT" /\ (job[t].alone => Leading(Req(t), fs'[Here(t)])),
         Req(t).method = "PUT" /\ code = 201 /\ job[t].alone => fs'[Here(t)] = File(Req(t).data),
         Req(t).method = "DELETE" /\ code = 204 /\ job[t].alone =>
           fs'[Here(t)].type = "none" /\ props'[Here(t)] = NoProps,
         Req(t).method = "PROPPATCH" /\ code = 207 =>
           /\ job[t].k \in {0, Len(Req(t).actions)}
           /\ Refused(Req(t).actions) => ~job[t].changed /\ fs' = fs /\ props' = props
  PROVE  JobInv(t)' /\ Reply(t, code) \in Job /\ Reply(t, code).req = Req(t)
<1>1. /\ Typed /\ JobInv(t) /\ Req(t) \in Request /\ Here(t) = Req(t).path
      /\ Len(Req(t).data) \in Nat /\ Len(Req(t).actions) \in Nat /\ job[t].k \in Nat
  BY Underway
<1> DEFINE j == Reply(t, code)
<1>2. /\ j \in Job /\ j.at = "done" /\ j.code = code /\ j.req = Req(t)
      /\ j.k = job[t].k /\ j.linked = job[t].linked /\ j.alone = job[t].alone
      /\ j.changed = job[t].changed
  BY <1>1, ReplyFacts
<1>3. /\ job'[t].at = "done" /\ job'[t].code = code /\ job'[t].req = Req(t)
      /\ job'[t].k = job[t].k /\ job'[t].alone = job[t].alone
      /\ job'[t].changed <=> (job[t].changed \/ fs' # fs \/ props' # props)
  BY <1>1, <1>2, StepFacts
<1>4. job[t].k <= Len(Req(t).data) + Len(Req(t).actions)
  BY JobCounts
<1>5. Req(t)' = Req(t)
  BY <1>3 DEF Req
<1>6. Staged(t)'
  BY <1>1, <1>3, <1>5 DEF Staged, Method
<1>7. Uploading(t)' /\ Deleting(t)'
  BY <1>3 DEF Uploading, Deleting
<1>8. Answered(t)'
  <2> DEFINE r == Req(t)
  <2>1. job'[t].changed /\ job'[t].code \in 400..499 =>
          r.method = "PUT" /\ (job'[t].alone => Leading(r, fs'[r.path]))
    BY <1>1, <1>3
  <2>2. r.method = "PUT" /\ job'[t].code = 201 /\ job'[t].alone => fs'[r.path] = File(r.data)
    BY <1>1, <1>3
  <2>3. r.method = "DELETE" /\ job'[t].code = 204 /\ job'[t].alone =>
          fs'[r.path].type = "none" /\ props'[r.path] = NoProps
    BY <1>1, <1>3
  <2>4. r.method = "PROPPATCH" /\ job'[t].code = 207 =>
          job'[t].k \in {0, Len(r.actions)} /\ (Refused(r.actions) => ~job'[t].changed)
    BY <1>3
  <2>5. job'[t].k <= Len(r.data) + Len(r.actions)
    BY <1>3, <1>4
  <2> HIDE DEF r
  <2>6. Req(t)' = r
    BY <1>5 DEF r
  <2> QED
    BY <2>1, <2>2, <2>3, <2>4, <2>5, <2>6 DEF Answered, Exists, HasProps, Leading
<1> QED
  BY <1>2, <1>6, <1>7, <1>8 DEF JobInv

\* A handler that goes on to its next stage has changed nothing yet.
LEMMA GotoKeeps ==
  ASSUME WebDavInv, NEW t \in Thread, NEW label, Step(t, Goto(t, label)),
         fs' = fs, props' = props, job[t].at \in Method,
         \/ label = "read" /\ Req(t).method \in {"GET", "PROPFIND"}
         \/ label = "open" /\ Req(t).method = "PUT"
         \/ label = "remove" /\ Req(t).method = "DELETE"
         \/ label = "mkdir" /\ Req(t).method = "MKCOL"
         \/ label = "patch" /\ Req(t).method = "PROPPATCH" /\ ~Refused(Req(t).actions)
  PROVE  JobInv(t)' /\ Goto(t, label) \in Job /\ Goto(t, label).req = Req(t)
<1>1. job[t].at \notin {"idle", "write", "forget", "patch", "done"}
  BY DEF Method
<1>2. /\ Typed /\ JobInv(t) /\ Req(t) \in Request /\ Len(Req(t).actions) \in Nat
  BY <1>1, Underway
<1>3. label \in {"read", "open", "remove", "mkdir", "patch"} /\ label \in Stage
  BY DEF Stage
<1> DEFINE j == Goto(t, label)
<1>4. /\ j \in Job /\ j.at = label /\ j.req = Req(t)
      /\ j.k = job[t].k /\ j.changed = job[t].changed
  BY <1>2, <1>3, GotoFacts
<1>5. /\ job'[t].at = label /\ job'[t].req = Req(t) /\ job'[t].k = job[t].k
      /\ job'[t].changed <=> job[t].changed
  BY <1>2, <1>4, StepFacts
<1>6. job[t].k = 0 /\ ~job[t].changed
  BY <1>1, <1>2 DEF JobInv, Staged
<1>7. Req(t)' = Req(t)
  BY <1>5 DEF Req
<1>8. Staged(t)'
  BY <1>2, <1>3, <1>5, <1>6, <1>7 DEF Staged, Method
<1>9. Uploading(t)' /\ Deleting(t)' /\ Answered(t)'
  BY <1>3, <1>5 DEF Uploading, Deleting, Answered, Done
<1> QED
  BY <1>4, <1>8, <1>9 DEF JobInv

\* Steps that change no resource, by an answer or to the next stage.
LEMMA QuietKeeps ==
  ASSUME WebDavInv, NEW t \in Thread, NEW j, Quiet(t, j), j \in Job, j.req = Req(t),
         job[t].at # "forget", JobInv(t)'
  PROVE  WebDavInv'
<1>1. /\ Typed
      /\ \A p \in Path : props[p] # NoProps /\ fs[p].type = "none" =>
           p \in orphaned \/ (props[p] # NoProps /\ fs[p].type = "none")
  BY DEF WebDavInv
<1>2. fs' = fs /\ props' = props /\ orphaned' = orphaned /\ Step(t, j)
  BY DEF Quiet
<1> QED
  BY <1>1, <1>2, StepKeeps DEF Typed

\* An answer that changes nothing.
LEMMA QuietReply ==
  ASSUME WebDavInv, NEW t \in Thread, NEW code \in Nat, Quiet(t, Reply(t, code)),
         job[t].at \notin {"idle", "forget", "done"},
         code \in 400..499 => ~job[t].changed,
         Req(t).method = "PUT" /\ code = 201 /\ job[t].alone => fs[Here(t)] = File(Req(t).data),
         code # 204,
         Req(t).method = "PROPPATCH" /\ code = 207 =>
           job[t].k \in {0, Len(Req(t).actions)} /\ (Refused(Req(t).actions) => ~job[t].changed)
  PROVE  WebDavInv'
<1>1. fs' = fs /\ props' = props /\ Step(t, Reply(t, code))
  BY DEF Quiet
<1>2. JobInv(t)' /\ Reply(t, code) \in Job /\ Reply(t, code).req = Req(t)
  BY <1>1, ReplyKeeps
<1> QED
  BY <1>2, QuietKeeps

\* One that is given before the handler has changed anything.
LEMMA EarlyReply ==
  ASSUME WebDavInv, NEW t \in Thread, NEW code \in Nat, Quiet(t, Reply(t, code)),
         job[t].at \notin {"idle", "write", "forget", "patch", "done"}, code \notin {201, 204}
  PROVE  WebDavInv'
<1>1. JobInv(t)
  BY Underway
<1>2. job[t].k = 0 /\ ~job[t].changed
  BY <1>1 DEF JobInv, Staged
<1> QED
  BY <1>2, QuietReply

LEMMA QuietGoto ==
  ASSUME WebDavInv, NEW t \in Thread, NEW label, Quiet(t, Goto(t, label)), job[t].at \in Method,
         \/ label = "read" /\ Req(t).method \in {"GET", "PROPFIND"}
         \/ label = "open" /\ Req(t).method = "PUT"
         \/ label = "remove" /\ Req(t).method = "DELETE"
         \/ label = "mkdir" /\ Req(t).method = "MKCOL"
         \/ label = "patch" /\ Req(t).method = "PROPPATCH" /\ ~Refused(Req(t).actions)
  PROVE  WebDavInv'
<1>1. fs' = fs /\ props' = props /\ Step(t, Goto(t, label)) /\ job[t].at # "forget"
  BY DEF Quiet, Method
<1>2. JobInv(t)' /\ Goto(t, label) \in Job /\ Goto(t, label).req = Req(t)
  BY <1>1, GotoKeeps
<1> QED
  BY <1>1, <1>2, QuietKeeps

-----------------------------------------------------------------------------
(* The actions, those first that change nothing *)

LEMMA ReceiveKeeps ==
  ASSUME WebDavInv, NEW t \in Thread, NEW r \in Request, Receive(t, r)
  PROVE  WebDavInv'
<1> DEFINE j == [Idle EXCEPT !.at = r.method, !.req = r]
<1>1. Typed
  BY DEF WebDavInv
<1>2. fs' = fs /\ props' = props /\ orphaned' = orphaned /\ job' = [job EXCEPT ![t] = j]
  BY DEF Receive
<1>3. r.method \in Method
  BY RequestFacts
<1>4. j \in Job /\ j.at = r.method /\ j.req = r /\ j.k = 0 /\ ~j.changed
  BY <1>3 DEF Idle, Job, Stage
<1> HIDE DEF j
<1>5. job' \in [Thread -> Job] /\ job'[t] = j /\ \A u \in Thread \ {t} : job'[u] = job[u]
  BY <1>1, <1>2, <1>4 DEF Typed
<1>6. Typed'
  BY <1>1, <1>2, <1>5 DEF Typed
<1>7. JobInv(t)'
  <2>1. Staged(t)'
    BY <1>3, <1>4, <1>5 DEF Staged, Req, Method
  <2>2. Uploading(t)' /\ Deleting(t)' /\ Answered(t)'
    BY <1>3, <1>4, <1>5 DEF Uploading, Deleting, Answered, Done, Method
  <2> QED
    BY <2>1, <2>2 DEF JobInv
<1>8. ASSUME NEW u \in Thread \ {t}
      PROVE  JobInv(u)'
  <2>1. JobInv(u)
    BY DEF WebDavInv
  <2>2. job'[u] = job[u]
    BY <1>5
  <2>3. job[u].at = "write" => (job[u].linked => fs[Here(u)].type = "file")
    BY <2>1 DEF JobInv, Uploading
  <2> QED
    BY <1>2, <2>1, <2>2, <2>3, JobGoesOn
<1>9. NoOrphanProps'
  <2>1. job[t].at # "forget"
    BY DEF Receive
  <2>2. ASSUME NEW u \in Thread, job[u].at = "forget"
        PROVE  job'[u] = job[u]
    BY <1>5, <2>1, <2>2
  <2> SUFFICES ASSUME NEW p \in Path, props[p] # NoProps, fs[p].type = "none", p \notin orphaned
               PROVE  \E u \in Thread : job'[u].at = "forget" /\ job'[u].req.path = p
    BY <1>2 DEF NoOrphanProps, HasProps, Exists, Here, Req
  <2>3. PICK u \in Thread : job[u].at = "forget" /\ job[u].req.path = p
    BY DEF WebDavInv, NoOrphanProps, HasProps, Exists, Here, Req
  <2> QED
    BY <2>2, <2>3
<1> QED
  BY <1>6, <1>7, <1>8, <1>9 DEF WebDavInv

LEMMA LooksKeep ==
  ASSUME WebDavInv, NEW t \in Thread, Refuse(t) \/ CopyMove(t) \/ Look(t) \/ Read(t)
  PROVE  WebDavInv'
<1>1. CASE Refuse(t)
  <2>1. PICK code \in {200, 400, 501} : Quiet(t, Reply(t, code))
    BY <1>1 DEF Refuse
  <2>2. job[t].at \in {"OPTIONS", "LOCK", "UNLOCK"}
    BY <1>1 DEF Refuse
  <2> QED
    BY <2>1, <2>2, EarlyReply
<1>2. CASE CopyMove(t)
  BY <1>2, EarlyReply DEF CopyMove
<1>3. CASE Look(t)
  <2>1. job[t].at \in {"GET", "PROPFIND"} /\ job[t].at \in Method
    BY <1>3 DEF Look, Method
  <2>2. Req(t).method \in {"GET", "PROPFIND"}
    BY <2>1, Underway DEF JobInv, Staged
  <2>3. \/ \E code \in {400, 404} : Quiet(t, Reply(t, code))
        \/ Quiet(t, Goto(t, "read"))
    BY <1>3 DEF Look
  <2>4. CASE \E code \in {400, 404} : Quiet(t, Reply(t, code))
    BY <2>1, <2>4, EarlyReply
  <2>5. CASE Quiet(t, Goto(t, "read"))
    BY <2>1, <2>2, <2>5, QuietGoto
  <2> QED
    BY <2>3, <2>4, <2>5
<1>4. CASE Read(t)
  <2>1. PICK code \in {200, 207, 500} : Quiet(t, Reply(t, code))
    BY <1>4 DEF Read
  <2>2. job[t].at = "read"
    BY <1>4 DEF Read
  <2> QED
    BY <2>1, <2>2, EarlyReply
<1> QED
  BY <1>1, <1>2, <1>3, <1>4

\* The first steps of PUT, DELETE, MKCOL and PROPPATCH.
LEMMA ChecksKeep ==
  ASSUME WebDavInv, NEW t \in Thread, Put(t) \/ Delete(t) \/ Mkcol(t) \/ Proppatch(t)
  PROVE  WebDavInv'
<1>1. CASE Put(t)
  <2>1. job[t].at = "PUT" /\ job[t].at \in Method
    BY <1>1 DEF Put, Method
  <2>2. Req(t).method = "PUT"
    BY <2>1, Underway DEF JobInv, Staged
  <2>3. Quiet(t, Goto(t, "open")) \/ Quiet(t, Reply(t, 409))
    BY <1>1 DEF Put
  <2> QED
    BY <2>1, <2>2, <2>3, QuietGoto, EarlyReply
<1>2. CASE Delete(t)
  <2>1. job[t].at = "DELETE" /\ job[t].at \in Method
    BY <1>2 DEF Delete, Method
  <2>2. Req(t).method = "DELETE"
    BY <2>1, Underway DEF JobInv, Staged
  <2>3. Quiet(t, Goto(t, "remove")) \/ Quiet(t, Reply(t, 404))
    BY <1>2 DEF Delete
  <2> QED
    BY <2>1, <2>2, <2>3, QuietGoto, EarlyReply
<1>3. CASE Mkcol(t)
  <2>1. job[t].at = "MKCOL" /\ job[t].at \in Method
    BY <1>3 DEF Mkcol, Method
  <2>2. Req(t).method = "MKCOL"
    BY <2>1, Underway DEF JobInv, Staged
  <2>3. Quiet(t, Goto(t, "mkdir")) \/ \E code \in {405, 409, 415} : Quiet(t, Reply(t, code))
    BY <1>3 DEF Mkcol
  <2>4. CASE Quiet(t, Goto(t, "mkdir"))
    BY <2>1, <2>2, <2>4, QuietGoto
  <2>5. CASE \E code \in {405, 409, 415} : Quiet(t, Reply(t, code))
    BY <2>1, <2>5, EarlyReply
  <2> QED
    BY <2>3, <2>4, <2>5
<1>4. CASE Proppatch(t)
  <2>1. job[t].at = "PROPPATCH" /\ job[t].at \in Method
    BY <1>4 DEF Proppatch, Method
  <2>2. Req(t).method = "PROPPATCH"
    BY <2>1, Underway DEF JobInv, Staged
  <2>3. \/ ~Refused(Req(t).actions) /\ Quiet(t, Goto(t, "patch"))
        \/ \E code \in {207, 400, 404} : Quiet(t, Reply(t, code))
    BY <1>4 DEF Proppatch
  <2>4. CASE ~Refused(Req(t).actions) /\ Quiet(t, Goto(t, "patch"))
    BY <2>1, <2>2, <2>4, QuietGoto
  <2>5. CASE \E code \in {207, 400, 404} : Quiet(t, Reply(t, code))
    BY <2>1, <2>5, EarlyReply
  <2> QED
    BY <2>3, <2>4, <2>5
<1> QED
  BY <1>1, <1>2, <1>3, <1>4

LEMMA SubSeqEnds ==
  ASSUME NEW d \in Seq(Block)
  PROVE  SubSeq(d, 1, 0) = <<>> /\ SubSeq(d, 1, Len(d)) = d
OBVIOUS

\* The last steps of PUT and PROPPATCH, when they have not failed.
LEMMA EndsKeep ==
  ASSUME WebDavInv, NEW t \in Thread, Tag(t) \/ Patched(t)
  PROVE  WebDavInv'
<1>1. CASE Tag(t)
  <2>1. job[t].at = "write" /\ job[t].k = Len(Req(t).data)
    BY <1>1 DEF Tag
  <2>2. PICK code \in {201, 500} : Quiet(t, Reply(t, code))
    BY <1>1 DEF Tag
  <2>3. JobInv(t) /\ Req(t).data \in Seq(Block)
    BY <2>1, Underway, RequestFacts
  <2>4. Req(t).method = "PUT"
    BY <2>1, <2>3 DEF JobInv, Staged
  <2>5. job[t].alone => fs[Here(t)] = File(SubSeq(Req(t).data, 1, job[t].k))
    BY <2>1, <2>3 DEF JobInv, Uploading
  <2>6. SubSeq(Req(t).data, 1, job[t].k) = Req(t).data
    BY <2>1, <2>3, SubSeqEnds
  <2>7. job[t].alone => fs[Here(t)] = File(Req(t).data)
    BY <2>5, <2>6
  <2> QED
    BY <2>1, <2>2, <2>4, <2>7, QuietReply
<1>2. CASE Patched(t)
  <2>1. job[t].at = "patch" /\ job[t].k = Len(Req(t).actions) /\ Quiet(t, Reply(t, 207))
    BY <1>2 DEF Patched
  <2>2. Req(t).method = "PROPPATCH" /\ ~Refused(Req(t).actions)
    BY <2>1, Underway DEF JobInv, Staged
  <2> QED
    BY <2>1, <2>2, QuietReply
<1> QED
  BY <1>1, <1>2

-----------------------------------------------------------------------------
(* The actions that change resources or properties *)

\* What Open() and Write() make of the job.
LEMMA Linked ==
  ASSUME NEW j \in Job, NEW n, n = [j EXCEPT !.linked = TRUE]
  PROVE  n \in Job /\ n.at = j.at /\ n.req = j.req /\ n.k = j.k /\ n.alone = j.alone /\ n.linked
BY DEF Job

LEMMA Counted ==
  ASSUME NEW j \in Job, NEW k \in Nat, NEW n, n = [j EXCEPT !.k = k]
  PROVE  /\ n \in Job /\ n.at = j.at /\ n.req = j.req /\ n.k = k /\ n.alone = j.alone
         /\ n.linked = j.linked
BY DEF Job

\* A file in place of what was at its path.
LEMMA FileStored ==
  ASSUME fs \in [Path -> Resource], NEW p \in Path, NEW d \in Seq(Block),
         \A q \in Path : fs[q].type \in {"none", "dir"} => fs[q].data = <<>>,
         fs' = [fs EXCEPT ![p] = File(d)]
  PROVE  /\ fs' \in [Path -> Resource] /\ fs'[p] = File(d) /\ fs'[p].type = "file"
         /\ \A q \in Path : fs'[q].type \in {"none", "dir"} => fs'[q].data = <<>>
         /\ \A q \in Path : fs'[q].type = "none" => fs[q].type = "none"
<1>1. File(d) \in Resource /\ File(d).type = "file" /\ File(d).data = d
  BY FileFacts
<1> HIDE DEF File
<1>2. fs'[p] = File(d) /\ \A q \in Path \ {p} : fs'[q] = fs[q]
  OBVIOUS
<1> QED
  BY <1>1, <1>2

LEMMA UploadGoesOn ==
  ASSUME NEW t \in Thread, NEW r, NEW p, Req(t)' = r, Here(t)' = p,
         job'[t].k <= Len(r.data),
         ~r.chunked => job'[t].k \in {0, Len(r.data)},
         job'[t].linked => fs'[p].type = "file",
         job'[t].alone => job'[t].linked /\ fs'[p] = File(SubSeq(r.data, 1, job'[t].k))
  PROVE  Uploading(t)'
BY DEF Uploading

LEMMA OpenKeeps ==
  ASSUME WebDavInv, NEW t \in Thread, Open(t)
  PROVE  WebDavInv'
<1> DEFINE p == Here(t)
           g == Goto(t, "write")
           j == [g EXCEPT !.linked = TRUE]
<1>1. job[t].at = "open"
  BY DEF Open
<1>2. /\ Typed /\ JobInv(t) /\ Req(t) \in Request /\ p \in Path /\ Len(Req(t).data) \in Nat
      /\ Req(t).data \in Seq(Block) /\ Len(Req(t).actions) \in Nat
  BY <1>1, Underway, RequestFacts
<1>3. CASE \E code \in {400, 500} : Quiet(t, Reply(t, code))
  BY <1>1, <1>3, EarlyReply
<1>4. CASE /\ fs' = [fs EXCEPT ![p] = File(<<>>)]
           /\ UNCHANGED <<props, orphaned>>
           /\ Step(t, j)
  <2>1. Req(t).method = "PUT" /\ job[t].k = 0
    BY <1>1, <1>2 DEF JobInv, Staged
  <2>2. g \in Job /\ g.at = "write" /\ g.req = Req(t) /\ g.k = job[t].k
    BY <1>2, GotoFacts DEF Stage
  <2> HIDE DEF g
  <2>3. j \in Job /\ j.at = "write" /\ j.req = Req(t) /\ j.k = 0 /\ j.linked
    BY <2>1, <2>2, Linked
  <2> HIDE DEF j
  <2>4. <<>> \in Seq(Block)
    OBVIOUS
  <2>5. /\ fs' \in [Path -> Resource] /\ fs'[p] = File(<<>>) /\ fs'[p].type = "file"
        /\ \A q \in Path : fs'[q].type \in {"none", "dir"} => fs'[q].data = <<>>
        /\ \A q \in Path : fs'[q].type = "none" => fs[q].type = "none"
    BY <1>2, <1>4, <2>4, FileStored DEF Typed
  <2>6. job'[t].at = "write" /\ job'[t].req = Req(t) /\ job'[t].k = 0 /\ job'[t].linked
    BY <1>2, <1>4, <2>3, StepFacts
  <2>7. Req(t)' = Req(t) /\ Here(t)' = p
    BY <2>6 DEF Req, Here
  <2>8. SubSeq(Req(t).data, 1, 0) = <<>>
    BY <1>2, SubSeqEnds
  <2>9. JobInv(t)'
    <3>1. Staged(t)'
      BY <1>2, <2>1, <2>6, <2>7 DEF Staged, Method
    <3>2. 0 <= Len(Req(t).data)
      BY <1>2
    <3>3. fs'[p] = File(SubSeq(Req(t).data, 1, job'[t].k))
      BY <2>5, <2>6, <2>8
    <3>4. Uploading(t)'
      BY <2>5, <2>6, <2>7, <3>2, <3>3, UploadGoesOn
    <3>5. Deleting(t)' /\ Answered(t)'
      BY <2>6 DEF Deleting, Answered, Done
    <3> QED
      BY <3>1, <3>4, <3>5 DEF JobInv
  <2> QED
    BY <1>1, <1>2, <1>4, <2>3, <2>5, <2>9, StepKeeps DEF Typed
<1> QED
  BY <1>3, <1>4 DEF Open

LEMMA ForgetKeeps ==
  ASSUME WebDavInv, NEW t \in Thread, Forget(t)
  PROVE  WebDavInv'
<1> DEFINE p == Here(t)
           j == Reply(t, 204)
<1>1. /\ job[t].at = "forget" /\ fs' = fs /\ orphaned' = orphaned \ {p} /\ Step(t, j)
      /\ props' = [props EXCEPT ![p] = NoProps]
  BY DEF Forget
<1>2. Typed /\ JobInv(t) /\ p \in Path
  BY <1>1, Underway
<1>3. NoProps \in [Prop -> Val \cup {None}]
  BY DEF NoProps
<1>4. /\ props' \in [Path -> [Prop -> Val \cup {None}]] /\ props'[p] = NoProps
      /\ \A q \in Path \ {p} : props'[q] = props[q]
  BY <1>1, <1>2, <1>3 DEF Typed
<1>5. Req(t).method = "DELETE"
  BY <1>1, <1>2 DEF JobInv, Staged
<1>6. job[t].alone => fs[p].type = "none"
  BY <1>1, <1>2 DEF JobInv, Deleting, Exists
<1>7. JobInv(t)' /\ j \in Job /\ j.req = Req(t)
  BY <1>1, <1>4, <1>5, <1>6, ReplyKeeps
<1> HIDE DEF j
<1>8. \A q \in Path : props'[q] # NoProps /\ fs'[q].type = "none" =>
        /\ props[q] # NoProps /\ fs[q].type = "none"
        /\ q \in orphaned => q \in orphaned'
        /\ job[t].at = "forget" => q # Here(t)
  BY <1>1, <1>4
<1> QED
  BY <1>1, <1>2, <1>4, <1>7, <1>8, StepKeeps DEF Typed

\* DELETE and MKCOL end with 201 or an exception.
LEMMA TreeReply ==
  ASSUME WebDavInv, NEW t \in Thread, NEW code \in {201, 500}, Step(t, Reply(t, code)),
         job[t].at \in {"remove", "mkdir"}
  PROVE  JobInv(t)' /\ Reply(t, code) \in Job /\ Reply(t, code).req = Req(t)
<1>1. JobInv(t)
  BY Underway
<1>2. Req(t).method \in {"DELETE", "MKCOL"}
  BY <1>1 DEF JobInv, Staged
<1>3. /\ code \in Nat /\ code \notin 400..499 /\ code # 204
      /\ Req(t).method # "PUT" /\ Req(t).method # "PROPPATCH"
  BY <1>2
<1> QED
  BY <1>3, ReplyKeeps

LEMMA MakeDirKeeps ==
  ASSUME WebDavInv, NEW t \in Thread, MakeDir(t)
  PROVE  WebDavInv'
<1> DEFINE p == Here(t)
           way == {p} \cup Above[p]
<1>1. job[t].at = "mkdir"
  BY DEF MakeDir
<1>2. Typed /\ JobInv(t) /\ p \in Path
  BY <1>1, Underway
<1>3. CASE Quiet(t, Reply(t, 500))
  BY <1>1, <1>3, EarlyReply
<1>4. CASE /\ fs' = [q \in Path |-> IF q \in way THEN Directory ELSE fs[q]]
           /\ UNCHANGED <<props, orphaned>>
           /\ Step(t, Reply(t, 201))
  <2>1. JobInv(t)' /\ Reply(t, 201) \in Job /\ Reply(t, 201).req = Req(t)
    BY <1>1, <1>4, TreeReply
  <2> HIDE DEF way
  <2>2. /\ fs' \in [Path -> Resource]
        /\ \A q \in Path : fs'[q].type \in {"none", "dir"} => fs'[q].data = <<>>
        /\ \A q \in Path : fs'[q].type = "none" => fs[q].type = "none"
    BY <1>2, <1>4, OtherResources DEF Typed
  <2> QED
    BY <1>1, <1>2, <1>4, <2>1, <2>2, StepKeeps DEF Typed
<1> QED
  BY <1>3, <1>4 DEF MakeDir

\* Resources that are removed, and the properties they leave behind.
LEMMA Gone ==
  ASSUME Typed, NEW gone \in SUBSET Path,
         fs' = [q \in Path |-> IF q \in gone THEN NoFile ELSE fs[q]]
  PROVE  /\ fs' \in [Path -> Resource]
         /\ \A q \in Path : fs'[q].type \in {"none", "dir"} => fs'[q].data = <<>>
         /\ \A q \in gone : fs'[q].type = "none"
         /\ \A q \in Path \ gone : fs'[q] = fs[q]
BY OtherResources DEF Typed

LEMMA RemoveFailsKeeps ==
  ASSUME WebDavInv, NEW t \in Thread, RemoveFails(t)
  PROVE  WebDavInv'
<1>1. job[t].at = "remove" /\ props' = props /\ Step(t, Reply(t, 500))
  BY DEF RemoveFails
<1>2. Typed /\ JobInv(t)
  BY <1>1, Underway
<1>3. PICK gone \in SUBSET Path :
        /\ fs' = [q \in Path |-> IF q \in gone THEN NoFile ELSE fs[q]]
        /\ orphaned' = orphaned \cup {q \in gone : props[q] # NoProps}
  BY DEF RemoveFails, Below, HasProps
<1>4. JobInv(t)' /\ Reply(t, 500) \in Job /\ Reply(t, 500).req = Req(t)
  BY <1>1, TreeReply
<1>5. /\ fs' \in [Path -> Resource]
      /\ \A q \in Path : fs'[q].type \in {"none", "dir"} => fs'[q].data = <<>>
      /\ \A q \in gone : fs'[q].type = "none"
      /\ \A q \in Path \ gone : fs'[q] = fs[q]
  BY <1>2, <1>3, Gone
<1>6. \A q \in Path : props'[q] # NoProps /\ fs'[q].type = "none" =>
        \/ q \in orphaned'
        \/ props[q] # NoProps /\ fs[q].type = "none" /\ (q \in orphaned => q \in orphaned')
  BY <1>1, <1>3, <1>5
<1> QED
  BY <1>1, <1>2, <1>3, <1>4, <1>5, <1>6, StepKeeps DEF Typed

LEMMA RemovePathKeeps ==
  ASSUME WebDavInv, NEW t \in Thread, RemovePath(t)
  PROVE  WebDavInv'
<1> DEFINE p == Here(t)
           tree == {p} \cup Below(p)
<1>1. /\ job[t].at = "remove" /\ props' = props
      /\ fs' = [q \in Path |-> IF q \in tree THEN NoFile ELSE fs[q]]
      /\ orphaned' = orphaned \cup {q \in Below(p) : props[q] # NoProps}
      /\ \/ Step(t, Goto(t, "forget"))
         \/ ~Exists(p) /\ Step(t, Reply(t, 500))
  BY DEF RemovePath, HasProps
<1>2. Typed /\ JobInv(t) /\ Req(t) \in Request /\ p \in Path
  BY <1>1, Underway
<1>3. Below(p) \subseteq Path
  BY DEF Below
<1>4. /\ fs' \in [Path -> Resource]
      /\ \A q \in Path : fs'[q].type \in {"none", "dir"} => fs'[q].data = <<>>
      /\ \A q \in tree : fs'[q].type = "none"
      /\ \A q \in Path \ tree : fs'[q] = fs[q]
  BY <1>1, <1>2, <1>3, Gone
<1>5. \A q \in Path : props'[q] # NoProps /\ fs'[q].type = "none" =>
        \/ q \in orphaned'
        \/ q = p
        \/ props[q] # NoProps /\ fs[q].type = "none" /\ (q \in orphaned => q \in orphaned')
  BY <1>1, <1>4
<1>6. Req(t).method = "DELETE" /\ job[t].k = 0
  BY <1>1, <1>2 DEF JobInv, Staged
<1>7. orphaned' \subseteq Path /\ props' \in [Path -> [Prop -> Val \cup {None}]]
  BY <1>1, <1>2, <1>3 DEF Typed
<1>8. fs'[p].type = "none"
  BY <1>4
<1>9. CASE Step(t, Goto(t, "forget"))
  <2> DEFINE j == Goto(t, "forget")
  <2>1. j \in Job /\ j.at = "forget" /\ j.req = Req(t) /\ j.k = 0
    BY <1>2, <1>6, GotoFacts DEF Stage
  <2> HIDE DEF j, p, tree
  <2>2. job'[t].at = "forget" /\ job'[t].req = Req(t) /\ job'[t].k = 0
    BY <1>2, <1>9, <2>1, StepFacts DEF j
  <2>3. Req(t)' = Req(t) /\ Here(t)' = p
    BY <2>2 DEF Req, Here, p
  <2>4. Staged(t)'
    BY <1>2, <1>6, <2>2, <2>3 DEF Staged, Method
  <2>5. Deleting(t)'
    BY <1>8, <2>3 DEF Deleting, Exists
  <2>6. Uploading(t)' /\ Answered(t)'
    BY <2>2 DEF Uploading, Answered, Done
  <2>7. JobInv(t)'
    BY <2>4, <2>5, <2>6 DEF JobInv
  <2>8. \A q \in Path : props'[q] # NoProps /\ fs'[q].type = "none" =>
          \/ q \in orphaned'
          \/ j.at = "forget" /\ q = Here(t)
          \/ /\ props[q] # NoProps /\ fs[q].type = "none"
             /\ q \in orphaned => q \in orphaned'
             /\ job[t].at = "forget" => q # Here(t)
    BY <1>1, <1>5, <2>1 DEF p
  <2> QED
    BY <1>4, <1>7, <1>9, <2>1, <2>7, <2>8, StepKeeps DEF j
<1>10. CASE ~Exists(p) /\ Step(t, Reply(t, 500))
  <2>1. JobInv(t)' /\ Reply(t, 500) \in Job /\ Reply(t, 500).req = Req(t)
    BY <1>1, <1>10, TreeReply
  <2>2. fs[p].type = "none"
    BY <1>10 DEF Exists
  <2>3. \A q \in Path : props'[q] # NoProps /\ fs'[q].type = "none" =>
          \/ q \in orphaned'
          \/ /\ props[q] # NoProps /\ fs[q].type = "none"
             /\ q \in orphaned => q \in orphaned'
             /\ job[t].at = "forget" => q # Here(t)
    BY <1>1, <1>5, <2>2
  <2> QED
    BY <1>4, <1>7, <1>10, <2>1, <2>3, StepKeeps
<1> QED
  BY <1>1, <1>9, <1>10

LEMMA PatchOneKeeps ==
  ASSUME WebDavInv, NEW t \in Thread, PatchOne(t)
  PROVE  WebDavInv'
<1> DEFINE p == Here(t)
           r == Req(t)
           a == r.actions[job[t].k + 1]
           j == [job[t] EXCEPT !.k = job[t].k + 1]
<1>1. /\ job[t].at = "patch" /\ job[t].k < Len(r.actions) /\ fs' = fs
      /\ props' = [props EXCEPT ![p][a.prop] = a.val]
      /\ orphaned' = IF Exists(p) THEN orphaned ELSE orphaned \cup {p}
      /\ Step(t, j)
  BY DEF PatchOne
<1>2. /\ Typed /\ JobInv(t) /\ r \in Request /\ p \in Path /\ Len(r.actions) \in Nat
      /\ job[t] \in Job /\ job[t].k \in Nat
      /\ r.actions \in Seq([prop: Prop, val: Val \cup {None}])
  BY <1>1, Underway, RequestFacts
<1>3. r.method = "PROPPATCH" /\ ~Refused(r.actions)
  BY <1>1, <1>2 DEF JobInv, Staged
<1>4. a.prop \in Prop /\ a.val \in Val \cup {None}
  <2>1. job[t].k + 1 \in 1..Len(r.actions)
    BY <1>1, <1>2
  <2>2. a \in [prop: Prop, val: Val \cup {None}]
    BY <1>2, <2>1, ElementOfSeq
  <2> QED
    BY <2>2
<1>5. job[t].k + 1 \in Nat /\ job[t].k + 1 <= Len(r.actions)
  BY <1>1, <1>2
<1>6. j \in Job /\ j.at = "patch" /\ j.req = r /\ j.k = job[t].k + 1
  BY <1>1, <1>2, <1>5, Counted DEF Req
<1> HIDE DEF a, j, r, p
<1>7. /\ props' \in [Path -> [Prop -> Val \cup {None}]]
      /\ \A q \in Path \ {p} : props'[q] = props[q]
  BY <1>1, <1>2, <1>4 DEF Typed
<1>8. job'[t].at = "patch" /\ job'[t].req = r /\ job'[t].k = job[t].k + 1
  BY <1>1, <1>2, <1>6, StepFacts
<1>9. Req(t)' = r
  BY <1>8 DEF Req
<1>10. JobInv(t)'
  <2>1. Staged(t)'
    BY <1>2, <1>3, <1>5, <1>8, <1>9 DEF Staged, Method
  <2>2. Uploading(t)' /\ Deleting(t)' /\ Answered(t)'
    BY <1>8 DEF Uploading, Deleting, Answered, Done
  <2> QED
    BY <2>1, <2>2 DEF JobInv
<1>11. orphaned' \subseteq Path
  BY <1>1, <1>2 DEF Typed
<1>12. \A q \in Path : props'[q] # NoProps /\ fs'[q].type = "none" =>
         \/ q \in orphaned'
         \/ /\ props[q] # NoProps /\ fs[q].type = "none"
            /\ q \in orphaned => q \in orphaned'
            /\ job[t].at = "forget" => q # Here(t)
  BY <1>1, <1>7 DEF Exists
<1> QED
  BY <1>1, <1>2, <1>6, <1>7, <1>10, <1>11, <1>12, StepKeeps DEF Typed, r

\* A file that is open keeps its first blocks and gets the next ones.
LEMMA StoredFacts ==
  ASSUME WebDavInv, NEW t \in Thread, job[t].at = "write",
         NEW n \in Nat, job[t].k + n <= Len(Req(t).data), fs' = Stored(t, n)
  PROVE  /\ fs' \in [Path -> Resource]
         /\ \A q \in Path : fs'[q].type \in {"none", "dir"} => fs'[q].data = <<>>
         /\ \A q \in Path : fs'[q].type = "none" => fs[q].type = "none"
         /\ job[t].linked => fs'[Here(t)].type = "file"
         /\ job[t].alone => fs'[Here(t)] = File(SubSeq(Req(t).data, 1, job[t].k + n))
<1> DEFINE p == Here(t)
           d == Req(t).data
           k == job[t].k
           new == SubSeq(d, k + 1, k + n)
<1>1. /\ Typed /\ JobInv(t) /\ p \in Path /\ Len(d) \in Nat /\ k \in Nat /\ d \in Seq(Block)
  BY Underway, RequestFacts
<1>2. /\ job[t].linked => fs[p].type = "file"
      /\ job[t].alone => job[t].linked /\ fs[p] = File(SubSeq(d, 1, k))
  BY <1>1 DEF JobInv, Uploading
<1>3. CASE n = 0 \/ ~job[t].linked
  <2>1. fs' = fs
    BY <1>3 DEF Stored
  <2>2. job[t].alone => n = 0
    BY <1>2, <1>3
  <2> QED
    BY <1>1, <1>2, <2>1, <2>2 DEF Typed
<1>4. CASE n # 0 /\ job[t].linked
  <2>1. fs' = [fs EXCEPT ![p] = File(Written(fs[p].data, k, new))]
    BY <1>4 DEF Stored
  <2>2. new \in Seq(Block)
    <3>1. \A i \in (k + 1)..(k + n) : d[i] \in Block
      BY <1>1
    <3> QED
      BY <1>1, <3>1
  <2>3. SubSeq(d, 1, k) \in Seq(Block)
    <3>1. \A i \in 1..k : d[i] \in Block
      BY <1>1
    <3> QED
      BY <1>1, <3>1
  <2>4. job[t].alone => Written(fs[p].data, k, new) = SubSeq(d, 1, k + n)
    <3> SUFFICES ASSUME job[t].alone
                 PROVE  Written(fs[p].data, k, new) = SubSeq(d, 1, k + n)
      OBVIOUS
    <3>1. fs[p].data = SubSeq(d, 1, k)
      BY <1>2, <2>3, FileFacts
    <3> QED
      BY <1>1, <3>1, WrittenAppends
  <2> HIDE DEF new
  <2>5. Written(fs[p].data, k, new) \in Seq(Block)
    <3>1. fs[p].data \in Seq(Block)
      BY <1>1 DEF Typed, Resource
    <3> QED
      BY <1>1, <2>2, <3>1, WrittenTyped
  <2> HIDE DEF p, d, k
  <2>6. /\ fs' \in [Path -> Resource] /\ fs'[p] = File(Written(fs[p].data, k, new))
        /\ fs'[p].type = "file"
        /\ \A q \in Path : fs'[q].type \in {"none", "dir"} => fs'[q].data = <<>>
        /\ \A q \in Path : fs'[q].type = "none" => fs[q].type = "none"
    BY <1>1, <2>1, <2>5, FileStored DEF Typed
  <2>7. job[t].alone => fs'[p] = File(SubSeq(d, 1, k + n))
    BY <2>4, <2>6
  <2> QED
    BY <2>6, <2>7 DEF p, d, k
<1> QED
  BY <1>3, <1>4

LEMMA WriteKeeps ==
  ASSUME WebDavInv, NEW t \in Thread, Write(t)
  PROVE  WebDavInv'
<1> DEFINE p == Here(t)
           r == Req(t)
           k == job[t].k
           n == IF r.chunked THEN 1 ELSE Len(r.data)
           j == [job[t] EXCEPT !.k = k + n]
<1>1. /\ job[t].at = "write" /\ k < Len(r.data) /\ props' = props /\ orphaned' = orphaned
      /\ fs' = Stored(t, n) /\ Step(t, j)
  BY DEF Write
<1>2. /\ Typed /\ JobInv(t) /\ r \in Request /\ Len(r.data) \in Nat
      /\ job[t] \in Job /\ k \in Nat /\ r.chunked \in BOOLEAN
  BY <1>1, Underway, RequestFacts
<1>3. r.method = "PUT"
  BY <1>1, <1>2 DEF JobInv, Staged
<1>4. /\ ~r.chunked => k \in {0, Len(r.data)}
      /\ job[t].alone => job[t].linked
  BY <1>1, <1>2 DEF JobInv, Uploading
<1>5. n \in Nat /\ k + n \in Nat /\ k + n <= Len(r.data) /\ (~r.chunked => k + n = Len(r.data))
  <2>1. CASE r.chunked
    BY <1>1, <1>2, <2>1
  <2>2. CASE ~r.chunked
    <3>1. k = 0
      BY <1>1, <1>2, <1>4, <2>2
    <3> QED
      BY <1>2, <2>2, <3>1
  <2> QED
    BY <2>1, <2>2
<1>6. j \in Job /\ j.at = "write" /\ j.req = r /\ j.k = k + n /\ j.linked = job[t].linked
        /\ j.alone = job[t].alone
  BY <1>1, <1>2, <1>5, Counted DEF Req
<1> HIDE DEF n, j
<1>7. /\ fs' \in [Path -> Resource]
      /\ \A q \in Path : fs'[q].type \in {"none", "dir"} => fs'[q].data = <<>>
      /\ \A q \in Path : fs'[q].type = "none" => fs[q].type = "none"
      /\ job[t].linked => fs'[p].type = "file"
      /\ job[t].alone => fs'[p] = File(SubSeq(r.data, 1, k + n))
  BY <1>1, <1>5, StoredFacts
<1>8. /\ job'[t].at = "write" /\ job'[t].req = r /\ job'[t].k = k + n
      /\ job'[t].linked = job[t].linked /\ job'[t].alone = job[t].alone
  BY <1>1, <1>2, <1>6, StepFacts
<1>9. Req(t)' = r /\ Here(t)' = p
  BY <1>8 DEF Req, Here
<1> HIDE DEF r, p, k
<1>10. JobInv(t)'
  <2>1. Staged(t)'
    BY <1>2, <1>3, <1>8, <1>9 DEF Staged, Method
  <2>2. Uploading(t)'
    BY <1>4, <1>5, <1>7, <1>8, <1>9, UploadGoesOn
  <2>3. Deleting(t)' /\ Answered(t)'
    BY <1>8 DEF Deleting, Answered, Done
  <2> QED
    BY <2>1, <2>2, <2>3 DEF JobInv
<1> QED
  BY <1>1, <1>2, <1>6, <1>7, <1>10, StepKeeps DEF Typed, r

\* An upload that fails leaves the start of its body.
LEMMA UploadFailsKeeps ==
  ASSUME WebDavInv, NEW t \in Thread, UploadFails(t)
  PROVE  WebDavInv'
<1> DEFINE r == Req(t)
           k == job[t].k
<1>1. /\ job[t].at = "write" /\ k < Len(r.data) /\ props' = props /\ orphaned' = orphaned
      /\ Step(t, Reply(t, 400))
  BY DEF UploadFails
<1>2. /\ Typed /\ JobInv(t) /\ r \in Request /\ Len(r.data) \in Nat /\ k \in Nat
      /\ r.chunked \in BOOLEAN
  BY <1>1, Underway, RequestFacts
<1>3. r.method = "PUT"
  BY <1>1, <1>2 DEF JobInv, Staged
<1>4. PICK m \in 0..(IF r.chunked THEN 0 ELSE Len(r.data) - 1) : fs' = Stored(t, m)
  BY DEF UploadFails
<1>5. m \in Nat /\ k + m \in 0..(Len(r.data) - 1) /\ k + m <= Len(r.data)
  <2>1. CASE r.chunked
    BY <1>1, <1>2, <1>4, <2>1
  <2>2. CASE ~r.chunked
    <3>1. k \in {0, Len(r.data)}
      BY <1>1, <1>2, <2>2 DEF JobInv, Uploading
    <3>2. k = 0
      BY <1>1, <1>2, <3>1
    <3> QED
      BY <1>1, <1>2, <1>4, <2>2, <3>2
  <2> QED
    BY <2>1, <2>2
<1>6. /\ fs' \in [Path -> Resource]
      /\ \A q \in Path : fs'[q].type \in {"none", "dir"} => fs'[q].data = <<>>
      /\ \A q \in Path : fs'[q].type = "none" => fs[q].type = "none"
      /\ job[t].alone => fs'[Here(t)] = File(SubSeq(r.data, 1, k + m))
  BY <1>1, <1>4, <1>5, StoredFacts
<1>7. job[t].alone => Leading(r, fs'[Here(t)])
  BY <1>5, <1>6 DEF Leading
<1> HIDE DEF r, k
<1>8. JobInv(t)' /\ Reply(t, 400) \in Job /\ Reply(t, 400).req = r
  BY <1>1, <1>3, <1>7, ReplyKeeps DEF r
<1> QED
  BY <1>1, <1>2, <1>6, <1>8, StepKeeps DEF Typed, r

-----------------------------------------------------------------------------
(* The invariant and what it gives *)

LEMMA InitWebDavInv == WebDavInit => WebDavInv
<1> SUFFICES ASSUME WebDavInit
             PROVE  WebDavInv
  OBVIOUS
<1>1. Idle \in Job /\ Idle.at = "idle" /\ Idle.k = 0 /\ ~Idle.changed
  BY DEF Idle, Job, Stage
<1>2. NoProps \in [Prop -> Val \cup {None}]
  BY DEF NoProps
<1>3. /\ fs = InitFs /\ props = [p \in Path |-> NoProps] /\ orphaned = {}
      /\ job = [t \in Thread |-> Idle]
  BY DEF WebDavInit
<1>4. \A p \in Path : fs[p].type \in {"none", "dir"} => fs[p].data = <<>>
  BY <1>3, WebDavAssumption
<1>5. Typed
  BY <1>1, <1>2, <1>3, <1>4, WebDavAssumption DEF Typed
<1>6. ASSUME NEW t \in Thread
      PROVE  JobInv(t)
  BY <1>1, <1>3 DEF JobInv, Staged, Uploading, Deleting, Answered, Done, Method
<1>7. NoOrphanProps
  BY <1>3 DEF NoOrphanProps, HasProps
<1> QED
  BY <1>5, <1>6, <1>7 DEF WebDavInv

LEMMA NextWebDavInv == WebDavInv /\ [WebDavNext]_wvars => WebDavInv'
<1> SUFFICES ASSUME WebDavInv, [WebDavNext]_wvars
             PROVE  WebDavInv'
  OBVIOUS
<1>1. CASE UNCHANGED wvars
  <2>1. fs' = fs /\ props' = props /\ job' = job /\ orphaned' = orphaned
    BY <1>1 DEF wvars
  <2>2. Typed'
    BY <2>1 DEF WebDavInv, Typed
  <2>3. ASSUME NEW t \in Thread
        PROVE  JobInv(t)'
    <3>1. JobInv(t)
      BY DEF WebDavInv
    <3>2. job[t].at = "write" => (job[t].linked => fs[Here(t)].type = "file")
      BY <3>1 DEF JobInv, Uploading
    <3> QED
      BY <2>1, <3>1, <3>2, JobGoesOn
  <2>4. NoOrphanProps'
    BY <2>1 DEF WebDavInv, NoOrphanProps, HasProps, Exists, Req, Here
  <2> QED
    BY <2>2, <2>3, <2>4 DEF WebDavInv
<1>2. ASSUME NEW t \in Thread,
             \/ \E r \in Request : Receive(t, r)
             \/ Refuse(t) \/ CopyMove(t) \/ Look(t) \/ Read(t)
             \/ Put(t) \/ Open(t) \/ Write(t) \/ UploadFails(t) \/ Tag(t)
             \/ Delete(t) \/ RemovePath(t) \/ RemoveFails(t) \/ Forget(t)
             \/ Mkcol(t) \/ MakeDir(t)
             \/ Proppatch(t) \/ PatchOne(t) \/ Patched(t)
      PROVE  WebDavInv'
  BY <1>2, ReceiveKeeps, LooksKeep, ChecksKeep, EndsKeep, OpenKeeps, WriteKeeps, UploadFailsKeeps,
     RemovePathKeeps, RemoveFailsKeeps, ForgetKeeps, MakeDirKeeps, PatchOneKeeps
<1> QED
  BY <1>1, <1>2 DEF WebDavNext

\* The inductive invariant holds of every behaviour.
THEOREM WebDavInvariant == WebDavSpec => []WebDavInv
BY InitWebDavInv, NextWebDavInv, PTL DEF WebDavSpec

\* Only files hold data, and no request does more than it was asked for.
THEOREM WebDavTyped == WebDavSpec => []WebDavTypeOK
<1>1. WebDavInv => WebDavTypeOK
  <2> SUFFICES ASSUME WebDavInv
               PROVE  WebDavTypeOK
    OBVIOUS
  <2>1. ASSUME NEW t \in Thread, job[t].at # "idle"
        PROVE  job[t].k <= Len(Req(t).data) + Len(Req(t).actions)
    BY <2>1, JobCounts
  <2> QED
    BY <2>1 DEF WebDavTypeOK, WebDavInv, Typed
<1> QED
  BY <1>1, WebDavInvariant, PTL

\* What is refused with 4xx has changed nothing, wherever the other requests come in
\* between; an upload that was cut short, chunked or not, has lost the old content
\* and left the start of its body, unless another request touched the file.
THEOREM RefusalsAreClean == WebDavSpec => []RefusalChangesNothing
<1>1. WebDavInv => RefusalChangesNothing
  BY DEF WebDavInv, JobInv, Answered, RefusalChangesNothing, CutShort, Leading, Here
<1> QED
  BY <1>1, WebDavInvariant, PTL

\* An upload answered with 201 that nobody else touched is in the file whole, though
\* it was written block by block.
THEOREM UploadsAreStored == WebDavSpec => []UploadStored
<1>1. WebDavInv => UploadStored
  BY DEF WebDavInv, JobInv, Answered, UploadStored, Here
<1> QED
  BY <1>1, WebDavInvariant, PTL

\* What DELETE answered 204 for is gone, and its properties are.
THEOREM DeletedAreGone == WebDavSpec => []DeletedIsGone
<1>1. WebDavInv => DeletedIsGone
  BY DEF WebDavInv, JobInv, Answered, DeletedIsGone, Here
<1> QED
  BY <1>1, WebDavInvariant, PTL

\* Properties outlive their resource only where the model notes why, or for the
\* one step that is left of the DELETE.
THEOREM OrphansAreKnown == WebDavSpec => []NoOrphanProps
<1>1. WebDavInv => NoOrphanProps
  BY DEF WebDavInv
<1> QED
  BY <1>1, WebDavInvariant, PTL

\* PROPPATCH does all of its updates or none, and none when one is in "DAV:".
THEOREM PatchesAreWhole == WebDavSpec => []PatchAllOrNothing
<1>1. WebDavInv => PatchAllOrNothing
  <2> SUFFICES ASSUME WebDavInv, NEW t \in Thread, Done(t), Req(t).method = "PROPPATCH",
                      job[t].code = 207
               PROVE  /\ job[t].k \in {0, Len(Req(t).actions)}
                      /\ (\E a \in ToSet(Req(t).actions) : a.prop \in DavProp) => ~job[t].changed
    BY DEF PatchAllOrNothing
  <2>1. /\ job[t].k \in {0, Len(Req(t).actions)}
        /\ Refused(Req(t).actions) => ~job[t].changed
    BY DEF WebDavInv, JobInv, Answered
  <2>2. (\E a \in ToSet(Req(t).actions) : a.prop \in DavProp) => Refused(Req(t).actions)
    BY DEF ToSet, Refused
  <2> QED
    BY <2>1, <2>2
<1> QED
  BY <1>1, WebDavInvariant, PTL

-----------------------------------------------------------------------------
(* PROPPATCH requests that do not race: the updates of one are not mixed     *)
(* with those of another.                                                    *)

\* No two requests update the properties of one resource at once, and none does
\* while a DELETE is about to remove them.
NoPatchRace ==
  \A t, u \in Thread : t # u /\ job[t].at = "patch" /\ job[u].at \in {"patch", "forget"} =>
    Here(t) # Here(u)

\* A request names a property once.
NamedOnce ==
  \A r \in Request : \A i, k \in 1..Len(r.actions) :
    r.actions[i].prop = r.actions[k].prop => i = k

Settled(p) == \A x, y \in Prop : Twins(x, y) => props[p][x] = props[p][y]
Unpatched(p) == \A t \in Thread : job[t].at = "patch" => Here(t) # p
Named(x, a, k) == \E i \in 1..k : a[i].prop = x

\* The first k updates are made; what they do not name is as it was.
Patching(t) ==
  LET a == Req(t).actions
      k == job[t].k
      now == props[Here(t)]
  IN  job[t].at = "patch" =>
        /\ \A i \in 1..k : now[a[i].prop] = a[i].val
        /\ \A x, y \in Prop : Twins(x, y) /\ ~Named(x, a, k) /\ ~Named(y, a, k) => now[x] = now[y]

PatchInv ==
  /\ \A p \in Path : Unpatched(p) => Settled(p)
  /\ \A t \in Thread : Patching(t)

\* Thread t goes on, and the others stay where they are.
OnlyMoves(t) ==
  \A u \in Thread \ {t} :
    job'[u].at = job[u].at /\ job'[u].req = job[u].req /\ job'[u].k = job[u].k

\* A request whose properties nobody touched is where it was.
LEMMA PatchWaits ==
  ASSUME NEW u \in Thread, Patching(u),
         job'[u].at = job[u].at /\ job'[u].req = job[u].req /\ job'[u].k = job[u].k,
         job[u].at = "patch" => props'[Here(u)] = props[Here(u)]
  PROVE  Patching(u)'
<1>1. Here(u)' = Here(u) /\ Req(u)' = Req(u)
  BY DEF Here, Req
<1> QED
  BY <1>1 DEF Patching, Twins, Named

\* A step outside of PROPPATCH that leaves the properties alone.
LEMMA PatchesWait ==
  ASSUME PatchInv, NEW t \in Thread, OnlyMoves(t), props' = props,
         job[t].at # "patch", job'[t].at # "patch"
  PROVE  PatchInv'
<1>1. ASSUME NEW u \in Thread
      PROVE  /\ job'[u].at = "patch" <=> job[u].at = "patch"
             /\ job[u].at = "patch" => Here(u)' = Here(u)
             /\ Patching(u)'
  <2>1. CASE u = t
    BY <2>1 DEF Patching
  <2>2. CASE u # t
    BY <2>2, PatchWaits DEF PatchInv, OnlyMoves, Here, Req
  <2> QED
    BY <2>1, <2>2
<1>2. ASSUME NEW p \in Path, Unpatched(p)'
      PROVE  Settled(p)'
  <2>1. Unpatched(p)
    BY <1>1, <1>2 DEF Unpatched
  <2> QED
    BY <2>1 DEF PatchInv, Settled, Twins
<1> QED
  BY <1>1, <1>2 DEF PatchInv

LEMMA StepOnlyMoves ==
  ASSUME Typed, NEW t \in Thread, NEW j \in Job, Step(t, j)
  PROVE  OnlyMoves(t) /\ job'[t].at = j.at /\ job'[t].req = j.req /\ job'[t].k = j.k
BY StepFacts DEF OnlyMoves

LEMMA ReplyMoves ==
  ASSUME Typed, NEW t \in Thread, NEW code \in Nat, Step(t, Reply(t, code))
  PROVE  OnlyMoves(t) /\ job'[t].at = "done"
BY ReplyFacts, StepOnlyMoves

LEMMA GotoMoves ==
  ASSUME Typed, NEW t \in Thread, NEW label \in Stage, Step(t, Goto(t, label))
  PROVE  OnlyMoves(t) /\ job'[t].at = label /\ job'[t].req = Req(t) /\ job'[t].k = job[t].k
BY GotoFacts, StepOnlyMoves

LEMMA ReceiveMoves ==
  ASSUME WebDavInv, NEW t \in Thread, NEW r \in Request, Receive(t, r)
  PROVE  /\ OnlyMoves(t) /\ props' = props
         /\ job[t].at # "patch" /\ job'[t].at # "patch"
<1>1. /\ job' = [job EXCEPT ![t] = [Idle EXCEPT !.at = r.method, !.req = r]]
      /\ props' = props /\ job[t].at \in {"idle", "done"}
  BY DEF Receive
<1>2. job \in [Thread -> Job]
  BY DEF WebDavInv, Typed
<1>3. \A u \in Thread \ {t} : job'[u] = job[u]
  BY <1>1, <1>2
<1>4. job'[t].at = r.method
  BY <1>1, <1>2 DEF Idle
<1>5. r.method # "patch"
  BY RequestFacts DEF Method
<1> QED
  BY <1>1, <1>3, <1>4, <1>5 DEF OnlyMoves

\* Every other step that leaves the properties alone is outside of PROPPATCH.
LEMMA OthersMove ==
  ASSUME WebDavInv, NEW t \in Thread,
         \/ Refuse(t) \/ CopyMove(t) \/ Look(t) \/ Read(t)
         \/ Put(t) \/ Open(t) \/ Write(t) \/ UploadFails(t) \/ Tag(t)
         \/ Delete(t) \/ RemovePath(t) \/ RemoveFails(t)
         \/ Mkcol(t) \/ MakeDir(t)
  PROVE  /\ OnlyMoves(t) /\ props' = props
         /\ job[t].at # "patch" /\ job'[t].at # "patch"
<1> USE DEF Quiet
<1>1. Typed
  BY DEF WebDavInv
<1>2. SUFFICES /\ props' = props /\ job[t].at # "patch"
               /\ \/ \E code \in Nat : Step(t, Reply(t, code))
                  \/ \E label \in Stage \ {"patch"} : Step(t, Goto(t, label))
                  \/ \E j \in Job : j.at # "patch" /\ Step(t, j)
  BY <1>1, ReplyMoves, GotoMoves, StepOnlyMoves
<1>3. {"read", "open", "remove", "forget", "mkdir"} \subseteq Stage \ {"patch"}
  BY DEF Stage
<1>4. CASE Refuse(t) \/ CopyMove(t)
  BY <1>4 DEF Refuse, CopyMove
<1>5. CASE Look(t)
  <2>1. \/ \E code \in {400, 404} : Step(t, Reply(t, code))
        \/ Step(t, Goto(t, "read"))
    BY <1>5 DEF Look
  <2> QED
    BY <1>3, <1>5, <2>1 DEF Look
<1>6. CASE Read(t)
  <2>1. \E code \in {200, 207, 500} : Step(t, Reply(t, code))
    BY <1>6 DEF Read
  <2> QED
    BY <1>6, <2>1 DEF Read
<1>7. CASE Put(t) \/ Delete(t)
  BY <1>3, <1>7 DEF Put, Delete
<1>8. CASE Mkcol(t)
  <2>1. \/ \E code \in {405, 409, 415} : Step(t, Reply(t, code))
        \/ Step(t, Goto(t, "mkdir"))
    BY <1>8 DEF Mkcol
  <2> QED
    BY <1>3, <1>8, <2>1 DEF Mkcol
<1>9. CASE Open(t)
  <2> DEFINE j == [Goto(t, "write") EXCEPT !.linked = TRUE]
  <2>1. Goto(t, "write") \in Job /\ Goto(t, "write").at = "write"
    BY <1>1, GotoFacts DEF Stage
  <2>2. j \in Job /\ j.at = "write"
    BY <2>1 DEF Job
  <2>3. Step(t, j) \/ \E code \in {400, 500} : Step(t, Reply(t, code))
    BY <1>9 DEF Open
  <2>4. props' = props /\ job[t].at # "patch"
    BY <1>9 DEF Open
  <2> HIDE DEF j
  <2> QED
    BY <2>2, <2>3, <2>4
<1>10. CASE Write(t)
  <2> DEFINE n == IF Req(t).chunked THEN 1 ELSE Len(Req(t).data)
             j == [job[t] EXCEPT !.k = job[t].k + n]
  <2>1. job[t].at = "write" /\ props' = props /\ Step(t, j)
    BY <1>10 DEF Write
  <2>2. job[t] \in Job /\ job[t].k \in Nat /\ n \in Nat
    BY <2>1, Underway
  <2>3. job[t].k + n \in Nat
    BY <2>2
  <2>4. j \in Job /\ j.at = "write"
    BY <2>1, <2>2, <2>3, Counted
  <2> HIDE DEF j
  <2> QED
    BY <2>1, <2>4
<1>11. CASE UploadFails(t) \/ Tag(t)
  <2>1. \E code \in {201, 400, 500} : Step(t, Reply(t, code))
    BY <1>11 DEF UploadFails, Tag
  <2> QED
    BY <1>11, <2>1 DEF UploadFails, Tag
<1>12. CASE RemovePath(t) \/ RemoveFails(t)
  <2>1. Step(t, Goto(t, "forget")) \/ Step(t, Reply(t, 500))
    BY <1>12 DEF RemovePath, RemoveFails
  <2> QED
    BY <1>3, <1>12, <2>1 DEF RemovePath, RemoveFails
<1>13. CASE MakeDir(t)
  <2>1. \E code \in {201, 500} : Step(t, Reply(t, code))
    BY <1>13 DEF MakeDir
  <2> QED
    BY <1>13, <2>1 DEF MakeDir
<1> QED
  BY <1>4, <1>5, <1>6, <1>7, <1>8, <1>9, <1>10, <1>11, <1>12, <1>13

-----------------------------------------------------------------------------
(* The steps of PROPPATCH, and the last one of DELETE *)

\* A request begins with the properties settled, or does not begin.
LEMMA PatchBegins ==
  ASSUME WebDavInv, PatchInv, NoPatchRace', NEW t \in Thread, Proppatch(t)
  PROVE  PatchInv'
<1>1. Typed /\ job[t].at = "PROPPATCH" /\ props' = props /\ Here(t) \in Path /\ job[t].k = 0
  <2>1. job[t].at = "PROPPATCH" /\ props' = props
    BY DEF Proppatch, Quiet
  <2> QED
    BY <2>1, Underway DEF JobInv, Staged
<1>2. \/ Step(t, Goto(t, "patch"))
      \/ \E code \in {207, 400, 404} : Step(t, Reply(t, code))
  BY DEF Proppatch, Quiet
<1>3. CASE \E code \in {207, 400, 404} : Step(t, Reply(t, code))
  BY <1>1, <1>3, ReplyMoves, PatchesWait
<1>4. CASE Step(t, Goto(t, "patch"))
  <2>1. OnlyMoves(t) /\ job'[t].at = "patch" /\ job'[t].req = Req(t) /\ job'[t].k = 0
    BY <1>1, <1>4, GotoMoves DEF Stage
  <2>2. Here(t)' = Here(t)
    BY <2>1 DEF Here, Req
  <2>3. \A u \in Thread \ {t} :
          job'[u].at = job[u].at /\ Here(u)' = Here(u)
    BY <2>1 DEF OnlyMoves, Here, Req
  <2>4. Unpatched(Here(t))
    <3> SUFFICES ASSUME NEW u \in Thread, job[u].at = "patch", Here(u) = Here(t)
                 PROVE  FALSE
      BY DEF Unpatched
    <3>1. u # t
      BY <1>1
    <3>2. job'[u].at = "patch" /\ Here(u)' = Here(t)'
      BY <2>2, <2>3, <3>1
    <3> QED
      BY <2>1, <3>1, <3>2 DEF NoPatchRace
  <2>5. Settled(Here(t))
    BY <1>1, <2>4 DEF PatchInv
  <2>6. Patching(t)'
    BY <1>1, <2>1, <2>2, <2>5 DEF Patching, Settled, Named, Twins
  <2>7. ASSUME NEW u \in Thread
        PROVE  Patching(u)'
    <3>1. CASE u = t
      BY <2>6, <3>1
    <3>2. CASE u # t
      BY <1>1, <2>1, <3>2, PatchWaits DEF PatchInv, OnlyMoves
    <3> QED
      BY <3>1, <3>2
  <2>8. ASSUME NEW p \in Path, Unpatched(p)'
        PROVE  Settled(p)'
    <3>1. Unpatched(p)
      BY <1>1, <2>3, <2>8 DEF Unpatched
    <3> QED
      BY <1>1, <3>1 DEF PatchInv, Settled, Twins
  <2> QED
    BY <2>7, <2>8 DEF PatchInv
<1> QED
  BY <1>2, <1>3, <1>4

\* An update changes neither those made before it, for they name other
\* properties, nor what another request is updating, which is elsewhere.
LEMMA PatchGoesOn ==
  ASSUME NamedOnce, WebDavInv, PatchInv, NoPatchRace, NEW t \in Thread, PatchOne(t)
  PROVE  PatchInv'
<1> DEFINE p == Here(t)
           a == Req(t).actions
           k == job[t].k
           one == a[k + 1]
           j == [job[t] EXCEPT !.k = k + 1]
<1>1. /\ job[t].at = "patch" /\ k < Len(a)
      /\ props' = [props EXCEPT ![p][one.prop] = one.val]
      /\ Step(t, j)
  BY DEF PatchOne
<1>2. /\ Typed /\ Req(t) \in Request /\ p \in Path /\ k \in Nat /\ Len(a) \in Nat
      /\ job[t] \in Job
  BY <1>1, Underway
<1>3. k + 1 \in Nat /\ k + 1 \in 1..Len(a) /\ 1..k \subseteq 1..Len(a)
      /\ 1..(k + 1) = (1..k) \cup {k + 1} /\ k + 1 \notin 1..k
  BY <1>1, <1>2
<1>4. one.prop \in Prop
  <2>1. a \in Seq([prop: Prop, val: Val \cup {None}])
    BY <1>2, RequestFacts
  <2>2. one \in [prop: Prop, val: Val \cup {None}]
    BY <1>3, <2>1, ElementOfSeq
  <2> QED
    BY <2>2
<1>5. j \in Job /\ j.at = "patch" /\ j.req = Req(t) /\ j.k = k + 1
  BY <1>1, <1>2, <1>3, Counted DEF Req
<1> HIDE DEF j
<1>6. OnlyMoves(t) /\ job'[t].at = "patch" /\ job'[t].req = Req(t) /\ job'[t].k = k + 1
  BY <1>1, <1>2, <1>5, StepOnlyMoves
<1>7. Here(t)' = p /\ Req(t)' = Req(t)
  BY <1>6 DEF Here, Req
<1>8. /\ \A q \in Path \ {p} : props'[q] = props[q]
      /\ props'[p][one.prop] = one.val
      /\ \A x \in Prop \ {one.prop} : props'[p][x] = props[p][x]
  BY <1>1, <1>2, <1>4 DEF Typed
<1>9. \A i \in 1..k : a[i].prop # one.prop
  BY <1>2, <1>3 DEF NamedOnce
<1>10. \A i \in 1..k : a[i].prop \in Prop
  <2>1. a \in Seq([prop: Prop, val: Val \cup {None}])
    BY <1>2, RequestFacts
  <2>2. \A i \in 1..k : a[i] \in [prop: Prop, val: Val \cup {None}]
    BY <1>3, <2>1, ElementOfSeq
  <2> QED
    BY <2>2
<1>11. /\ \A i \in 1..k : props[p][a[i].prop] = a[i].val
       /\ \A x, y \in Prop :
            Twins(x, y) /\ ~Named(x, a, k) /\ ~Named(y, a, k) => props[p][x] = props[p][y]
  BY <1>1 DEF PatchInv, Patching
<1> HIDE DEF p, a, k
<1>12. \A i \in 1..(k + 1) : props'[p][a[i].prop] = a[i].val
  <2>1. \A i \in 1..k : props'[p][a[i].prop] = a[i].val
    BY <1>8, <1>9, <1>10, <1>11
  <2> QED
    BY <1>3, <1>8, <2>1
<1>13. ASSUME NEW x \in Prop, NEW y \in Prop, Twins(x, y), ~Named(x, a, k + 1),
              ~Named(y, a, k + 1)
       PROVE  props'[p][x] = props'[p][y]
  <2>1. x # one.prop /\ y # one.prop /\ ~Named(x, a, k) /\ ~Named(y, a, k)
    BY <1>3, <1>13 DEF Named
  <2> QED
    BY <1>8, <1>11, <1>13, <2>1
<1>14. Patching(t)'
  <2>1. Req(t)'.actions = a /\ job'[t].k = k + 1 /\ props'[Here(t)'] = props'[p]
    BY <1>6, <1>7 DEF a
  <2> HIDE DEF one
  <2> QED
    BY <1>12, <1>13, <2>1 DEF Patching, Twins, Named
<1>15. ASSUME NEW u \in Thread
       PROVE  Patching(u)'
  <2>1. CASE u = t
    BY <1>14, <2>1
  <2>2. CASE u # t
    <3>1. job[u].at = "patch" => Here(u) \in Path \ {p}
      BY <1>1, <2>2, Underway DEF NoPatchRace, p
    <3>2. job[u].at = "patch" => props'[Here(u)] = props[Here(u)]
      BY <1>8, <3>1
    <3> QED
      BY <1>6, <2>2, <3>2, PatchWaits DEF PatchInv, OnlyMoves
  <2> QED
    BY <2>1, <2>2
<1>16. ASSUME NEW q \in Path, Unpatched(q)'
       PROVE  Settled(q)'
  <2>1. q # p
    BY <1>6, <1>7, <1>16 DEF Unpatched
  <2>2. Unpatched(q)
    <3> SUFFICES ASSUME NEW u \in Thread, job[u].at = "patch"
                 PROVE  Here(u) # q
      BY DEF Unpatched
    <3>1. job'[u].at = "patch" /\ Here(u)' = Here(u)
      BY <1>6, <1>7 DEF OnlyMoves, Here, Req, p
    <3> QED
      BY <1>16, <3>1 DEF Unpatched
  <2> QED
    BY <1>8, <2>1, <2>2 DEF PatchInv, Settled, Twins
<1> QED
  BY <1>15, <1>16 DEF PatchInv

\* After the last update, two properties that a request sets together have its
\* value, or it names neither of them.
LEMMA PatchEnds ==
  ASSUME WebDavInv, PatchInv, NEW t \in Thread, Patched(t)
  PROVE  PatchInv'
<1> DEFINE p == Here(t)
           a == Req(t).actions
<1>1. job[t].at = "patch" /\ job[t].k = Len(a) /\ props' = props /\ Step(t, Reply(t, 207))
  BY DEF Patched, Quiet
<1>2. Typed /\ Req(t) \in Request /\ Len(a) \in Nat /\ a \in Seq([prop: Prop, val: Val \cup {None}])
  BY <1>1, Underway, RequestFacts
<1>3. OnlyMoves(t) /\ job'[t].at = "done"
  BY <1>1, <1>2, ReplyMoves
<1>4. /\ \A i \in 1..Len(a) : props[p][a[i].prop] = a[i].val
      /\ \A x, y \in Prop :
           Twins(x, y) /\ ~Named(x, a, Len(a)) /\ ~Named(y, a, Len(a)) => props[p][x] = props[p][y]
  BY <1>1 DEF PatchInv, Patching
<1>5. ASSUME NEW x \in Prop, NEW y \in Prop, Twins(x, y), Named(x, a, Len(a))
      PROVE  props[p][x] = props[p][y]
  <2>1. PICK i \in 1..Len(a) : a[i].prop = x
    BY <1>5 DEF Named
  <2>2. a[i] \in [prop: Prop, val: Val \cup {None}]
    BY <1>2, <2>1, ElementOfSeq
  <2>3. a[i] = [prop |-> x, val |-> a[i].val] /\ a[i].val \in Val \cup {None}
    BY <2>1, <2>2
  <2>4. a[i] \in ToSet(a)
    BY <1>2 DEF ToSet
  <2>5. [prop |-> y, val |-> a[i].val] \in ToSet(a)
    BY <1>2, <1>5, <2>3, <2>4 DEF Twins
  <2>6. PICK m \in 1..Len(a) : a[m] = [prop |-> y, val |-> a[i].val]
    BY <1>2, <2>5 DEF ToSet
  <2>7. props[p][x] = a[i].val /\ props[p][y] = a[i].val
    BY <1>4, <2>1, <2>6
  <2> QED
    BY <2>7
<1>6. Settled(p)
  <2> SUFFICES ASSUME NEW x \in Prop, NEW y \in Prop, Twins(x, y)
               PROVE  props[p][x] = props[p][y]
    BY DEF Settled
  <2>1. Twins(y, x)
    BY DEF Twins
  <2> QED
    BY <1>4, <1>5, <2>1
<1> HIDE DEF p, a
<1>7. ASSUME NEW u \in Thread
      PROVE  Patching(u)'
  <2>1. CASE u = t
    BY <1>3, <2>1 DEF Patching
  <2>2. CASE u # t
    BY <1>1, <1>3, <2>2, PatchWaits DEF PatchInv, OnlyMoves
  <2> QED
    BY <2>1, <2>2
<1>8. ASSUME NEW q \in Path, Unpatched(q)'
      PROVE  Settled(q)'
  <2>1. CASE q = p
    BY <1>1, <1>6, <2>1 DEF Settled, Twins
  <2>2. CASE q # p
    <3>1. Unpatched(q)
      <4> SUFFICES ASSUME NEW u \in Thread, job[u].at = "patch"
                   PROVE  Here(u) # q
        BY DEF Unpatched
      <4>1. CASE u = t
        BY <2>2, <4>1 DEF p
      <4>2. CASE u # t
        BY <1>3, <1>8, <4>2 DEF OnlyMoves, Unpatched, Here, Req
      <4> QED
        BY <4>1, <4>2
    <3> QED
      BY <1>1, <3>1 DEF PatchInv, Settled, Twins
  <2> QED
    BY <2>1, <2>2
<1> QED
  BY <1>7, <1>8 DEF PatchInv

\* DELETE takes all the properties, of a resource that no request is updating.
LEMMA PatchForgets ==
  ASSUME WebDavInv, PatchInv, NoPatchRace, NEW t \in Thread, Forget(t)
  PROVE  PatchInv'
<1> DEFINE p == Here(t)
<1>1. /\ job[t].at = "forget" /\ props' = [props EXCEPT ![p] = NoProps]
      /\ Step(t, Reply(t, 204))
  BY DEF Forget
<1>2. Typed /\ p \in Path
  BY <1>1, Underway
<1>3. OnlyMoves(t) /\ job'[t].at = "done"
  BY <1>1, <1>2, ReplyMoves
<1>4. props'[p] = NoProps /\ \A q \in Path \ {p} : props'[q] = props[q]
  BY <1>1, <1>2 DEF Typed
<1>5. ASSUME NEW u \in Thread
      PROVE  /\ job'[u].at = "patch" => job[u].at = "patch"
             /\ job[u].at = "patch" => /\ job'[u].at = "patch" /\ Here(u)' = Here(u)
                                       /\ Here(u) \in Path \ {p}
             /\ Patching(u)'
  <2>1. CASE u = t
    BY <1>1, <1>3, <2>1 DEF Patching
  <2>2. CASE u # t
    <3>1. job'[u].at = job[u].at /\ job'[u].req = job[u].req /\ job'[u].k = job[u].k
          /\ Here(u)' = Here(u)
      BY <1>3, <2>2 DEF OnlyMoves, Here, Req
    <3>2. job[u].at = "patch" => Here(u) \in Path \ {p}
      BY <1>1, <2>2, Underway DEF NoPatchRace
    <3>3. job[u].at = "patch" => props'[Here(u)] = props[Here(u)]
      BY <1>4, <3>2
    <3> QED
      BY <3>1, <3>2, <3>3, PatchWaits DEF PatchInv
  <2> QED
    BY <2>1, <2>2
<1> HIDE DEF p
<1>6. ASSUME NEW q \in Path, Unpatched(q)'
      PROVE  Settled(q)'
  <2>1. CASE q = p
    BY <1>4, <2>1 DEF Settled, Twins, NoProps
  <2>2. CASE q # p
    <3>1. Unpatched(q)
      BY <1>5, <1>6 DEF Unpatched
    <3> QED
      BY <1>4, <2>2, <3>1 DEF PatchInv, Settled, Twins
  <2> QED
    BY <2>1, <2>2
<1> QED
  BY <1>5, <1>6 DEF PatchInv

LEMMA InitPatchInv == WebDavInit => PatchInv
<1> SUFFICES ASSUME WebDavInit
             PROVE  PatchInv
  OBVIOUS
<1>1. props = [p \in Path |-> NoProps] /\ \A t \in Thread : job[t].at = "idle"
  BY DEF WebDavInit, Idle
<1> QED
  BY <1>1 DEF PatchInv, Settled, Patching, NoProps

LEMMA NextPatchInv ==
  ASSUME NamedOnce, WebDavInv, PatchInv, NoPatchRace, NoPatchRace', [WebDavNext]_wvars
  PROVE  PatchInv'
<1>1. CASE UNCHANGED wvars
  BY <1>1 DEF wvars, PatchInv, Unpatched, Settled, Patching, Twins, Named, Here, Req
<1>2. ASSUME NEW t \in Thread,
             \/ \E r \in Request : Receive(t, r)
             \/ Refuse(t) \/ CopyMove(t) \/ Look(t) \/ Read(t)
             \/ Put(t) \/ Open(t) \/ Write(t) \/ UploadFails(t) \/ Tag(t)
             \/ Delete(t) \/ RemovePath(t) \/ RemoveFails(t) \/ Forget(t)
             \/ Mkcol(t) \/ MakeDir(t)
             \/ Proppatch(t) \/ PatchOne(t) \/ Patched(t)
      PROVE  PatchInv'
  BY <1>2, ReceiveMoves, OthersMove, PatchesWait, PatchForgets, PatchBegins, PatchGoesOn,
     PatchEnds
<1> QED
  BY <1>1, <1>2 DEF WebDavNext

\* "in a single atomic action": if each request names a property once, and no
\* two requests are at the properties of one resource at once, then the updates
\* of any number of requests are never mixed: the race is the only cause.
THEOREM PatchesDoNotMix ==
  ASSUME NamedOnce
  PROVE  WebDavSpec /\ []NoPatchRace => []PatchAtomic
<1>1. WebDavInv /\ PatchInv /\ NoPatchRace /\ NoPatchRace' /\ [WebDavNext]_wvars => PatchInv'
  BY NextPatchInv
<1>2. PatchInv => PatchAtomic
  BY DEF PatchInv, Unpatched, Settled, PatchAtomic
<1> QED
  BY <1>1, <1>2, InitPatchInv, WebDavInvariant, PTL DEF WebDavSpec
=============================================================================
