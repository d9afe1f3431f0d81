--------------------------- MODULE ReleaseHelper ---------------------------
(***************************************************************************)
(* The release publisher (internal/releasegithub/main.go): each run of it  *)
(* makes a fixed sequence of HTTP calls to GitHub, replacing the assets of *)
(* a release one by one, and gives up at the first error.  Runs for one    *)
(* tag follow each other, as the concurrency group of the release workflow *)
(* imposes; a run can be cancelled or time out at any point, and a request *)
(* it has sent can still take effect after that, during the runs that      *)
(* follow.  The service is external: it is modelled by the answers the     *)
(* code expects of it.                                                     *)
(***************************************************************************)
EXTENDS Integers, Sequences, FiniteSets, Functions

CONSTANTS
    NRuns,     \* bound: runs of the publisher for one tag, one after the other
    Files,     \* the names of the assets each run publishes, in its argument order
    Noted,     \* the runs called with -generate-notes
    PageSize   \* assets in one answer of the list call, 100 in the code

Runs == 1 .. NRuns

ASSUME ReleaseAssumption ==
    /\ NRuns \in Nat
    /\ DOMAIN Files = Runs
    /\ \A r \in Runs : Files[r] \in Seq(STRING) /\ Len(Files[r]) > 0
    /\ \A r \in Runs : IsInjective(Files[r])
    /\ Noted \subseteq Runs
    /\ PageSize \in Nat \ {0}

VARIABLES
    pc,          \* pc[r]: "idle", the call r waits for, "done" or "failed"
    file,        \* file[r]: index in Files[r] of the asset being replaced
    assetByName, \* assetByName[r]: asset ids by name, as listed once by r
    reply,       \* reply[r]: the answer r has yet to read, or NoReply
    net,         \* requests sent and not yet served or lost
    release,     \* the run whose metadata the release has, 0 when there is none
    assets,      \* the assets of the release; by is the run whose content it is
    nextId       \* id of the next asset

\* What nobody keeps: whether a run met a failure or a request of an earlier run,
\* and the names that have been published at some time.
VARIABLES disturbed, published

client  == <<pc, file, assetByName, reply>>
service == <<release, assets>>
history == <<disturbed, published>>
vars == <<client, net, service, nextId, history>>

Calls   == {"notes", "tag", "create", "update", "list", "delete", "upload"}
NoReply == [status |-> 0, listed |-> {}]
Name(r) == Files[r][file[r]]
Names   == UNION {Range(Files[r]) : r \in Runs}

Answer(status, listed) == [status |-> status, listed |-> listed]

Ended(r)  == pc[r] \in {"done", "failed"}
Active(r) == pc[r] \in Calls
Latest(r) == pc[r] # "idle" /\ \A s \in Runs : s > r => pc[s] = "idle"

-----------------------------------------------------------------------------
Init ==
    /\ pc = [r \in Runs |-> "idle"]
    /\ file = [r \in Runs |-> 1]
    /\ assetByName = [r \in Runs |-> <<>>]
    /\ reply = [r \in Runs |-> NoReply]
    /\ net = {}
    /\ release = 0 /\ assets = {} /\ nextId = 1
    /\ disturbed = {} /\ published = {}

(* The client: every step reads one answer and sends the next request. *)

Send(r, call, arg) ==
    /\ pc' = [pc EXCEPT ![r] = call]
    /\ net' = net \cup {[run |-> r, call |-> call, arg |-> arg]}

Stop(r, result) == pc' = [pc EXCEPT ![r] = result] /\ UNCHANGED net

\* Mutant: the index is that of the next file already
ReplaceFileAhead(r, k, ids) ==
    /\ file' = [file EXCEPT ![r] = k + 1]
    /\ IF k > Len(Files[r]) THEN Stop(r, "done")
       ELSE IF Files[r][k] \in DOMAIN ids THEN Send(r, "delete", ids[Files[r][k]])
       ELSE Send(r, "upload", Files[r][k])

\* The loop over the files, from file k on: an asset of that name is deleted
\* first, if the list had one.
ReplaceFile(r, k, ids) ==
    /\ file' = [file EXCEPT ![r] = k]
    /\ IF k > Len(Files[r]) THEN Stop(r, "done")
       ELSE IF Files[r][k] \in DOMAIN ids THEN Send(r, "delete", ids[Files[r][k]])
       ELSE Send(r, "upload", Files[r][k])

Receive(r, call) ==
    /\ pc[r] = call /\ reply[r] # NoReply
    /\ reply' = [reply EXCEPT ![r] = NoReply]
    /\ UNCHANGED <<service, nextId, history>>

Start(r) ==
    /\ pc[r] = "idle"
    /\ \A s \in Runs : s < r => Ended(s)
    /\ IF r \in Noted THEN Send(r, "notes", 0) ELSE Send(r, "tag", 0)
    /\ disturbed' = IF net = {} THEN disturbed ELSE disturbed \cup {r}
    /\ UNCHANGED <<file, assetByName, reply, service, nextId, published>>

ReceiveNotes(r) ==
    /\ Receive(r, "notes")
    /\ IF reply[r].status = 200 THEN Send(r, "tag", 0) ELSE Stop(r, "failed")
    /\ UNCHANGED <<file, assetByName>>

\* Mutant: an existing release is left as it is
ReceiveTagKept(r) ==
    /\ Receive(r, "tag")
    /\ IF reply[r].status = 404 THEN Send(r, "create", 0) ELSE Send(r, "list", 0)
    /\ UNCHANGED <<file, assetByName>>

\* Mutant: the release is created without looking whether there is one
ReceiveTagCreate(r) ==
    /\ Receive(r, "tag")
    /\ Send(r, "create", 0)
    /\ UNCHANGED <<file, assetByName>>

ReceiveTag(r) ==
    /\ Receive(r, "tag")
    /\ IF reply[r].status = 404 THEN Send(r, "create", 0) ELSE Send(r, "update", 0)
    /\ UNCHANGED <<file, assetByName>>

ReceiveCreated(r) ==
    /\ Receive(r, "create")
    /\ IF reply[r].status = 201 THEN Send(r, "list", 0) ELSE Stop(r, "failed")
    /\ UNCHANGED <<file, assetByName>>

ReceiveUpdated(r) ==
    /\ Receive(r, "update")
    /\ IF reply[r].status = 200 THEN Send(r, "list", 0) ELSE Stop(r, "failed")
    /\ UNCHANGED <<file, assetByName>>

ReceiveAssets(r) ==
    /\ Receive(r, "list")
    /\ LET listed == reply[r].listed
           ids == [n \in {a.name : a \in listed} |-> (CHOOSE a \in listed : a.name = n).id]
       IN  /\ assetByName' = [assetByName EXCEPT ![r] = ids]
           /\ ReplaceFile(r, 1, ids)

\* Mutant: the loop goes on without the upload
ReceiveDeletedOnly(r) ==
    /\ Receive(r, "delete")
    /\ IF reply[r].status = 204 THEN ReplaceFile(r, file[r] + 1, assetByName[r])
       ELSE Stop(r, "failed") /\ UNCHANGED file
    /\ UNCHANGED assetByName

ReceiveDeleted(r) ==
    /\ Receive(r, "delete")
    /\ IF reply[r].status = 204 THEN Send(r, "upload", Name(r)) ELSE Stop(r, "failed")
    /\ UNCHANGED <<file, assetByName>>

\* Mutant: the answer to an upload is not looked at
ReceiveUploadedBlind(r) ==
    /\ Receive(r, "upload")
    /\ ReplaceFile(r, file[r] + 1, assetByName[r])
    /\ UNCHANGED assetByName

ReceiveUploaded(r) ==
    /\ Receive(r, "upload")
    /\ IF reply[r].status = 201 THEN ReplaceFile(r, file[r] + 1, assetByName[r])
       ELSE Stop(r, "failed") /\ UNCHANGED file
    /\ UNCHANGED assetByName

\* Mutant: an HTTP client without a timeout
NoTimeOut(r) == FALSE

\* The client's timeout, and any other error of a call: the run fails, and the
\* request it waited for may have been served, be served later, or be lost.
TimeOut(r) ==
    /\ Active(r) /\ reply[r] = NoReply
    /\ pc' = [pc EXCEPT ![r] = "failed"]
    /\ disturbed' = disturbed \cup {r}
    /\ UNCHANGED <<file, assetByName, reply, net, service, nextId, published>>

\* cancel-in-progress: the run is killed, also between two calls
Cancel(r) ==
    /\ Active(r)
    /\ pc' = [pc EXCEPT ![r] = "failed"]
    /\ reply' = [reply EXCEPT ![r] = NoReply]
    /\ disturbed' = disturbed \cup {r}
    /\ UNCHANGED <<file, assetByName, net, service, nextId, published>>

ClientStep(r) ==
    \/ ReceiveNotes(r) \/ ReceiveTag(r) \/ ReceiveCreated(r) \/ ReceiveUpdated(r)
    \/ ReceiveAssets(r) \/ ReceiveDeleted(r) \/ ReceiveUploaded(r) \/ TimeOut(r)

-----------------------------------------------------------------------------
(* The service: it serves the requests in any order, also those of a run    *)
(* that has ended, whose answer nobody reads.                               *)

Serve(q, call, answer) ==
    /\ q \in net /\ q.call = call
    /\ net' = net \ {q}
    /\ reply' = IF pc[q.run] = call THEN [reply EXCEPT ![q.run] = answer] ELSE reply
    /\ UNCHANGED <<pc, file, assetByName, disturbed>>

ServeNotes(q) ==
    /\ Serve(q, "notes", Answer(200, {}))
    /\ UNCHANGED <<service, nextId, published>>

ServeTag(q) ==
    /\ Serve(q, "tag", Answer(IF release = 0 THEN 404 ELSE 200, {}))
    /\ UNCHANGED <<service, nextId, published>>

\* A tag has one release: a second creation is refused
ServeCreate(q) ==
    /\ Serve(q, "create", Answer(IF release = 0 THEN 201 ELSE 422, {}))
    /\ release' = IF release = 0 THEN q.run ELSE release
    /\ UNCHANGED <<assets, nextId, published>>

ServeUpdate(q) ==
    /\ Serve(q, "update", Answer(200, {}))
    /\ release' = q.run
    /\ UNCHANGED <<assets, nextId, published>>

\* One page, of the oldest assets
FirstPage == {a \in assets : Cardinality({b \in assets : b.id < a.id}) < PageSize}

ServeList(q) ==
    /\ Serve(q, "list", Answer(200, FirstPage))
    /\ UNCHANGED <<service, nextId, published>>

ServeDelete(q) ==
    LET found == {a \in assets : a.id = q.arg}
    IN  /\ Serve(q, "delete", Answer(IF found = {} THEN 404 ELSE 204, {}))
        /\ assets' = assets \ found
        /\ UNCHANGED <<release, nextId, published>>

\* A release has one asset of a name: a second upload is refused
ServeUpload(q) ==
    LET taken == \E a \in assets : a.name = q.arg
    IN  /\ Serve(q, "upload", Answer(IF taken THEN 422 ELSE 201, {}))
        /\ IF taken THEN UNCHANGED <<assets, nextId, published>>
           ELSE /\ assets' = assets \cup {[id |-> nextId, name |-> q.arg, by |-> q.run]}
                /\ nextId' = nextId + 1
                /\ published' = published \cup {q.arg}
        /\ UNCHANGED release

Lose(q) ==
    /\ q \in net /\ pc[q.run] # q.call
    /\ net' = net \ {q}
    /\ UNCHANGED <<client, service, nextId, history>>

ServiceStep(q) ==
    \/ ServeNotes(q) \/ ServeTag(q) \/ ServeCreate(q) \/ ServeUpdate(q) \/ ServeList(q)
    \/ ServeDelete(q) \/ ServeUpload(q) \/ Lose(q)

Next == \/ \E r \in Runs : Start(r) \/ ClientStep(r) \/ Cancel(r)
        \/ \E q \in net : ServiceStep(q)

\* The publisher is a sequential program whose HTTP client has a timeout, so it
\* always takes its next step; nothing is assumed of the service, of the order
\* in which it serves, or of when a run is started.
Fairness == \A r \in Runs : WF_vars(ClientStep(r))

Spec == Init /\ [][Next]_vars /\ Fairness

-----------------------------------------------------------------------------
\* The ids a run holds are of assets that existed, and no two assets of the release
\* share a name or an id, on which the replacement by name rests.
TypeOK ==
    /\ pc \in [Runs -> Calls \cup {"idle", "done", "failed"}]
    /\ \A r \in Runs : file[r] \in 1 .. Len(Files[r]) + 1
    /\ \A r \in Runs : \A n \in DOMAIN assetByName[r] : assetByName[r][n] < nextId
    /\ \A q \in net : q.run \in Runs /\ q.call \in Calls
    /\ release \in Runs \cup {0}
    /\ \A a \in assets : a.id < nextId /\ a.name \in Names /\ a.by \in Runs
    /\ \A a, b \in assets : a.name = b.name \/ a.id = b.id => a = b
    /\ disturbed \subseteq Runs /\ published \subseteq Names

\* After a run has reported success and until the next one starts, the release
\* holds that run's content under each of its names, whatever requests of
\* earlier, abandoned runs are still served.  (main.go run)
PublishedIsComplete ==
    \A r \in Runs : pc[r] = "done" /\ Latest(r) =>
        \A n \in Range(Files[r]) : \E a \in assets : a.name = n /\ a.by = r

\* The metadata shown is that of the last run that reported success, if no
\* request of an earlier run was left in flight when it started.
MetadataIsCurrent ==
    \A r \in Runs : pc[r] = "done" /\ Latest(r) /\ r \notin disturbed => release = r

\* Assets are replaced one by one: a run that fails, or is replaced by another,
\* costs the release at most one asset it once had.  (main.go run, the loop that
\* deletes and uploads)
Lost == published \ {a.name : a \in assets}
FailureCostsOneAsset ==
    Cardinality(Lost) <= Cardinality({r \in Runs : Active(r) \/ pc[r] = "failed"})

\* A run that times out on no call, is not cancelled and starts when nothing is in
\* flight succeeds: whatever state earlier failures left the release in, a rerun
\* repairs it.  ("Pushes to `main` publish or update the `nightly` prerelease",
\* RELEASE.md)
RerunRepairs == \A r \in Runs : pc[r] = "failed" => r \in disturbed

\* A run never hangs, even if the service never answers: it ends by success or by
\* failure.  (newHTTPClient, the 90 second timeout)
Terminates == \A r \in Runs : Active(r) ~> Ended(r)
=============================================================================
