--------------------------- MODULE ReleaseProofs ---------------------------
(***************************************************************************)
(* The release publisher, for any number of runs, files and assets, and    *)
(* any size of a page: what a run that reported success has published, and *)
(* what the failures of others can cost, whichever requests of dead runs   *)
(* are served late.                                                        *)
(***************************************************************************)
EXTENDS ReleaseHelper, FiniteSetTheorems, TLAPS

-----------------------------------------------------------------------------
(* The inductive invariant. *)

\* A run that has not read the list of assets yet
Before == {"idle", "notes", "tag", "create", "update", "list"}

TypeInv ==
    /\ pc \in [Runs -> Calls \cup {"idle", "done", "failed"}]
    /\ file \in [Runs -> Nat \ {0}]
    /\ \A r \in Runs : file[r] <= Len(Files[r]) + (IF pc[r] = "done" THEN 1 ELSE 0)
    /\ assetByName = [r \in Runs |-> assetByName[r]] /\ reply = [r \in Runs |-> reply[r]]
    /\ nextId \in Nat
    /\ \A r \in Runs : \A n \in DOMAIN assetByName[r] : assetByName[r][n] \in Nat /\ assetByName[r][n] < nextId
    /\ \A r \in Runs : \A a \in reply[r].listed : a.id \in Nat /\ a.id < nextId
    /\ \A a \in assets : a.id \in Nat /\ a.id < nextId /\ a.name \in Names /\ a.by \in Runs
    /\ \A q \in net : q.run \in Runs /\ q.call \in Calls
    /\ release \in Runs \cup {0}
    /\ disturbed \subseteq Runs /\ published \subseteq Names

UniqueInv == \A a, b \in assets : a.name = b.name \/ a.id = b.id => a = b

\* Runs follow each other
OrderInv == \A r, s \in Runs : s < r /\ pc[r] # "idle" => Ended(s)

\* An active run waits for the answer to one request; a failed run leaves at most that
NetInv ==
    /\ \A q \in net :
         /\ pc[q.run] \in {q.call, "failed"}
         /\ Active(q.run) => reply[q.run] = NoReply
         /\ q.call = "upload" => q.arg = Name(q.run)
    /\ \A p, q \in net : p.run = q.run => p = q
    /\ \A r \in Runs : pc[r] = "idle" => reply[r] = NoReply

\* Ids grow: what a run may delete is older than all it uploads, and has the name
\* of the file the run replaces
DeleteInv ==
    /\ \A q \in net : q.call = "delete" =>
         /\ q.arg \in Nat /\ q.arg < nextId
         /\ \A a \in assets : /\ a.by >= q.run => q.arg < a.id
                              /\ a.id = q.arg => a.name = Name(q.run)
    /\ \A r \in Runs : \A n \in DOMAIN assetByName[r] : \A a \in assets :
         /\ a.by >= r => assetByName[r][n] < a.id
         /\ a.id = assetByName[r][n] => a.name = n

\* Nothing is uploaded before the list is read, and the list names assets by id
FreshInv ==
    \A r \in Runs : pc[r] \in Before =>
        /\ \A a \in assets : a.by < r
        /\ \A q \in net : q.call = "upload" => q.run < r
        /\ \A x \in reply[r].listed : \A a \in assets : a.id = x.id => a.name = x.name

Has(r, n) == \E a \in assets : a.name = n /\ a.by = r

\* The latest run has published the files before the one it replaces
ProgressInv ==
    \A r \in Runs : Latest(r) =>
        /\ pc[r] \in {"delete", "upload", "done"} => \A k \in Nat : 1 <= k /\ k < file[r] => Has(r, Files[r][k])
        /\ pc[r] = "done" => file[r] = Len(Files[r]) + 1
        /\ pc[r] = "upload" /\ reply[r].status = 201 => Has(r, Name(r))

\* The latest run, undisturbed, is alone, and the metadata are its own once written
MetadataInv ==
    \A r \in Runs : Latest(r) /\ r \notin disturbed =>
        /\ \A q \in net : q.run = r
        /\ \/ pc[r] \in {"list", "delete", "upload", "done"}
           \/ pc[r] = "create" /\ reply[r].status = 201
           \/ pc[r] = "update" /\ reply[r].status = 200
           => release = r

\* An asset that is missing is the one some run was replacing when it failed
Costs == {r \in Runs : Active(r) \/ pc[r] = "failed"}
LostInv ==
    /\ \A n \in Lost : \E r \in Costs : n = Name(r)
    /\ \A r \in Runs : pc[r] \in Before => file[r] = 1

Inv == /\ TypeInv /\ UniqueInv /\ OrderInv /\ NetInv /\ DeleteInv
       /\ FreshInv /\ ProgressInv /\ MetadataInv /\ LostInv

LEMMA InitInv == Init => Inv
<1> SUFFICES ASSUME Init PROVE Inv
  OBVIOUS
<1>0. /\ Runs \subseteq Nat \ {0} /\ NRuns \in Nat
      /\ \A r \in Runs : Len(Files[r]) \in Nat /\ Len(Files[r]) > 0
  BY ReleaseAssumption DEF Runs
<1>1. \A r \in Runs : pc[r] = "idle" /\ file[r] = 1 /\ reply[r] = NoReply /\ DOMAIN assetByName[r] = {}
  BY DEF Init
<1>2. net = {} /\ assets = {} /\ published = {} /\ disturbed = {}
  BY DEF Init
<1>3. TypeInv
  <2>1. assetByName = [r \in Runs |-> assetByName[r]] /\ reply = [r \in Runs |-> reply[r]]
    BY DEF Init
  <2> QED
    BY <1>0, <1>1, <1>2, <2>1 DEF Init, TypeInv, NoReply, Names
<1>4. UniqueInv /\ OrderInv /\ NetInv /\ DeleteInv
  BY <1>0, <1>1, <1>2 DEF UniqueInv, OrderInv, NetInv, DeleteInv
<1>5. FreshInv
  BY <1>1, <1>2 DEF FreshInv
<1>6. ProgressInv /\ MetadataInv
  BY <1>1 DEF ProgressInv, MetadataInv, Latest
<1>7. LostInv
  BY <1>1, <1>2 DEF LostInv, Lost
<1> QED
  BY <1>3, <1>4, <1>5, <1>6, <1>7 DEF Inv

-----------------------------------------------------------------------------
(* The client. *)

\* Ids that the latest run may delete: older than all it uploads, and named
RightIds(r, ids) ==
    \A n \in DOMAIN ids :
        /\ ids[n] \in Nat /\ ids[n] < nextId
        /\ \A a \in assets : a.by >= r => ids[n] < a.id
        /\ \A a \in assets : a.id = ids[n] => a.name = n

\* A run that has read an answer goes on with call c and the request that belongs to
\* it, or stops; k is the file it is at from now on, ids the ids it knows.
Move(r, c, arg, k, ids) ==
    /\ Active(r) /\ reply[r] # NoReply
    /\ pc' = [pc EXCEPT ![r] = c]
    /\ net' = IF c \in Calls THEN net \cup {[run |-> r, call |-> c, arg |-> arg]} ELSE net
    /\ reply' = [reply EXCEPT ![r] = NoReply]
    /\ file' = [file EXCEPT ![r] = k]
    /\ assetByName' = [assetByName EXCEPT ![r] = ids]
    /\ UNCHANGED <<service, nextId, history>>

\* An active run is the latest, and when it has an answer to read no request of its is
\* in flight.
LEMMA ActiveIsLatest ==
    ASSUME TypeInv, OrderInv, NetInv, NEW r \in Runs, Active(r)
    PROVE  /\ Latest(r)
           /\ \A s \in Runs : s # r => pc[s] \in {"idle", "done", "failed"} /\ ~Latest(s)
           /\ reply[r] # NoReply => \A q \in net : q.run # r
<1>1. Runs \subseteq Nat
  BY ReleaseAssumption DEF Runs
<1>2. \A s \in Runs : s > r => pc[s] = "idle"
  BY <1>1 DEF OrderInv, Active, Ended, Calls
<1>3. \A s \in Runs : s < r => Ended(s)
  BY <1>1 DEF OrderInv, Active, Calls
<1>4. pc[r] # "idle"
  BY DEF Active, Calls
<1> QED
  BY <1>1, <1>2, <1>3, <1>4 DEF Latest, Ended, NetInv

LEMMA MoveType ==
    ASSUME Inv, NEW r \in Runs, NEW c \in Calls \cup {"done", "failed"}, NEW arg, NEW k \in Nat \ {0}, NEW ids,
           Move(r, c, arg, k, ids), RightIds(r, ids),
           k <= Len(Files[r]) + (IF c = "done" THEN 1 ELSE 0)
    PROVE  TypeInv' /\ UniqueInv' /\ OrderInv'
<1>1. TypeInv /\ UniqueInv /\ OrderInv /\ NetInv
  BY DEF Inv
<1>2. TypeInv'
  <2>1. \A s \in Runs : \A n \in DOMAIN assetByName'[s] :
           assetByName'[s][n] \in Nat /\ assetByName'[s][n] < nextId
    BY <1>1 DEF TypeInv, Move, RightIds
  <2>2. \A s \in Runs : \A a \in reply'[s].listed : a.id \in Nat /\ a.id < nextId
    BY <1>1 DEF TypeInv, Move, NoReply
  <2>3. \A s \in Runs : file'[s] <= Len(Files[s]) + (IF pc'[s] = "done" THEN 1 ELSE 0)
    BY <1>1 DEF TypeInv, Move
  <2>4. \A q \in net' : q.run \in Runs /\ q.call \in Calls
    BY <1>1 DEF TypeInv, Move
  <2>5. /\ pc' \in [Runs -> Calls \cup {"idle", "done", "failed"}]
        /\ file' \in [Runs -> Nat \ {0}]
        /\ assetByName' = [s \in Runs |-> assetByName'[s]]
        /\ reply' = [s \in Runs |-> reply'[s]]
    BY <1>1 DEF TypeInv, Move
  <2> QED
    BY <1>1, <2>1, <2>2, <2>3, <2>4, <2>5 DEF TypeInv, Move, service, history
<1>3. UniqueInv'
  BY <1>1 DEF UniqueInv, Move, service
<1>4. OrderInv'
  <2> SUFFICES ASSUME NEW s \in Runs, NEW t \in Runs, t < s, pc'[s] # "idle" PROVE Ended(t)'
    BY DEF OrderInv
  <2>1. pc[s] # "idle"
    BY <1>1 DEF Move, TypeInv, Active, Calls
  <2>2. Ended(t) /\ t # r
    BY <1>1, <2>1 DEF OrderInv, Ended, Move, Active, Calls
  <2> QED
    BY <1>1, <2>2 DEF Ended, Move, TypeInv
<1> QED
  BY <1>2, <1>3, <1>4

LEMMA MoveNet ==
    ASSUME Inv, NEW r \in Runs, NEW c \in Calls \cup {"done", "failed"}, NEW arg, NEW k \in Nat \ {0}, NEW ids,
           Move(r, c, arg, k, ids), RightIds(r, ids),
           c = "upload" => arg = Files[r][k],
           c = "delete" => Files[r][k] \in DOMAIN ids /\ arg = ids[Files[r][k]]
    PROVE  NetInv' /\ DeleteInv'
<1>1. TypeInv /\ OrderInv /\ NetInv /\ DeleteInv
  BY DEF Inv
<1>2. \A q \in net : q.run # r
  BY <1>1, ActiveIsLatest DEF Move
<1>3. \A q \in net : q.run \in Runs /\ pc'[q.run] = pc[q.run] /\ reply'[q.run] = reply[q.run]
                     /\ file'[q.run] = file[q.run]
  BY <1>1, <1>2 DEF Move, TypeInv
<1>4. pc'[r] = c /\ reply'[r] = NoReply /\ file'[r] = k
  BY <1>1 DEF Move, TypeInv
<1>5. \A q \in net' : q \in net \/ (q.run = r /\ q.call = c /\ q.arg = arg /\ c \in Calls)
  BY DEF Move
<1>6. NetInv'
  <2>1. \A q \in net' : /\ pc'[q.run] \in {q.call, "failed"}
                        /\ Active(q.run)' => reply'[q.run] = NoReply
                        /\ q.call = "upload" => q.arg = Name(q.run)'
    <3> SUFFICES ASSUME NEW q \in net'
                 PROVE  /\ pc'[q.run] \in {q.call, "failed"}
                        /\ Active(q.run)' => reply'[q.run] = NoReply
                        /\ q.call = "upload" => q.arg = Name(q.run)'
      OBVIOUS
    <3>1. CASE q \in net
      BY <1>1, <1>3, <3>1 DEF NetInv, Active, Name
    <3>2. CASE q.run = r /\ q.call = c /\ q.arg = arg
      BY <1>4, <3>2 DEF Active, Name
    <3> QED
      BY <1>5, <3>1, <3>2
  <2>2. \A p, q \in net' : p.run = q.run => p = q
    BY <1>1, <1>2 DEF NetInv, Move
  <2>3. \A s \in Runs : pc'[s] = "idle" => reply'[s] = NoReply
    BY <1>1, <1>4 DEF NetInv, Move, TypeInv
  <2> QED
    BY <2>1, <2>2, <2>3 DEF NetInv
<1>7. DeleteInv'
  <2>0. UNCHANGED <<assets, nextId>>
    BY DEF Move, service
  <2>1. ASSUME NEW q \in net', q.call = "delete"
        PROVE  /\ q.arg \in Nat /\ q.arg < nextId
               /\ \A a \in assets : /\ a.by >= q.run => q.arg < a.id
                                    /\ a.id = q.arg => a.name = Name(q.run)'
    <3>1. CASE q \in net
      BY <1>1, <1>3, <2>1, <3>1 DEF DeleteInv, Name
    <3>2. CASE q.run = r /\ q.call = c /\ q.arg = arg
      <4>1. Name(q.run)' = Files[r][k] /\ c = "delete"
        BY <1>4, <2>1, <3>2 DEF Name
      <4>2. /\ arg \in Nat /\ arg < nextId
            /\ \A a \in assets : (a.by >= r => arg < a.id) /\ (a.id = arg => a.name = Files[r][k])
        BY <4>1 DEF RightIds
      <4> QED
        BY <3>2, <4>1, <4>2
    <3> QED
      BY <1>5, <3>1, <3>2
  <2>2. ASSUME NEW s \in Runs, NEW n \in DOMAIN assetByName'[s], NEW a \in assets
        PROVE  /\ a.by >= s => assetByName'[s][n] < a.id
               /\ a.id = assetByName'[s][n] => a.name = n
    <3>1. CASE s = r
      <4>1. assetByName'[s] = ids
        BY <1>1, <3>1 DEF Move, TypeInv
      <4> QED
        BY <3>1, <4>1 DEF RightIds
    <3>2. CASE s # r
      <4>1. assetByName'[s] = assetByName[s]
        BY <1>1, <3>2 DEF Move, TypeInv
      <4> QED
        BY <1>1, <4>1 DEF DeleteInv
    <3> QED
      BY <3>1, <3>2
  <2> QED
    BY <2>0, <2>1, <2>2 DEF DeleteInv
<1> QED
  BY <1>6, <1>7

LEMMA MoveFresh ==
    ASSUME Inv, NEW r \in Runs, NEW c \in Calls \cup {"done", "failed"}, NEW arg, NEW k \in Nat \ {0}, NEW ids,
           Move(r, c, arg, k, ids),
           c \in Before => pc[r] \in Before /\ k = 1
    PROVE  FreshInv' /\ \A s \in Runs : pc'[s] \in Before => file'[s] = 1
<1>1. TypeInv /\ OrderInv /\ NetInv /\ FreshInv /\ LostInv /\ Runs \subseteq Nat
  BY ReleaseAssumption DEF Inv, Runs
<1>2. \A s \in Runs : s # r => pc'[s] = pc[s] /\ reply'[s] = reply[s] /\ file'[s] = file[s]
  BY <1>1 DEF Move, TypeInv
<1>3. pc'[r] = c /\ reply'[r] = NoReply /\ file'[r] = k
  BY <1>1 DEF Move, TypeInv
<1>4. UNCHANGED assets
  BY DEF Move, service
<1>5. ASSUME NEW s \in Runs, pc'[s] \in Before
      PROVE  /\ \A a \in assets : a.by < s
             /\ \A q \in net' : q.call = "upload" => q.run < s
             /\ \A x \in reply'[s].listed : \A a \in assets : a.id = x.id => a.name = x.name
             /\ file'[s] = 1
  <2>1. CASE s = r
    <3>1. c \in Before /\ c # "upload" /\ pc[r] \in Before
      BY <1>3, <1>5, <2>1 DEF Before
    <3>2. \A q \in net' : q.call = "upload" => q \in net
      BY <3>1 DEF Move
    <3> QED
      BY <1>1, <1>3, <2>1, <3>1, <3>2 DEF FreshInv, NoReply
  <2>2. CASE s # r
    <3>1. pc[s] \in Before /\ reply'[s] = reply[s] /\ file'[s] = file[s]
      BY <1>2, <1>5, <2>2
    <3>2. r < s
      <4>1. pc[s] = "idle"
        BY <1>1, <2>2, <3>1, ActiveIsLatest DEF Before, Move
      <4> QED
        BY <1>1, <2>2, <4>1 DEF OrderInv, Move, Active, Calls, Ended
    <3>3. \A q \in net' : q \in net \/ q.run = r
      BY DEF Move
    <3> QED
      BY <1>1, <3>1, <3>2, <3>3 DEF FreshInv, LostInv
  <2> QED
    BY <2>1, <2>2
<1> QED
  BY <1>4, <1>5 DEF FreshInv

LEMMA MoveProgress ==
    ASSUME Inv, NEW r \in Runs, NEW c \in Calls \cup {"done", "failed"}, NEW arg, NEW k \in Nat \ {0}, NEW ids,
           Move(r, c, arg, k, ids),
           c \in {"delete", "upload", "done"} => \A j \in Nat : 1 <= j /\ j < k => Has(r, Files[r][j]),
           c = "done" => k = Len(Files[r]) + 1,
           c \in {"list", "delete", "upload", "done"} /\ r \notin disturbed => release = r,
           k # file[r] \/ c = "done" => \A n \in Lost : n # Name(r)
    PROVE  /\ ProgressInv' /\ MetadataInv'
           /\ (\A n \in Lost : \E s \in Costs : n = Name(s))'
<1>1. TypeInv /\ OrderInv /\ NetInv /\ MetadataInv /\ LostInv /\ Runs \subseteq Nat
  BY ReleaseAssumption DEF Inv, Runs
<1>2. \A s \in Runs : s # r => pc'[s] = pc[s] /\ file'[s] = file[s]
  BY <1>1 DEF Move, TypeInv
<1>3. pc'[r] = c /\ reply'[r] = NoReply /\ file'[r] = k
  BY <1>1 DEF Move, TypeInv
<1>4. UNCHANGED <<assets, release, disturbed, published>>
  BY DEF Move, service, history
<1>5. Latest(r) /\ \A q \in net : q.run # r
  BY <1>1, ActiveIsLatest DEF Move
<1>6. \A s \in Runs : Latest(s)' => s = r
  <2> SUFFICES ASSUME NEW s \in Runs, s # r, Latest(s)' PROVE FALSE
    OBVIOUS
  <2>1. pc[s] # "idle" /\ \A t \in Runs : t > s => pc'[t] = "idle"
    BY <1>2 DEF Latest
  <2>2. s < r
    BY <1>1, <1>5, <2>1 DEF Latest
  <2>3. c = "idle"
    BY <1>1, <1>3, <2>1, <2>2
  <2> QED
    BY <2>3 DEF Calls
<1>7. ProgressInv'
  BY <1>3, <1>4, <1>6 DEF ProgressInv, Has, NoReply
<1>8. MetadataInv'
  <2> SUFFICES ASSUME r \notin disturbed
               PROVE  /\ \A q \in net' : q.run = r
                      /\ \/ c \in {"list", "delete", "upload", "done"}
                         \/ c = "create" /\ reply'[r].status = 201
                         \/ c = "update" /\ reply'[r].status = 200
                         => release = r
    BY <1>3, <1>4, <1>6 DEF MetadataInv
  <2>1. \A q \in net : q.run = r
    BY <1>1, <1>5 DEF MetadataInv
  <2> QED
    BY <1>3, <2>1 DEF Move, NoReply
<1>9. (\A n \in Lost : \E s \in Costs : n = Name(s))'
  <2> SUFFICES ASSUME NEW n \in Lost PROVE \E s \in Costs' : n = Name(s)'
    BY <1>4 DEF Lost
  <2>1. PICK s \in Costs : n = Name(s)
    BY <1>1 DEF LostInv
  <2>2. CASE s # r
    BY <1>1, <1>2, <2>1, <2>2 DEF Costs, Active, Name
  <2>3. CASE s = r
    BY <1>1, <1>3, <2>1, <2>3 DEF Costs, Active, Name
  <2> QED
    BY <2>2, <2>3
<1> QED
  BY <1>7, <1>8, <1>9

\* The four lemmas about a move, together.
LEMMA MoveInv ==
    ASSUME Inv, NEW r \in Runs, NEW c \in Calls \cup {"done", "failed"}, NEW arg, NEW k \in Nat \ {0}, NEW ids,
           Move(r, c, arg, k, ids), RightIds(r, ids),
           k <= Len(Files[r]) + (IF c = "done" THEN 1 ELSE 0),
           c = "upload" => arg = Files[r][k],
           c = "delete" => Files[r][k] \in DOMAIN ids /\ arg = ids[Files[r][k]],
           c \in Before => pc[r] \in Before /\ k = 1,
           c \in {"delete", "upload", "done"} => \A j \in Nat : 1 <= j /\ j < k => Has(r, Files[r][j]),
           c = "done" => k = Len(Files[r]) + 1,
           c \in {"list", "delete", "upload", "done"} /\ r \notin disturbed => release = r,
           k # file[r] \/ c = "done" => \A n \in Lost : n # Name(r)
    PROVE  Inv'
<1>1. TypeInv' /\ UniqueInv' /\ OrderInv'
  BY MoveType
<1>2. NetInv' /\ DeleteInv'
  BY MoveNet
<1>3. FreshInv' /\ \A s \in Runs : pc'[s] \in Before => file'[s] = 1
  BY MoveFresh
<1>4. ProgressInv' /\ MetadataInv' /\ (\A n \in Lost : \E s \in Costs : n = Name(s))'
  BY MoveProgress
<1> QED
  BY <1>1, <1>2, <1>3, <1>4 DEF Inv, LostInv

\* What holds of a run that reads an answer.
LEMMA ReaderFacts ==
    ASSUME Inv, NEW r \in Runs, Active(r)
    PROVE  /\ Latest(r)
           /\ file = [file EXCEPT ![r] = file[r]] /\ assetByName = [assetByName EXCEPT ![r] = assetByName[r]]
           /\ RightIds(r, assetByName[r])
           /\ file[r] \in Nat \ {0} /\ file[r] <= Len(Files[r]) /\ Len(Files[r]) \in Nat
           /\ pc[r] \in Before => file[r] = 1
<1>1. TypeInv /\ OrderInv /\ NetInv /\ DeleteInv /\ LostInv
  BY DEF Inv
<1>2. Latest(r)
  BY <1>1, ActiveIsLatest
<1>3. pc[r] # "done" /\ Len(Files[r]) \in Nat
  BY ReleaseAssumption DEF Active, Calls
<1>4. file[r] \in Nat \ {0} /\ file[r] <= Len(Files[r])
  <2>1. file[r] \in Nat \ {0}
    BY <1>1 DEF TypeInv
  <2>2. file[r] <= Len(Files[r]) + (IF pc[r] = "done" THEN 1 ELSE 0)
    BY <1>1 DEF TypeInv
  <2> QED
    BY <1>3, <2>1, <2>2
<1>5. file = [file EXCEPT ![r] = file[r]] /\ assetByName = [assetByName EXCEPT ![r] = assetByName[r]]
  BY <1>1 DEF TypeInv
<1>6. RightIds(r, assetByName[r])
  BY <1>1 DEF RightIds, DeleteInv, TypeInv
<1>7. pc[r] \in Before => file[r] = 1
  BY <1>1 DEF LostInv
<1> QED
  BY <1>2, <1>3, <1>4, <1>5, <1>6, <1>7

\* A call made before the list is read, or the end of a run that failed.
LEMMA EarlyMove ==
    ASSUME Inv, NEW r \in Runs, NEW c \in Calls \cup {"failed"},
           Active(r), reply[r] # NoReply, pc[r] \in Before \/ c = "failed", c \in Before \cup {"failed"},
           IF c = "failed" THEN Stop(r, c) ELSE Send(r, c, 0),
           reply' = [reply EXCEPT ![r] = NoReply],
           UNCHANGED <<service, nextId, history, file, assetByName>>,
           c = "list" /\ r \notin disturbed => release = r
    PROVE  Inv'
<1> DEFINE k == file[r]
           ids == assetByName[r]
<1>1. Move(r, c, 0, k, ids)
  <2>1. net' = IF c \in Calls THEN net \cup {[run |-> r, call |-> c, arg |-> 0]} ELSE net
    BY DEF Stop, Send, Calls
  <2>2. pc' = [pc EXCEPT ![r] = c]
    BY DEF Stop, Send
  <2> QED
    BY <2>1, <2>2, ReaderFacts DEF Move
<1>2. /\ RightIds(r, ids) /\ k \in Nat \ {0} /\ k <= Len(Files[r]) /\ Len(Files[r]) \in Nat
      /\ pc[r] \in Before => k = 1
  BY ReaderFacts
<1>3. c \notin {"delete", "upload", "done"} /\ (c \in Before => pc[r] \in Before)
  BY DEF Before, Calls
<1>4. k = file[r]
  OBVIOUS
<1>5. c \in Calls \cup {"done", "failed"} /\ c # "upload" /\ c # "delete" /\ c # "done"
  BY DEF Before, Calls
<1>6. c \in Before => pc[r] \in Before /\ k = 1
  BY <1>2, <1>3
<1>7. c \in {"list", "delete", "upload", "done"} /\ r \notin disturbed => release = r
  BY <1>3
<1>8. k <= Len(Files[r]) + (IF c = "done" THEN 1 ELSE 0)
  BY <1>2, <1>5
<1> HIDE DEF k, ids
<1> QED
  BY <1>1, <1>2, <1>3, <1>4, <1>5, <1>6, <1>7, <1>8, MoveInv

\* A run that reads an answer it cannot go on with.
LEMMA FailMove ==
    ASSUME Inv, NEW r \in Runs, Active(r), reply[r] # NoReply, Stop(r, "failed"),
           reply' = [reply EXCEPT ![r] = NoReply],
           UNCHANGED <<service, nextId, history, file, assetByName>>
    PROVE  Inv'
<1> DEFINE c == "failed"
<1>1. c \in Calls \cup {"failed"} /\ c \in Before \cup {"failed"} /\ (pc[r] \in Before \/ c = "failed")
  OBVIOUS
<1>2. c # "list" /\ IF c = "failed" THEN Stop(r, c) ELSE Send(r, c, 0)
  OBVIOUS
<1> HIDE DEF c
<1> QED
  BY <1>1, <1>2, EarlyMove

\* The loop over the files, entered at file k.
LEMMA ReplaceMove ==
    ASSUME Inv, NEW r \in Runs, NEW k \in Nat \ {0}, NEW ids,
           Active(r), reply[r] # NoReply, ReplaceFile(r, k, ids), RightIds(r, ids),
           reply' = [reply EXCEPT ![r] = NoReply], assetByName' = [assetByName EXCEPT ![r] = ids],
           UNCHANGED <<service, nextId, history>>,
           k <= Len(Files[r]) + 1,
           \A j \in Nat : 1 <= j /\ j < k => Has(r, Files[r][j]),
           r \notin disturbed => release = r,
           k # file[r] => \A n \in Lost : n # Name(r)
    PROVE  Inv'
<1>1. Len(Files[r]) \in Nat /\ file[r] <= Len(Files[r])
  BY ReaderFacts
<1>2. CASE k > Len(Files[r])
  <2>1. Move(r, "done", 0, k, ids)
    BY <1>2 DEF ReplaceFile, Stop, Move, Calls
  <2>2. k = Len(Files[r]) + 1 /\ k # file[r]
    BY <1>1, <1>2, ReaderFacts
  <2> QED
    BY <1>1, <2>1, <2>2, MoveInv DEF Before
<1>3. CASE k <= Len(Files[r]) /\ Files[r][k] \in DOMAIN ids
  <2>1. Move(r, "delete", ids[Files[r][k]], k, ids)
    BY <1>1, <1>3 DEF ReplaceFile, Send, Move, Calls
  <2> QED
    BY <1>1, <1>3, <2>1, MoveInv DEF Before, Calls
<1>4. CASE k <= Len(Files[r]) /\ Files[r][k] \notin DOMAIN ids
  <2>1. Move(r, "upload", Files[r][k], k, ids)
    BY <1>1, <1>4 DEF ReplaceFile, Send, Move, Calls
  <2> QED
    BY <1>1, <1>4, <2>1, MoveInv DEF Before, Calls
<1> QED
  BY <1>1, <1>2, <1>3, <1>4

LEMMA ReceiveAssetsInv ==
    ASSUME Inv, NEW r \in Runs, ReceiveAssets(r)
    PROVE  Inv'
<1> DEFINE listed == reply[r].listed
           ids == [n \in {a.name : a \in listed} |-> (CHOOSE a \in listed : a.name = n).id]
<1>1. /\ pc[r] = "list" /\ reply[r] # NoReply /\ ReplaceFile(r, 1, ids)
      /\ reply' = [reply EXCEPT ![r] = NoReply] /\ assetByName' = [assetByName EXCEPT ![r] = ids]
      /\ UNCHANGED <<service, nextId, history>>
  BY DEF ReceiveAssets, Receive
<1>2. Active(r) /\ pc[r] \in Before
  BY <1>1 DEF Active, Before, Calls
<1>3. Latest(r) /\ file[r] = 1 /\ Len(Files[r]) \in Nat /\ file[r] <= Len(Files[r])
  BY <1>2, ReaderFacts
<1>4. RightIds(r, ids)
  <2> SUFFICES ASSUME NEW n \in DOMAIN ids
               PROVE  /\ ids[n] \in Nat /\ ids[n] < nextId
                      /\ \A a \in assets : a.by >= r => ids[n] < a.id
                      /\ \A a \in assets : a.id = ids[n] => a.name = n
    BY DEF RightIds
  <2>1. PICK x \in listed : x.name = n /\ ids[n] = x.id
    OBVIOUS
  <2>2. ids[n] \in Nat /\ ids[n] < nextId
    BY <2>1 DEF Inv, TypeInv
  <2>3. \A a \in assets : a.by < r /\ a.by \in Nat /\ r \in Nat
    BY <1>2, ReleaseAssumption DEF Inv, FreshInv, TypeInv, Runs
  <2>4. \A a \in assets : a.id = x.id => a.name = x.name
    BY <1>2, <2>1 DEF Inv, FreshInv
  <2> QED
    BY <2>1, <2>2, <2>3, <2>4
<1>5. r \notin disturbed => release = r
  BY <1>1, <1>3 DEF Inv, MetadataInv
<1>6. \A j \in Nat : ~ (1 <= j /\ j < 1)
  OBVIOUS
<1>7. 1 \in Nat \ {0} /\ 1 <= Len(Files[r]) + 1
  BY <1>3
<1> HIDE DEF ids
<1> QED
  BY <1>1, <1>2, <1>3, <1>4, <1>5, <1>6, <1>7, ReplaceMove

LEMMA ReceiveDeletedInv ==
    ASSUME Inv, NEW r \in Runs, ReceiveDeleted(r)
    PROVE  Inv'
<1>1. /\ pc[r] = "delete" /\ reply[r] # NoReply /\ reply' = [reply EXCEPT ![r] = NoReply]
      /\ UNCHANGED <<service, nextId, history, file, assetByName>>
  BY DEF ReceiveDeleted, Receive
<1>2. Active(r)
  BY <1>1 DEF Active, Calls
<1>3. CASE reply[r].status = 204
  <2> DEFINE k == file[r]
             ids == assetByName[r]
  <2>1. Send(r, "upload", Name(r))
    BY <1>3 DEF ReceiveDeleted
  <2>2. Move(r, "upload", Name(r), k, ids)
    BY <1>1, <1>2, <2>1, ReaderFacts DEF Move, Send, Calls
  <2>3. /\ Latest(r) /\ RightIds(r, ids) /\ k \in Nat \ {0} /\ k <= Len(Files[r]) /\ Len(Files[r]) \in Nat
        /\ Name(r) = Files[r][k]
    BY <1>2, ReaderFacts DEF Name
  <2>4. \A j \in Nat : 1 <= j /\ j < k => Has(r, Files[r][j])
    BY <1>1, <2>3 DEF Inv, ProgressInv
  <2>5. r \notin disturbed => release = r
    BY <1>1, <2>3 DEF Inv, MetadataInv
  <2>6. k = file[r] /\ k <= Len(Files[r]) + (IF "upload" = "done" THEN 1 ELSE 0)
    BY <2>3
  <2>7. "upload" \in Calls \cup {"done", "failed"} /\ "upload" \notin Before
    BY DEF Calls, Before
  <2> HIDE DEF k, ids
  <2> QED
    BY <2>2, <2>3, <2>4, <2>5, <2>6, <2>7, MoveInv
<1>4. CASE reply[r].status # 204
  <2>1. Stop(r, "failed")
    BY <1>4 DEF ReceiveDeleted
  <2> QED
    BY <1>1, <1>2, <2>1, FailMove
<1> QED
  BY <1>3, <1>4

LEMMA ReceiveUploadedInv ==
    ASSUME Inv, NEW r \in Runs, ReceiveUploaded(r)
    PROVE  Inv'
<1>1. /\ pc[r] = "upload" /\ reply[r] # NoReply /\ reply' = [reply EXCEPT ![r] = NoReply]
      /\ UNCHANGED <<service, nextId, history, assetByName>>
  BY DEF ReceiveUploaded, Receive
<1>2. Active(r)
  BY <1>1 DEF Active, Calls
<1>3. CASE reply[r].status = 201
  <2> DEFINE k == file[r] + 1
             ids == assetByName[r]
  <2>1. ReplaceFile(r, k, ids)
    BY <1>3 DEF ReceiveUploaded
  <2>2. /\ Latest(r) /\ RightIds(r, ids) /\ assetByName' = [assetByName EXCEPT ![r] = ids]
        /\ file[r] \in Nat \ {0} /\ file[r] <= Len(Files[r]) /\ Len(Files[r]) \in Nat
    BY <1>1, <1>2, ReaderFacts
  <2>3. Has(r, Files[r][file[r]])
    BY <1>1, <1>3, <2>2 DEF Inv, ProgressInv, Name
  <2>4. \A j \in Nat : 1 <= j /\ j < k => Has(r, Files[r][j])
    <3>1. \A j \in Nat : 1 <= j /\ j < file[r] => Has(r, Files[r][j])
      BY <1>1, <2>2 DEF Inv, ProgressInv
    <3>2. \A j \in Nat : j < k => j < file[r] \/ j = file[r]
      BY <2>2
    <3> QED
      BY <2>3, <3>1, <3>2
  <2>5. r \notin disturbed => release = r
    BY <1>1, <2>2 DEF Inv, MetadataInv
  <2>6. \A n \in Lost : n # Name(r)
    BY <2>3 DEF Lost, Has, Name
  <2>7. k \in Nat \ {0} /\ k <= Len(Files[r]) + 1
    BY <2>2
  <2> HIDE DEF k, ids
  <2> QED
    BY <1>1, <1>2, <2>1, <2>2, <2>4, <2>5, <2>6, <2>7, ReplaceMove
<1>4. CASE reply[r].status # 201
  <2>1. Stop(r, "failed") /\ UNCHANGED file
    BY <1>4 DEF ReceiveUploaded
  <2> QED
    BY <1>1, <1>2, <2>1, FailMove
<1> QED
  BY <1>3, <1>4

\* The calls before the list of assets is read.
LEMMA EarlyCallsInv ==
    ASSUME Inv, NEW r \in Runs,
           ReceiveNotes(r) \/ ReceiveTag(r) \/ ReceiveCreated(r) \/ ReceiveUpdated(r)
    PROVE  Inv'
<1>1. /\ pc[r] \in {"notes", "tag", "create", "update"} /\ reply[r] # NoReply
      /\ reply' = [reply EXCEPT ![r] = NoReply]
      /\ UNCHANGED <<service, nextId, history, file, assetByName>>
  BY DEF ReceiveNotes, ReceiveTag, ReceiveCreated, ReceiveUpdated, Receive
<1>2. Active(r) /\ pc[r] \in Before
  BY <1>1 DEF Active, Calls, Before
<1>3. PICK c \in {"tag", "create", "update", "list", "failed"} :
          /\ (c = "failed" /\ Stop(r, "failed")) \/ (c # "failed" /\ Send(r, c, 0))
          /\ c = "list" => \/ pc[r] = "create" /\ reply[r].status = 201
                           \/ pc[r] = "update" /\ reply[r].status = 200
  BY DEF ReceiveNotes, ReceiveTag, ReceiveCreated, ReceiveUpdated, Receive
<1>4. Latest(r)
  BY <1>2, ReaderFacts
<1>5. c = "list" /\ r \notin disturbed => release = r
  BY <1>3, <1>4 DEF Inv, MetadataInv
<1>6. CASE c = "failed"
  BY <1>1, <1>2, <1>3, <1>6, FailMove
<1>7. CASE c # "failed"
  <2>1. c \in Calls /\ c \in Before
    BY <1>7 DEF Calls, Before
  <2>2. Send(r, c, 0)
    BY <1>3, <1>7
  <2> QED
    BY <1>1, <1>2, <1>5, <1>7, <2>1, <2>2, EarlyMove
<1> QED
  BY <1>6, <1>7

LEMMA StartInv ==
    ASSUME Inv, NEW r \in Runs, Start(r)
    PROVE  Inv'
<1> DEFINE c == IF r \in Noted THEN "notes" ELSE "tag"
           q == [run |-> r, call |-> c, arg |-> 0]
<1>1. /\ pc[r] = "idle" /\ \A s \in Runs : s < r => Ended(s)
      /\ pc' = [pc EXCEPT ![r] = c] /\ net' = net \cup {q}
      /\ disturbed' = IF net = {} THEN disturbed ELSE disturbed \cup {r}
      /\ UNCHANGED <<file, assetByName, reply, service, nextId, published>>
  BY DEF Start, Send
<1>2. TypeInv /\ UniqueInv /\ OrderInv /\ NetInv /\ DeleteInv /\ FreshInv /\ LostInv /\ Runs \subseteq Nat
  BY ReleaseAssumption DEF Inv, Runs
<1>3. c \in {"notes", "tag"} /\ q.run = r /\ q.call = c
  OBVIOUS
<1> HIDE DEF c, q
<1>4. pc'[r] = c /\ \A s \in Runs : s # r => pc'[s] = pc[s]
  BY <1>1, <1>2 DEF TypeInv
<1>5. \A s \in Runs : s > r => pc[s] = "idle"
  BY <1>1, <1>2 DEF OrderInv, Ended
<1>6. \A p \in net : p.run # r /\ pc'[p.run] = pc[p.run]
  <2>1. \A p \in net : p.run \in Runs /\ p.call # "idle"
    BY <1>2 DEF TypeInv, Calls
  <2>2. \A p \in net : pc[p.run] # "idle"
    BY <1>2, <2>1 DEF NetInv
  <2> QED
    BY <1>1, <1>4, <2>1, <2>2
<1>7. \A s \in Runs : Latest(s)' => s = r
  <2> SUFFICES ASSUME NEW s \in Runs, Latest(s)', s # r PROVE FALSE
    OBVIOUS
  <2>1. pc'[s] # "idle" /\ pc'[r] # "idle"
    BY <1>3, <1>4 DEF Latest
  <2>2. s < r
    BY <1>2, <1>4, <1>5, <2>1
  <2> QED
    BY <2>1, <2>2 DEF Latest
<1>8. TypeInv'
  <2>1. \A s \in Runs : file'[s] <= Len(Files[s]) + (IF pc'[s] = "done" THEN 1 ELSE 0)
    BY <1>1, <1>2, <1>3, <1>4 DEF TypeInv
  <2>2. pc' \in [Runs -> Calls \cup {"idle", "done", "failed"}]
    BY <1>1, <1>2, <1>3 DEF TypeInv, Calls
  <2>3. \A p \in net' : p.run \in Runs /\ p.call \in Calls
    BY <1>1, <1>2, <1>3 DEF TypeInv, Calls
  <2> QED
    BY <1>1, <1>2, <2>1, <2>2, <2>3 DEF TypeInv, service
<1>9. UniqueInv' /\ OrderInv'
  BY <1>1, <1>2, <1>3, <1>4, <1>5 DEF UniqueInv, OrderInv, Ended, service
<1>10. NetInv'
  <2>1. reply'[r] = NoReply
    BY <1>1, <1>2 DEF NetInv
  <2>2. \A p \in net' : /\ pc'[p.run] \in {p.call, "failed"}
                        /\ Active(p.run)' => reply'[p.run] = NoReply
                        /\ p.call = "upload" => p.arg = Name(p.run)'
    BY <1>1, <1>2, <1>3, <1>4, <1>6, <2>1 DEF NetInv, Active, Name
  <2>3. \A p, t \in net' : p.run = t.run => p = t
    BY <1>1, <1>2, <1>3, <1>6 DEF NetInv
  <2>4. \A s \in Runs : pc'[s] = "idle" => reply'[s] = NoReply
    BY <1>1, <1>2, <1>3, <1>4 DEF NetInv
  <2> QED
    BY <2>2, <2>3, <2>4 DEF NetInv
<1>11. DeleteInv'
  <2>1. \A p \in net' : p.call = "delete" => p \in net
    BY <1>1, <1>3
  <2> QED
    BY <1>1, <1>2, <2>1 DEF DeleteInv, Name, service
<1>12. FreshInv'
  <2>1. \A p \in net' : p.call = "upload" => p \in net
    BY <1>1, <1>3
  <2>2. \A s \in Runs : pc'[s] \in Before => pc[s] \in Before
    BY <1>1, <1>4 DEF Before
  <2> QED
    BY <1>1, <1>2, <2>1, <2>2 DEF FreshInv, service
<1>13. ProgressInv'
  BY <1>3, <1>4, <1>7 DEF ProgressInv
<1>14. MetadataInv'
  <2>1. r \notin disturbed' => \A p \in net' : p.run = r
    BY <1>1, <1>3
  <2> QED
    BY <1>3, <1>4, <1>7, <2>1 DEF MetadataInv
<1>15. LostInv'
  <2>1. \A s \in Costs : s \in Costs' /\ Name(s)' = Name(s)
    BY <1>1, <1>4 DEF Costs, Active, Name, Calls
  <2>2. Lost' = Lost
    BY <1>1 DEF Lost, service
  <2>3. \A s \in Runs : pc'[s] \in Before => file'[s] = 1
    BY <1>1, <1>2, <1>4 DEF LostInv, Before
  <2>4. \A n \in Lost' : \E s \in Costs' : n = Name(s)'
    BY <1>2, <2>1, <2>2 DEF LostInv
  <2> QED
    BY <2>3, <2>4 DEF LostInv
<1> QED
  BY <1>8, <1>9, <1>10, <1>11, <1>12, <1>13, <1>14, <1>15 DEF Inv

\* A run that times out or is cancelled; its request stays in flight.
LEMMA KilledInv ==
    ASSUME Inv, NEW r \in Runs, TimeOut(r) \/ Cancel(r)
    PROVE  Inv'
<1>1. /\ Active(r) /\ pc' = [pc EXCEPT ![r] = "failed"] /\ disturbed' = disturbed \cup {r}
      /\ reply' \in {reply, [reply EXCEPT ![r] = NoReply]}
      /\ UNCHANGED <<file, assetByName, net, service, nextId, published>>
  BY DEF TimeOut, Cancel
<1>2. /\ TypeInv /\ UniqueInv /\ OrderInv /\ NetInv /\ DeleteInv /\ FreshInv /\ LostInv
      /\ Runs \subseteq Nat
  BY ReleaseAssumption DEF Inv, Runs
<1>3. pc'[r] = "failed" /\ \A s \in Runs : s # r => pc'[s] = pc[s] /\ reply'[s] = reply[s]
  BY <1>1, <1>2 DEF TypeInv
<1>4. Latest(r) /\ pc[r] \in Calls
  BY <1>1, <1>2, ActiveIsLatest DEF Active
<1>5. \A s \in Runs : Latest(s)' => s = r
  BY <1>2, <1>3, <1>4 DEF Latest
<1>6. \A s \in Runs : reply'[s] \in {reply[s], NoReply}
  BY <1>1, <1>2 DEF TypeInv
<1>7. TypeInv'
  <2>1. pc' \in [Runs -> Calls \cup {"idle", "done", "failed"}] /\ reply' = [s \in Runs |-> reply'[s]]
    BY <1>1, <1>2 DEF TypeInv
  <2>2. \A s \in Runs : file'[s] <= Len(Files[s]) + (IF pc'[s] = "done" THEN 1 ELSE 0)
    <3> SUFFICES ASSUME NEW s \in Runs
                 PROVE  file[s] <= Len(Files[s]) + (IF pc'[s] = "done" THEN 1 ELSE 0)
      BY <1>1
    <3>1. file[s] <= Len(Files[s]) + (IF pc[s] = "done" THEN 1 ELSE 0)
      BY <1>2 DEF TypeInv
    <3>2. pc'[s] = "done" <=> pc[s] = "done"
      BY <1>3, <1>4 DEF Calls
    <3> QED
      BY <3>1, <3>2
  <2>3. \A s \in Runs : \A a \in reply'[s].listed : a.id \in Nat /\ a.id < nextId
    <3>1. \A s \in Runs : \A a \in reply[s].listed : a.id \in Nat /\ a.id < nextId
      BY <1>2 DEF TypeInv
    <3>2. NoReply.listed = {}
      BY DEF NoReply
    <3>3. \A s \in Runs : reply'[s].listed \in {reply[s].listed, {}}
      BY <1>6, <3>2
    <3> QED
      BY <3>1, <3>3
  <2>4. file' \in [Runs -> Nat \ {0}] /\ assetByName' = [s \in Runs |-> assetByName'[s]]
    BY <1>1, <1>2 DEF TypeInv
  <2>5. /\ nextId' \in Nat
        /\ \A s \in Runs : \A n \in DOMAIN assetByName'[s] :
             assetByName'[s][n] \in Nat /\ assetByName'[s][n] < nextId'
        /\ \A a \in assets' : a.id \in Nat /\ a.id < nextId' /\ a.name \in Names /\ a.by \in Runs
        /\ disturbed' \subseteq Runs /\ published' \subseteq Names
    BY <1>1, <1>2 DEF TypeInv, service
  <2>6. \A s \in Runs : \A a \in reply'[s].listed : a.id \in Nat /\ a.id < nextId'
    BY <1>1, <2>3
  <2>7. (\A q \in net' : q.run \in Runs /\ q.call \in Calls) /\ release' \in Runs \cup {0}
    BY <1>1, <1>2 DEF TypeInv, service
  <2> QED
    BY <2>1, <2>2, <2>4, <2>5, <2>6, <2>7 DEF TypeInv
<1>8. UniqueInv' /\ OrderInv'
  BY <1>1, <1>2, <1>3, <1>4 DEF UniqueInv, OrderInv, Ended, service, Calls
<1>9. NetInv' /\ DeleteInv'
  <2>1. \A p \in net : /\ pc'[p.run] \in {p.call, "failed"}
                       /\ Active(p.run)' => reply'[p.run] = NoReply
                       /\ p.call = "upload" => p.arg = Name(p.run)'
    BY <1>1, <1>2, <1>3 DEF NetInv, TypeInv, Active, Name, Calls
  <2>2. \A s \in Runs : pc'[s] = "idle" => reply'[s] = NoReply
    BY <1>2, <1>3 DEF NetInv
  <2>3. \A p, q \in net : p.run = q.run => p = q
    BY <1>2 DEF NetInv
  <2> QED
    BY <1>1, <1>2, <2>1, <2>2, <2>3 DEF NetInv, DeleteInv, service, Name
<1>10. FreshInv'
  <2>1. \A s \in Runs : pc'[s] \in Before => s # r /\ pc[s] \in Before
    BY <1>3 DEF Before
  <2> QED
    BY <1>1, <1>2, <1>3, <2>1 DEF FreshInv, service
<1>11. ProgressInv' /\ MetadataInv'
  BY <1>1, <1>3, <1>5 DEF ProgressInv, MetadataInv
<1>12. LostInv'
  <2>1. \A s \in Costs : s \in Costs' /\ Name(s)' = Name(s)
    BY <1>1, <1>3 DEF Costs, Active, Name
  <2>2. Lost' = Lost
    BY <1>1 DEF Lost, service
  <2>3. \A s \in Runs : pc'[s] \in Before => file'[s] = 1
    BY <1>1, <1>2, <1>3 DEF LostInv, Before
  <2>4. \A n \in Lost' : \E s \in Costs' : n = Name(s)'
    BY <1>2, <2>1, <2>2 DEF LostInv
  <2> QED
    BY <2>3, <2>4 DEF LostInv
<1> QED
  BY <1>7, <1>8, <1>9, <1>10, <1>11, <1>12 DEF Inv

-----------------------------------------------------------------------------
(* The service. *)

\* What serving a request, or losing it, changes: one request leaves the network, and
\* its run may have an answer to read.
Served(q, status, listed) ==
    /\ q \in net /\ net' = net \ {q}
    /\ reply' \in {reply, [reply EXCEPT ![q.run] = Answer(status, listed)]}
    /\ pc[q.run] # q.call => reply' = reply
    /\ UNCHANGED <<pc, file, assetByName, disturbed>>

LEMMA ServedFacts ==
    ASSUME Inv, NEW q, NEW status, NEW listed, Served(q, status, listed)
    PROVE  /\ q \in net /\ q.run \in Runs /\ q.call \in Calls /\ pc[q.run] \in {q.call, "failed"}
           /\ reply' = [r \in Runs |-> reply'[r]]
           /\ \A r \in Runs : reply'[r] # reply[r] =>
                r = q.run /\ pc[r] = q.call /\ reply'[r] = Answer(status, listed)
           /\ OrderInv' /\ NetInv'
<1>1. TypeInv /\ OrderInv /\ NetInv /\ q \in net /\ net' \subseteq net /\ q \notin net'
  BY DEF Inv, Served
<1>2. q.run \in Runs /\ q.call \in Calls /\ pc[q.run] \in {q.call, "failed"}
  BY <1>1 DEF TypeInv, NetInv
<1>3. reply' = [r \in Runs |-> reply'[r]]
  BY <1>1 DEF TypeInv, Served
<1>4. \A r \in Runs : reply'[r] # reply[r] =>
        r = q.run /\ pc[r] = q.call /\ reply'[r] = Answer(status, listed)
  BY <1>1, <1>2 DEF TypeInv, Served
<1>5. OrderInv'
  BY <1>1 DEF OrderInv, Served, Ended
<1>6. NetInv'
  <2>1. \A p \in net' : p.run \in Runs /\ p.run # q.run /\ reply'[p.run] = reply[p.run]
    BY <1>1, <1>4 DEF NetInv, TypeInv
  <2>2. \A r \in Runs : pc'[r] = "idle" => reply'[r] = NoReply
    BY <1>1, <1>2, <1>4 DEF NetInv, Served, Calls
  <2>3. UNCHANGED <<pc, file>>
    BY DEF Served
  <2>4. \A p, t \in net' : p.run = t.run => p = t
    BY <1>1 DEF NetInv
  <2>5. \A p \in net' : /\ pc'[p.run] \in {p.call, "failed"}
                        /\ Active(p.run)' => reply'[p.run] = NoReply
                        /\ p.call = "upload" => p.arg = Name(p.run)'
    BY <1>1, <2>1, <2>3 DEF NetInv, Active, Name
  <2> QED
    BY <2>2, <2>4, <2>5 DEF NetInv
<1> QED
  BY <1>1, <1>2, <1>3, <1>4, <1>5, <1>6

\* A request that leaves the assets alone.
LEMMA QuietInv ==
    ASSUME Inv, NEW q, NEW status, NEW listed \in SUBSET assets, Served(q, status, listed),
           UNCHANGED <<assets, nextId, published>>,
           q.call = "upload" => status # 201,
           release' = release \/ release' = q.run,
           q.call = "create" /\ status = 201 => release' = q.run,
           q.call = "update" /\ status = 200 => release' = q.run
    PROVE  Inv'
<1>1. /\ TypeInv /\ UniqueInv /\ DeleteInv /\ FreshInv /\ ProgressInv /\ MetadataInv /\ LostInv
      /\ UNCHANGED <<pc, file, assetByName, disturbed>> /\ net' \subseteq net
  BY DEF Inv, Served
<1>2. q \in net /\ q.run \in Runs /\ q.call \in Calls /\ pc[q.run] \in {q.call, "failed"}
  BY ServedFacts
<1>3. \A r \in Runs : reply'[r] # reply[r] =>
        r = q.run /\ pc[r] = q.call /\ reply'[r].status = status /\ reply'[r].listed = listed
  <2>1. Answer(status, listed).status = status /\ Answer(status, listed).listed = listed
    BY DEF Answer
  <2> QED
    BY <2>1, ServedFacts
<1>4. reply' = [r \in Runs |-> reply'[r]] /\ OrderInv' /\ NetInv'
  BY ServedFacts
<1>5. TypeInv'
  <2>1. \A r \in Runs : \A a \in reply'[r].listed : a.id \in Nat /\ a.id < nextId
    BY <1>1, <1>3 DEF TypeInv
  <2>2. release' \in Runs \cup {0}
    BY <1>1, <1>2 DEF TypeInv
  <2>3. \A p \in net' : p.run \in Runs /\ p.call \in Calls
    BY <1>1 DEF TypeInv
  <2>4. assetByName' = [r \in Runs |-> assetByName'[r]]
    BY <1>1 DEF TypeInv
  <2>5. /\ pc' \in [Runs -> Calls \cup {"idle", "done", "failed"}] /\ file' \in [Runs -> Nat \ {0}]
        /\ \A r \in Runs : file'[r] <= Len(Files[r]) + (IF pc'[r] = "done" THEN 1 ELSE 0)
    BY <1>1 DEF TypeInv
  <2>6. /\ nextId' \in Nat
        /\ \A r \in Runs : \A n \in DOMAIN assetByName'[r] :
             assetByName'[r][n] \in Nat /\ assetByName'[r][n] < nextId'
        /\ \A a \in assets' : a.id \in Nat /\ a.id < nextId' /\ a.name \in Names /\ a.by \in Runs
        /\ disturbed' \subseteq Runs /\ published' \subseteq Names
    BY <1>1 DEF TypeInv
  <2>7. \A r \in Runs : \A a \in reply'[r].listed : a.id \in Nat /\ a.id < nextId'
    BY <2>1
  <2>8. reply' = [r \in Runs |-> reply'[r]]
    BY <1>4
  <2> QED
    BY <2>2, <2>3, <2>4, <2>5, <2>6, <2>7, <2>8 DEF TypeInv
<1>6. UniqueInv' /\ DeleteInv'
  BY <1>1 DEF UniqueInv, DeleteInv, Name
<1>7. FreshInv'
  <2>1. \A r \in Runs : pc[r] \in Before =>
           \A x \in reply'[r].listed : \A a \in assets : a.id = x.id => a.name = x.name
    BY <1>1, <1>3 DEF FreshInv, UniqueInv
  <2> QED
    BY <1>1, <2>1 DEF FreshInv
<1>8. ProgressInv'
  <2>1. \A r \in Runs : pc[r] = "upload" /\ reply'[r].status = 201 => reply[r].status = 201
    BY <1>3
  <2> QED
    BY <1>1, <2>1 DEF ProgressInv, Latest, Has, Name
<1>9. MetadataInv'
  <2> SUFFICES ASSUME NEW r \in Runs, Latest(r), r \notin disturbed
               PROVE  /\ \A p \in net' : p.run = r
                      /\ \/ pc[r] \in {"list", "delete", "upload", "done"}
                         \/ pc[r] = "create" /\ reply'[r].status = 201
                         \/ pc[r] = "update" /\ reply'[r].status = 200
                         => release' = r
    BY <1>1 DEF MetadataInv, Latest
  <2>1. /\ \A p \in net : p.run = r
        /\ \/ pc[r] \in {"list", "delete", "upload", "done"}
           \/ pc[r] = "create" /\ reply[r].status = 201
           \/ pc[r] = "update" /\ reply[r].status = 200
           => release = r
    BY <1>1 DEF MetadataInv
  <2>2. q.run = r
    BY <1>2, <2>1
  <2>3. CASE reply'[r] = reply[r]
    BY <1>1, <2>1, <2>2, <2>3
  <2>4. CASE reply'[r] # reply[r]
    <3>1. pc[r] = q.call /\ reply'[r].status = status
      BY <1>3, <2>4
    <3> QED
      BY <1>1, <2>1, <2>2, <3>1
  <2> QED
    BY <2>3, <2>4
<1>10. LostInv'
  BY <1>1 DEF LostInv, Lost, Costs, Active, Name
<1> QED
  BY <1>4, <1>5, <1>6, <1>7, <1>8, <1>9, <1>10 DEF Inv

LEMMA ServeDeleteInv ==
    ASSUME Inv, NEW q \in net, ServeDelete(q)
    PROVE  Inv'
<1> DEFINE found == {a \in assets : a.id = q.arg}
           status == IF found = {} THEN 404 ELSE 204
<1>1. /\ q.call = "delete" /\ assets' = assets \ found /\ UNCHANGED <<release, nextId, published>>
      /\ Served(q, status, {})
  <2>1. NetInv /\ TypeInv
    BY DEF Inv
  <2>2. Serve(q, "delete", Answer(status, {})) /\ assets' = assets \ found
        /\ UNCHANGED <<release, nextId, published>>
    BY DEF ServeDelete
  <2> QED
    BY <2>1, <2>2 DEF Serve, Served
<1> HIDE DEF status
<1>2. /\ TypeInv /\ UniqueInv /\ OrderInv /\ DeleteInv /\ FreshInv /\ ProgressInv /\ MetadataInv /\ LostInv
      /\ UNCHANGED <<pc, file, assetByName, disturbed>> /\ net' \subseteq net /\ Runs \subseteq Nat
  BY <1>1, ReleaseAssumption DEF Inv, Served, Runs
<1>3. q \in net /\ q.run \in Runs /\ pc[q.run] \in {"delete", "failed"}
  BY <1>1, ServedFacts
<1>4. \A r \in Runs : reply'[r] # reply[r] => pc[r] = "delete" /\ reply'[r].listed = {}
  <2>1. Answer(status, {}).listed = {}
    BY DEF Answer
  <2> QED
    BY <1>1, <2>1, ServedFacts
<1>5. reply' = [r \in Runs |-> reply'[r]] /\ OrderInv' /\ NetInv'
  BY <1>1, ServedFacts
<1>6. TypeInv'
  <2>1. \A r \in Runs : \A a \in reply'[r].listed : a.id \in Nat /\ a.id < nextId
    BY <1>2, <1>4 DEF TypeInv
  <2> QED
    BY <1>1, <1>2, <1>5, <2>1 DEF TypeInv
<1>7. UniqueInv' /\ DeleteInv'
  BY <1>1, <1>2 DEF UniqueInv, DeleteInv, Name
<1>8. FreshInv'
  <2>1. \A r \in Runs : pc[r] \in Before => reply'[r] = reply[r]
    BY <1>4 DEF Before
  <2> QED
    BY <1>1, <1>2, <2>1 DEF FreshInv
<1>9. \A r \in Runs : Latest(r) => \A a \in assets : a.by = r => a \in assets'
  <2> SUFFICES ASSUME NEW r \in Runs, Latest(r), NEW a \in assets, a.by = r PROVE a \in assets'
    OBVIOUS
  <2>1. q.run <= r
    <3>1. ~ (q.run > r)
      BY <1>3 DEF Latest
    <3>2. q.run \in Nat /\ r \in Nat
      BY <1>2, <1>3
    <3> QED
      BY <3>1, <3>2
  <2>2. q.arg < a.id /\ q.arg \in Nat /\ a.id \in Nat
    BY <1>1, <1>2, <1>3, <2>1 DEF DeleteInv, TypeInv
  <2> QED
    BY <1>1, <2>2
<1>10. ProgressInv'
  <2>1. \A r \in Runs : pc[r] = "upload" => reply'[r] = reply[r]
    BY <1>4
  <2>2. \A r \in Runs : Latest(r)' = Latest(r) /\ Name(r)' = Name(r)
    BY <1>2 DEF Latest, Name
  <2>3. \A r \in Runs : Latest(r) => \A n : Has(r, n) => \E a \in assets' : a.name = n /\ a.by = r
    BY <1>9 DEF Has
  <2> SUFFICES ASSUME NEW r \in Runs, Latest(r)
               PROVE  /\ pc[r] \in {"delete", "upload", "done"} =>
                           \A k \in Nat : 1 <= k /\ k < file[r] => Has(r, Files[r][k])'
                      /\ pc[r] = "done" => file[r] = Len(Files[r]) + 1
                      /\ pc[r] = "upload" /\ reply'[r].status = 201 =>
                           \E a \in assets' : a.name = Name(r) /\ a.by = r
    BY <1>2, <2>2 DEF ProgressInv, Has
  <2>4. /\ pc[r] \in {"delete", "upload", "done"} =>
             \A k \in Nat : 1 <= k /\ k < file[r] => Has(r, Files[r][k])
        /\ pc[r] = "done" => file[r] = Len(Files[r]) + 1
        /\ pc[r] = "upload" /\ reply[r].status = 201 => Has(r, Name(r))
    BY <1>2 DEF ProgressInv
  <2> QED
    BY <2>1, <2>3, <2>4 DEF Has
<1>11. MetadataInv'
  <2>1. \A r \in Runs : pc[r] \in {"create", "update"} => reply'[r] = reply[r]
    BY <1>4
  <2> QED
    BY <1>1, <1>2, <2>1 DEF MetadataInv, Latest
<1>12. LostInv'
  <2>1. \A a \in found : a.name = Name(q.run)
    BY <1>1, <1>2, <1>3 DEF DeleteInv
  <2>2. \A n \in Lost' : n \in Lost \/ n = Name(q.run)
    BY <1>1, <2>1 DEF Lost
  <2>3. q.run \in Costs
    BY <1>3 DEF Costs, Active, Calls
  <2>4. Costs' = Costs /\ \A r \in Runs : Name(r)' = Name(r)
    BY <1>2 DEF Costs, Active, Name
  <2>5. \A n \in Lost' : \E r \in Costs' : n = Name(r)'
    <3> SUFFICES ASSUME NEW n \in Lost' PROVE \E r \in Costs : n = Name(r)
      BY <2>4 DEF Costs
    <3> QED
      BY <1>2, <2>2, <2>3 DEF LostInv
  <2> QED
    BY <1>2, <2>5 DEF LostInv
<1> QED
  BY <1>5, <1>6, <1>7, <1>8, <1>10, <1>11, <1>12 DEF Inv

LEMMA UploadedInv ==
    ASSUME Inv, NEW q \in net, q.call = "upload", Served(q, 201, {}),
           \A a \in assets : a.name # q.arg,
           assets' = assets \cup {[id |-> nextId, name |-> q.arg, by |-> q.run]},
           nextId' = nextId + 1, published' = published \cup {q.arg}, UNCHANGED release
    PROVE  Inv'
<1> DEFINE new == [id |-> nextId, name |-> q.arg, by |-> q.run]
<1>1. /\ TypeInv /\ UniqueInv /\ DeleteInv /\ FreshInv /\ ProgressInv /\ MetadataInv /\ LostInv
      /\ UNCHANGED <<pc, file, assetByName, disturbed>> /\ net' \subseteq net /\ Runs \subseteq Nat
  BY ReleaseAssumption DEF Inv, Served, Runs
<1>2. q.run \in Runs /\ pc[q.run] \in {"upload", "failed"} /\ q.arg = Name(q.run)
  BY ServedFacts DEF Inv, NetInv
<1>3. \A r \in Runs : reply'[r] # reply[r] => r = q.run /\ pc[r] = "upload" /\ reply'[r].listed = {}
  <2>1. Answer(201, {}).listed = {}
    BY DEF Answer
  <2> QED
    BY <2>1, ServedFacts
<1>4. reply' = [r \in Runs |-> reply'[r]] /\ OrderInv' /\ NetInv'
  BY ServedFacts
<1>5. /\ new.id = nextId /\ new.name = q.arg /\ new.by = q.run
      /\ assets' = assets \cup {new} /\ nextId \in Nat
  BY <1>1 DEF TypeInv
<1> HIDE DEF new
<1>6. q.arg \in Names
  <2>1. file[q.run] \in Nat \ {0}
    BY <1>1, <1>2 DEF TypeInv
  <2>2. file[q.run] <= Len(Files[q.run]) + (IF pc[q.run] = "done" THEN 1 ELSE 0)
    BY <1>1, <1>2 DEF TypeInv
  <2>3. Files[q.run] \in Seq(STRING)
    BY <1>2, ReleaseAssumption
  <2>4. file[q.run] \in DOMAIN Files[q.run]
    <3>1. Len(Files[q.run]) \in Nat /\ DOMAIN Files[q.run] = 1 .. Len(Files[q.run])
      BY <2>3
    <3>2. file[q.run] <= Len(Files[q.run])
      <4>1. pc[q.run] # "done" /\ file[q.run] \in Nat
        BY <1>2, <2>1
      <4> QED
        BY <2>2, <3>1, <4>1
    <3> QED
      BY <2>1, <3>1, <3>2
  <2>5. q.arg \in Range(Files[q.run])
    BY <1>2, <2>4 DEF Name, Range
  <2> QED
    BY <1>2, <2>5 DEF Names
<1>7. TypeInv'
  <2>1. \A r \in Runs : \A a \in reply'[r].listed : a.id \in Nat /\ a.id < nextId'
    <3>1. \A r \in Runs : reply'[r].listed \subseteq reply[r].listed
      BY <1>3
    <3>2. \A r \in Runs : \A a \in reply[r].listed : a.id \in Nat /\ a.id < nextId + 1
      BY <1>1, <1>5 DEF TypeInv
    <3> QED
      BY <3>1, <3>2
  <2>2. \A r \in Runs : \A n \in DOMAIN assetByName'[r] : assetByName'[r][n] \in Nat /\ assetByName'[r][n] < nextId'
    BY <1>1 DEF TypeInv
  <2>3. \A a \in assets' : a.id \in Nat /\ a.id < nextId' /\ a.name \in Names /\ a.by \in Runs
    BY <1>1, <1>2, <1>5, <1>6 DEF TypeInv
  <2>4. \A p \in net' : p.run \in Runs /\ p.call \in Calls
    BY <1>1 DEF TypeInv
  <2>5. assetByName' = [r \in Runs |-> assetByName'[r]]
    BY <1>1 DEF TypeInv
  <2>6. published' \subseteq Names /\ nextId' \in Nat
    BY <1>1, <1>5, <1>6 DEF TypeInv
  <2> QED
    BY <1>1, <1>4, <2>1, <2>2, <2>3, <2>4, <2>5, <2>6 DEF TypeInv
<1>8. UniqueInv'
  <2>1. \A a \in assets : a.id # new.id /\ a.name # new.name
    BY <1>1, <1>5 DEF TypeInv
  <2> QED
    BY <1>1, <1>5, <2>1 DEF UniqueInv
<1>9. DeleteInv'
  <2>1. \A p \in net' : p.call = "delete" =>
          /\ p.arg \in Nat /\ p.arg < nextId' /\ p.arg < new.id /\ new.id # p.arg
          /\ \A a \in assets : /\ a.by >= p.run => p.arg < a.id
                               /\ a.id = p.arg => a.name = Name(p.run)
    BY <1>1, <1>5 DEF DeleteInv
  <2>2. \A r \in Runs : \A n \in DOMAIN assetByName[r] :
          assetByName[r][n] < new.id /\ new.id # assetByName[r][n]
    BY <1>1, <1>5 DEF TypeInv
  <2>3. \A r \in Runs : \A n \in DOMAIN assetByName[r] : \A a \in assets :
          /\ a.by >= r => assetByName[r][n] < a.id
          /\ a.id = assetByName[r][n] => a.name = n
    BY <1>1 DEF DeleteInv
  <2>4. \A p \in net' : Name(p.run)' = Name(p.run)
    BY <1>1 DEF Name
  <2> QED
    BY <1>1, <1>5, <2>1, <2>2, <2>3, <2>4 DEF DeleteInv
<1>10. FreshInv'
  <2>1. \A r \in Runs : pc[r] \in Before => reply'[r] = reply[r]
    BY <1>3 DEF Before
  <2>2. \A r \in Runs : pc[r] \in Before => new.by < r
    BY <1>1, <1>5 DEF FreshInv
  <2>3. \A r \in Runs : \A x \in reply[r].listed : x.id # new.id
    BY <1>1, <1>5 DEF TypeInv
  <2> QED
    BY <1>1, <1>5, <2>1, <2>2, <2>3 DEF FreshInv
<1>11. ProgressInv'
  <2>1. \A r \in Runs : \A n : Has(r, n) => \E a \in assets' : a.name = n /\ a.by = r
    BY DEF Has
  <2>2. \E a \in assets' : a.name = Name(q.run) /\ a.by = q.run
    BY <1>2, <1>5
  <2>0. \A r \in Runs : Latest(r)' = Latest(r) /\ Name(r)' = Name(r)
    BY <1>1 DEF Latest, Name
  <2> SUFFICES ASSUME NEW r \in Runs, Latest(r)
               PROVE  /\ pc[r] \in {"delete", "upload", "done"} =>
                           \A k \in Nat : 1 <= k /\ k < file[r] => Has(r, Files[r][k])'
                      /\ pc[r] = "done" => file[r] = Len(Files[r]) + 1
                      /\ pc[r] = "upload" /\ reply'[r].status = 201 =>
                           \E a \in assets' : a.name = Name(r) /\ a.by = r
    BY <1>1, <2>0 DEF ProgressInv, Has
  <2>3. /\ pc[r] \in {"delete", "upload", "done"} =>
             \A k \in Nat : 1 <= k /\ k < file[r] => Has(r, Files[r][k])
        /\ pc[r] = "done" => file[r] = Len(Files[r]) + 1
        /\ pc[r] = "upload" /\ reply[r].status = 201 => Has(r, Name(r))
    BY <1>1 DEF ProgressInv
  <2>4. reply'[r] # reply[r] => r = q.run
    BY <1>3
  <2> QED
    BY <2>1, <2>2, <2>3, <2>4 DEF Has
<1>12. MetadataInv'
  <2>1. \A r \in Runs : pc[r] \in {"create", "update"} => reply'[r] = reply[r]
    BY <1>3
  <2> QED
    BY <1>1, <2>1 DEF MetadataInv, Latest
<1>13. LostInv'
  <2>1. \A n \in Lost' : n \in Lost
    BY <1>5 DEF Lost
  <2>2. Costs' = Costs /\ \A r \in Runs : Name(r)' = Name(r)
    BY <1>1 DEF Costs, Active, Name
  <2>3. \A n \in Lost' : \E r \in Costs' : n = Name(r)'
    <3> SUFFICES ASSUME NEW n \in Lost' PROVE \E r \in Costs : n = Name(r)
      BY <2>2 DEF Costs
    <3> QED
      BY <1>1, <2>1 DEF LostInv
  <2> QED
    BY <1>1, <2>3 DEF LostInv
<1> QED
  BY <1>4, <1>7, <1>8, <1>9, <1>10, <1>11, <1>12, <1>13 DEF Inv

LEMMA ServiceInv ==
    ASSUME Inv, NEW q \in net, ServiceStep(q)
    PROVE  Inv'
<1>1. \A call, answer : Serve(q, call, answer) =>
        q.call = call /\ \A status, listed : answer = Answer(status, listed) => Served(q, status, listed)
  BY DEF Serve, Served
<1>2. CASE ServeNotes(q)
  <2>1. q.call = "notes" /\ Served(q, 200, {}) /\ UNCHANGED <<service, nextId, published>>
    BY <1>1, <1>2 DEF ServeNotes
  <2> QED
    BY <2>1, QuietInv DEF service
<1>3. CASE ServeTag(q)
  <2> DEFINE status == IF release = 0 THEN 404 ELSE 200
  <2>1. q.call = "tag" /\ Served(q, status, {}) /\ UNCHANGED <<service, nextId, published>>
    BY <1>1, <1>3 DEF ServeTag
  <2> HIDE DEF status
  <2> QED
    BY <2>1, QuietInv DEF service
<1>4. CASE ServeCreate(q)
  <2> DEFINE status == IF release = 0 THEN 201 ELSE 422
  <2>1. /\ q.call = "create" /\ Served(q, status, {}) /\ UNCHANGED <<assets, nextId, published>>
        /\ release' = IF release = 0 THEN q.run ELSE release
    BY <1>1, <1>4 DEF ServeCreate
  <2>2. (status = 201 => release' = q.run) /\ (release' = release \/ release' = q.run)
    BY <2>1
  <2> HIDE DEF status
  <2> QED
    BY <2>1, <2>2, QuietInv
<1>5. CASE ServeUpdate(q)
  <2>1. q.call = "update" /\ Served(q, 200, {}) /\ UNCHANGED <<assets, nextId, published>> /\ release' = q.run
    BY <1>1, <1>5 DEF ServeUpdate
  <2> QED
    BY <2>1, QuietInv
<1>6. CASE ServeList(q)
  <2>1. q.call = "list" /\ Served(q, 200, FirstPage) /\ UNCHANGED <<service, nextId, published>>
    BY <1>1, <1>6 DEF ServeList
  <2>2. FirstPage \subseteq assets
    BY DEF FirstPage
  <2> QED
    BY <2>1, <2>2, QuietInv DEF service
<1>7. CASE ServeDelete(q)
  BY <1>7, ServeDeleteInv
<1>8. CASE ServeUpload(q)
  <2> DEFINE taken == \E a \in assets : a.name = q.arg
             status == IF taken THEN 422 ELSE 201
  <2>1. q.call = "upload" /\ Served(q, status, {}) /\ UNCHANGED release
    BY <1>1, <1>8 DEF ServeUpload
  <2>2. CASE taken
    <3>1. UNCHANGED <<assets, nextId, published>> /\ status = 422
      BY <1>8, <2>2 DEF ServeUpload
    <3> HIDE DEF status
    <3> QED
      BY <2>1, <3>1, QuietInv
  <2>3. CASE ~ taken
    <3>1. /\ assets' = assets \cup {[id |-> nextId, name |-> q.arg, by |-> q.run]}
          /\ nextId' = nextId + 1 /\ published' = published \cup {q.arg} /\ status = 201
      BY <1>8, <2>3 DEF ServeUpload
    <3> HIDE DEF status
    <3> QED
      BY <2>1, <2>3, <3>1, UploadedInv
  <2> QED
    BY <2>2, <2>3
<1>9. CASE Lose(q)
  <2>1. Served(q, 0, {}) /\ UNCHANGED <<assets, release, nextId, published>>
    BY <1>9 DEF Lose, Served, client, service, history
  <2> QED
    BY <2>1, QuietInv
<1> QED
  BY <1>2, <1>3, <1>4, <1>5, <1>6, <1>7, <1>8, <1>9 DEF ServiceStep

-----------------------------------------------------------------------------
(* The invariant is inductive, and what follows from it. *)

LEMMA NextInv == Inv /\ [Next]_vars => Inv'
<1> SUFFICES ASSUME Inv, [Next]_vars PROVE Inv'
  OBVIOUS
<1>1. ASSUME NEW r \in Runs, Start(r) \/ ClientStep(r) \/ Cancel(r) PROVE Inv'
  BY <1>1, StartInv, EarlyCallsInv, ReceiveAssetsInv, ReceiveDeletedInv, ReceiveUploadedInv, KilledInv
     DEF ClientStep
<1>2. ASSUME NEW q \in net, ServiceStep(q) PROVE Inv'
  BY <1>2, ServiceInv
<1>3. CASE UNCHANGED vars
  <2>1. UNCHANGED <<pc, file, assetByName, reply, net, release, assets, nextId, disturbed, published>>
    BY <1>3 DEF vars, client, service, history
  <2>2. TypeInv' /\ UniqueInv' /\ OrderInv'
    BY <2>1 DEF Inv, TypeInv, UniqueInv, OrderInv, Ended
  <2>3. NetInv' /\ DeleteInv' /\ FreshInv'
    BY <2>1 DEF Inv, NetInv, DeleteInv, FreshInv, Active, Name
  <2>4. ProgressInv' /\ MetadataInv' /\ LostInv'
    BY <2>1 DEF Inv, ProgressInv, MetadataInv, LostInv, Latest, Has, Name, Lost, Costs, Active
  <2> QED
    BY <2>2, <2>3, <2>4 DEF Inv
<1> QED
  BY <1>1, <1>2, <1>3 DEF Next

LEMMA Invariance == Spec => []Inv
  BY InitInv, NextInv, PTL DEF Spec

LEMMA InvType == Inv => TypeOK
<1> SUFFICES ASSUME Inv PROVE TypeOK
  OBVIOUS
<1>1. \A r \in Runs : file[r] \in 1 .. Len(Files[r]) + 1
  <2> TAKE r \in Runs
  <2>1. Len(Files[r]) \in Nat
    BY ReleaseAssumption
  <2>2. file[r] \in Nat \ {0} /\ file[r] <= Len(Files[r]) + (IF pc[r] = "done" THEN 1 ELSE 0)
    BY DEF Inv, TypeInv
  <2>3. CASE pc[r] = "done"
    BY <2>1, <2>2, <2>3
  <2>4. CASE pc[r] # "done"
    BY <2>1, <2>2, <2>4
  <2> QED
    BY <2>3, <2>4
<1> QED
  BY <1>1 DEF Inv, TypeInv, UniqueInv, TypeOK

\* Whatever requests of dead runs are served, and in whatever order, the ids a run holds
\* are of assets that existed, and no two assets share a name or an id.
THEOREM TypeCorrect == Spec => []TypeOK
  BY Invariance, InvType, PTL

LEMMA InvComplete == Inv => PublishedIsComplete
<1> SUFFICES ASSUME Inv, NEW r \in Runs, pc[r] = "done", Latest(r), NEW n \in Range(Files[r])
             PROVE  \E a \in assets : a.name = n /\ a.by = r
  BY DEF PublishedIsComplete
<1>1. Files[r] \in Seq(STRING) /\ Len(Files[r]) \in Nat
  BY ReleaseAssumption
<1>2. PICK k \in 1 .. Len(Files[r]) : Files[r][k] = n
  BY <1>1 DEF Range
<1>3. \A j \in Nat : 1 <= j /\ j < file[r] => Has(r, Files[r][j])
  BY DEF Inv, ProgressInv
<1>4. file[r] = Len(Files[r]) + 1
  BY DEF Inv, ProgressInv
<1> QED
  BY <1>1, <1>2, <1>3, <1>4 DEF Has

\* A run that reported success has published every one of its files, and no request of
\* an earlier run takes them away again before the next run starts.
THEOREM SuccessIsComplete == Spec => []PublishedIsComplete
  BY Invariance, InvComplete, PTL

LEMMA InvCurrent == Inv => MetadataIsCurrent
  BY DEF Inv, MetadataInv, MetadataIsCurrent

\* The release names the last run that succeeded, if that run was alone.
THEOREM SuccessIsCurrent == Spec => []MetadataIsCurrent
  BY Invariance, InvCurrent, PTL

LEMMA InvCosts == Inv => FailureCostsOneAsset
<1> SUFFICES ASSUME Inv PROVE Cardinality(Lost) <= Cardinality(Costs)
  BY DEF FailureCostsOneAsset, Costs
<1> DEFINE S == {r \in Costs : Name(r) \in Lost}
           f == [r \in S |-> Name(r)]
<1>1. IsFiniteSet(Runs)
  BY FS_Interval, ReleaseAssumption DEF Runs
<1>2. IsFiniteSet(Costs)
  BY <1>1, FS_Subset DEF Costs
<1>3. IsFiniteSet(S) /\ Cardinality(S) <= Cardinality(Costs)
  BY <1>2, FS_Subset
<1>4. f \in Surjection(S, Lost)
  <2>1. f \in [S -> Lost]
    OBVIOUS
  <2>2. \A n \in Lost : \E r \in S : f[r] = n
    BY DEF Inv, LostInv
  <2> QED
    BY <2>1, <2>2 DEF Surjection
<1>5. IsFiniteSet(Lost) /\ Cardinality(Lost) <= Cardinality(S)
  BY <1>3, <1>4, FS_Surjection
<1>6. Cardinality(Lost) \in Nat /\ Cardinality(S) \in Nat /\ Cardinality(Costs) \in Nat
  BY <1>2, <1>3, <1>5, FS_CardinalityType
<1> QED
  BY <1>3, <1>5, <1>6

\* Each run that failed, and the one that is working, has taken at most one asset from
\* the release.
THEOREM FailuresAreCheap == Spec => []FailureCostsOneAsset
  BY Invariance, InvCosts, PTL

-----------------------------------------------------------------------------
(* Reruns: a run that nothing disturbs meets no failure. *)

\* All assets of a release are in one answer of the list call
OnePage == Cardinality(Names) <= PageSize

Succeeds(call, status) ==
    /\ call \in {"notes", "update"} => status = 200
    /\ call \in {"create", "upload"} => status = 201
    /\ call = "delete" => status = 204

\* What run r listed is still true of the assets of that name
StillTrue(r, n) ==
    IF n \in DOMAIN assetByName[r] THEN \E a \in assets : a.id = assetByName[r][n]
    ELSE \A a \in assets : a.name # n

\* The request in flight is one the service can grant
Granted ==
    \A q \in net :
        /\ q.call = "create" => release = 0
        /\ q.call = "delete" => \E a \in assets : a.id = q.arg
        /\ q.call = "upload" => \A a \in assets : a.name # q.arg

\* The answer of run r is the one it hopes for
WellAnswered(r) ==
    reply[r] # NoReply =>
        /\ Succeeds(pc[r], reply[r].status)
        /\ pc[r] = "tag" /\ reply[r].status = 404 => release = 0
        /\ pc[r] = "list" => reply[r].listed = assets
        /\ pc[r] = "delete" => \A a \in assets : a.name # Name(r)

RunsWell(r) ==
    /\ Granted /\ WellAnswered(r)
    /\ pc[r] \in {"delete", "upload"} =>
         \A k \in Nat : file[r] < k /\ k <= Len(Files[r]) => StillTrue(r, Files[r][k])

\* The latest run, undisturbed, has succeeded so far
RepairInv ==
    \A r \in Runs : r \notin disturbed => pc[r] # "failed" /\ (Latest(r) => RunsWell(r))

LEMMA NamesFinite == IsFiniteSet(Names)
<1> DEFINE S == {Range(Files[r]) : r \in Runs}
           f == [r \in Runs |-> Range(Files[r])]
<1>1. IsFiniteSet(Runs)
  BY FS_Interval, ReleaseAssumption DEF Runs
<1>2. f \in Surjection(Runs, S)
  BY DEF Surjection
<1>3. IsFiniteSet(S)
  <2> HIDE DEF S, f
  <2> QED
    BY <1>1, <1>2, FS_Surjection
<1>4. \A r \in Runs : IsFiniteSet(Range(Files[r]))
  <2> TAKE r \in Runs
  <2> DEFINE D == DOMAIN Files[r]
             g == [k \in D |-> Files[r][k]]
  <2>1. Files[r] \in Seq(STRING) /\ Len(Files[r]) \in Nat
    BY ReleaseAssumption
  <2>2. IsFiniteSet(D)
    BY <2>1, FS_Interval
  <2>3. g \in Surjection(D, Range(Files[r]))
    BY DEF Surjection, Range
  <2> HIDE DEF D, g
  <2> QED
    BY <2>2, <2>3, FS_Surjection
<1>5. \A T \in S : IsFiniteSet(T)
  BY <1>4
<1>6. Names = UNION S
  BY DEF Names
<1> HIDE DEF S
<1> QED
  BY <1>3, <1>5, <1>6, FS_UNION

\* Then the answer of the list call has all assets: they have different names.
LEMMA FirstPageIsAll ==
    ASSUME TypeInv, UniqueInv, OnePage
    PROVE  FirstPage = assets
<1> DEFINE name == [a \in assets |-> a.name]
<1>1. name \in Injection(assets, Names)
  <2>1. name \in [assets -> Names]
    BY DEF TypeInv
  <2>2. IsInjective(name)
    BY DEF IsInjective, UniqueInv
  <2> QED
    BY <2>1, <2>2 DEF Injection
<1>2. IsFiniteSet(assets) /\ Cardinality(assets) <= Cardinality(Names)
  <2> HIDE DEF name
  <2> QED
    BY <1>1, NamesFinite, FS_Injection
<1>3. ASSUME NEW a \in assets
      PROVE  Cardinality({b \in assets : b.id < a.id}) < PageSize
  <2> DEFINE older == {b \in assets : b.id < a.id}
  <2>1. older \subseteq assets /\ a \notin older
    BY <1>3 DEF TypeInv
  <2> HIDE DEF older
  <2>2. /\ IsFiniteSet(older) /\ Cardinality(older) <= Cardinality(assets)
        /\ Cardinality(older) # Cardinality(assets)
    BY <1>2, <1>3, <2>1, FS_Subset
  <2>3. /\ Cardinality(older) \in Nat /\ Cardinality(assets) \in Nat /\ Cardinality(Names) \in Nat
        /\ PageSize \in Nat
    BY <1>2, <2>2, NamesFinite, FS_CardinalityType, ReleaseAssumption
  <2>4. Cardinality(older) < PageSize
    BY <1>2, <2>2, <2>3 DEF OnePage
  <2> QED
    BY <2>4 DEF older
<1> QED
  BY <1>3 DEF FirstPage

\* What is known of the latest run when nothing has disturbed it: what is in flight is
\* its own request, if it has no answer yet.
LEMMA Undisturbed ==
    ASSUME Inv, RepairInv, NEW r \in Runs, Latest(r), r \notin disturbed
    PROVE  /\ pc[r] # "failed" /\ RunsWell(r)
           /\ \A q \in net : q.run = r /\ q.call = pc[r] /\ net = {q}
           /\ \A s \in Runs : Latest(s) => s = r
<1>1. NetInv /\ TypeInv /\ Runs \subseteq Nat
  BY ReleaseAssumption DEF Inv, Runs
<1>2. pc[r] # "failed" /\ RunsWell(r)
  BY DEF RepairInv
<1>3. \A q \in net : q.run = r
  BY DEF Inv, MetadataInv
<1>4. \A q \in net : q.call = pc[r] /\ net = {q}
  BY <1>1, <1>2, <1>3 DEF NetInv
<1>5. \A s \in Runs : Latest(s) => s = r
  BY <1>1 DEF Latest
<1> QED
  BY <1>2, <1>3, <1>4, <1>5

\* A run that reads an answer is alone, and goes on with call c for file k.
LEMMA MoveRepair ==
    ASSUME Inv, RepairInv, NEW r \in Runs, NEW c \in Calls \cup {"done", "failed"}, NEW arg,
           NEW k \in Nat \ {0}, NEW ids, Move(r, c, arg, k, ids),
           r \notin disturbed =>
             /\ c # "failed"
             /\ c = "create" => release = 0
             /\ c = "delete" => \E a \in assets : a.id = arg
             /\ c = "upload" => \A a \in assets : a.name # arg
             /\ c \in {"delete", "upload"} => \A j \in Nat : k < j /\ j <= Len(Files[r]) =>
                  IF Files[r][j] \in DOMAIN ids THEN \E a \in assets : a.id = ids[Files[r][j]]
                  ELSE \A a \in assets : a.name # Files[r][j]
    PROVE  RepairInv'
<1>1. TypeInv /\ OrderInv /\ NetInv
  BY DEF Inv
<1>2. Latest(r) /\ (\A q \in net : q.run # r) /\ \A s \in Runs : s # r => ~Latest(s)
  BY <1>1, ActiveIsLatest DEF Move
<1>3. /\ \A s \in Runs : s # r => pc'[s] = pc[s]
      /\ pc'[r] = c /\ reply'[r] = NoReply /\ file'[r] = k /\ assetByName'[r] = ids
      /\ UNCHANGED <<release, assets, disturbed>>
  BY <1>1 DEF Move, TypeInv, service, history
<1>4. \A s \in Runs : s # r => ~Latest(s)'
  BY <1>2, <1>3 DEF Latest, Calls
<1>5. r \notin disturbed => c # "failed" /\ RunsWell(r)'
  <2> SUFFICES ASSUME r \notin disturbed PROVE c # "failed" /\ RunsWell(r)'
    OBVIOUS
  <2>1. net = {}
    BY <1>2, Undisturbed
  <2>2. Granted'
    BY <1>3, <2>1 DEF Granted, Move
  <2>3. WellAnswered(r)'
    BY <1>3 DEF WellAnswered
  <2>4. c \in {"delete", "upload"} =>
          \A j \in Nat : k < j /\ j <= Len(Files[r]) => StillTrue(r, Files[r][j])'
    BY <1>3 DEF StillTrue
  <2> QED
    BY <1>3, <2>2, <2>3, <2>4 DEF RunsWell
<1>6. \A s \in Runs : s # r /\ s \notin disturbed => pc'[s] # "failed"
  BY <1>3 DEF RepairInv
<1> QED
  BY <1>3, <1>4, <1>5, <1>6 DEF RepairInv

\* The loop over the files, entered at file k with what is known of the rest.
LEMMA ReplaceRepair ==
    ASSUME Inv, RepairInv, NEW r \in Runs, NEW k \in Nat \ {0}, NEW ids,
           Active(r), reply[r] # NoReply, ReplaceFile(r, k, ids),
           reply' = [reply EXCEPT ![r] = NoReply], assetByName' = [assetByName EXCEPT ![r] = ids],
           UNCHANGED <<service, nextId, history>>,
           r \notin disturbed => \A j \in Nat : k <= j /\ j <= Len(Files[r]) =>
             IF Files[r][j] \in DOMAIN ids THEN \E a \in assets : a.id = ids[Files[r][j]]
             ELSE \A a \in assets : a.name # Files[r][j]
    PROVE  RepairInv'
<1>1. Len(Files[r]) \in Nat
  BY ReaderFacts
<1>2. CASE k > Len(Files[r])
  <2>1. Move(r, "done", 0, k, ids)
    BY <1>2 DEF ReplaceFile, Stop, Move, Calls
  <2> QED
    BY <2>1, MoveRepair
<1>3. CASE k <= Len(Files[r]) /\ Files[r][k] \in DOMAIN ids
  <2>1. Move(r, "delete", ids[Files[r][k]], k, ids)
    BY <1>1, <1>3 DEF ReplaceFile, Send, Move, Calls
  <2>2. r \notin disturbed => \E a \in assets : a.id = ids[Files[r][k]]
    BY <1>3
  <2>3. "delete" \in Calls \cup {"done", "failed"}
    BY DEF Calls
  <2> QED
    BY <1>1, <2>1, <2>2, <2>3, MoveRepair
<1>4. CASE k <= Len(Files[r]) /\ Files[r][k] \notin DOMAIN ids
  <2>1. Move(r, "upload", Files[r][k], k, ids)
    BY <1>1, <1>4 DEF ReplaceFile, Send, Move, Calls
  <2>2. r \notin disturbed => \A a \in assets : a.name # Files[r][k]
    BY <1>4
  <2>3. "upload" \in Calls \cup {"done", "failed"}
    BY DEF Calls
  <2> QED
    BY <1>1, <2>1, <2>2, <2>3, MoveRepair
<1> QED
  BY <1>1, <1>2, <1>3, <1>4

LEMMA ReadersRepair ==
    ASSUME Inv, RepairInv, NEW r \in Runs,
           \/ ReceiveNotes(r) \/ ReceiveTag(r) \/ ReceiveCreated(r) \/ ReceiveUpdated(r)
           \/ ReceiveAssets(r) \/ ReceiveDeleted(r) \/ ReceiveUploaded(r)
    PROVE  RepairInv'
<1>1. /\ reply[r] # NoReply /\ reply' = [reply EXCEPT ![r] = NoReply]
      /\ UNCHANGED <<service, nextId, history>>
      /\ Active(r)
  BY DEF ReceiveNotes, ReceiveTag, ReceiveCreated, ReceiveUpdated, ReceiveAssets, ReceiveDeleted, ReceiveUploaded,
         Receive, Active, Calls
<1>2. /\ Latest(r) /\ file[r] \in Nat \ {0} /\ Len(Files[r]) \in Nat
      /\ file = [file EXCEPT ![r] = file[r]] /\ assetByName = [assetByName EXCEPT ![r] = assetByName[r]]
  BY <1>1, ReaderFacts
<1>3. r \notin disturbed =>
        /\ Succeeds(pc[r], reply[r].status)
        /\ pc[r] = "tag" /\ reply[r].status = 404 => release = 0
        /\ pc[r] = "list" => reply[r].listed = assets
        /\ pc[r] = "delete" => \A a \in assets : a.name # Name(r)
        /\ pc[r] \in {"delete", "upload"} =>
             \A k \in Nat : file[r] < k /\ k <= Len(Files[r]) => StillTrue(r, Files[r][k])
  BY <1>1, <1>2, Undisturbed DEF RunsWell, WellAnswered
\* Calls that leave the file and the ids alone
<1>4. ASSUME NEW c \in Calls \cup {"failed"}, NEW arg, UNCHANGED <<file, assetByName>>,
             (c = "failed" /\ Stop(r, "failed")) \/ (c # "failed" /\ Send(r, c, arg))
      PROVE  Move(r, c, arg, file[r], assetByName[r])
  <2>1. CASE c = "failed"
    BY <1>1, <1>2, <1>4, <2>1 DEF Move, Stop, Calls
  <2>2. CASE c # "failed"
    BY <1>1, <1>2, <1>4, <2>2 DEF Move, Send, Calls
  <2> QED
    BY <2>1, <2>2
<1>5. CASE ReceiveNotes(r) \/ ReceiveTag(r) \/ ReceiveCreated(r) \/ ReceiveUpdated(r)
  <2>1. PICK c \in {"tag", "create", "update", "list", "failed"} :
          /\ (c = "failed" /\ Stop(r, "failed")) \/ (c # "failed" /\ Send(r, c, 0))
          /\ c = "create" => pc[r] = "tag" /\ reply[r].status = 404
          /\ c = "failed" => ~Succeeds(pc[r], reply[r].status)
    BY <1>5 DEF ReceiveNotes, ReceiveTag, ReceiveCreated, ReceiveUpdated, Receive, Succeeds
  <2>2. UNCHANGED <<file, assetByName>>
    BY <1>5 DEF ReceiveNotes, ReceiveTag, ReceiveCreated, ReceiveUpdated
  <2>3. c \in Calls \cup {"failed"} /\ c \notin {"delete", "upload"}
    BY DEF Calls
  <2>4. Move(r, c, 0, file[r], assetByName[r])
    BY <1>4, <2>1, <2>2, <2>3
  <2>5. r \notin disturbed => c # "failed" /\ (c = "create" => release = 0)
    BY <1>3, <2>1
  <2>6. c \in Calls \cup {"done", "failed"}
    BY <2>3
  <2> QED
    BY <1>2, <2>3, <2>4, <2>5, <2>6, MoveRepair
<1>6. CASE ReceiveDeleted(r)
  <2>1. pc[r] = "delete" /\ UNCHANGED <<file, assetByName>>
    BY <1>6 DEF ReceiveDeleted, Receive
  <2>2. CASE reply[r].status = 204
    <3>1. Move(r, "upload", Name(r), file[r], assetByName[r])
      BY <1>4, <1>6, <2>1, <2>2 DEF ReceiveDeleted, Calls
    <3>2. "upload" \in Calls \cup {"done", "failed"}
      BY DEF Calls
    <3>3. r \notin disturbed =>
            /\ \A a \in assets : a.name # Name(r)
            /\ \A j \in Nat : file[r] < j /\ j <= Len(Files[r]) =>
                 IF Files[r][j] \in DOMAIN assetByName[r] THEN \E a \in assets : a.id = assetByName[r][Files[r][j]]
                 ELSE \A a \in assets : a.name # Files[r][j]
      BY <1>3, <2>1 DEF StillTrue
    <3> QED
      BY <1>2, <3>1, <3>2, <3>3, MoveRepair
  <2>3. CASE reply[r].status # 204
    <3>1. Move(r, "failed", 0, file[r], assetByName[r])
      BY <1>4, <1>6, <2>1, <2>3 DEF ReceiveDeleted
    <3>2. r \in disturbed
      BY <1>3, <2>1, <2>3 DEF Succeeds
    <3> QED
      BY <1>2, <3>1, <3>2, MoveRepair
  <2> QED
    BY <2>2, <2>3
<1>7. CASE ReceiveUploaded(r)
  <2>1. pc[r] = "upload" /\ UNCHANGED assetByName
    BY <1>7 DEF ReceiveUploaded, Receive
  <2>2. CASE reply[r].status = 201
    <3> DEFINE k == file[r] + 1
               ids == assetByName[r]
    <3>1. ReplaceFile(r, k, ids) /\ assetByName' = [assetByName EXCEPT ![r] = ids] /\ k \in Nat \ {0}
      BY <1>2, <1>7, <2>1, <2>2 DEF ReceiveUploaded
    <3>2. r \notin disturbed => \A j \in Nat : k <= j /\ j <= Len(Files[r]) =>
             IF Files[r][j] \in DOMAIN ids THEN \E a \in assets : a.id = ids[Files[r][j]]
             ELSE \A a \in assets : a.name # Files[r][j]
      <4>1. \A j \in Nat : k <= j => file[r] < j
        BY <1>2
      <4> QED
        BY <1>3, <2>1, <4>1 DEF StillTrue
    <3> HIDE DEF k, ids
    <3> QED
      BY <1>1, <3>1, <3>2, ReplaceRepair
  <2>3. CASE reply[r].status # 201
    <3>1. Move(r, "failed", 0, file[r], assetByName[r])
      BY <1>4, <1>7, <2>1, <2>3 DEF ReceiveUploaded
    <3>2. r \in disturbed
      BY <1>3, <2>1, <2>3 DEF Succeeds
    <3> QED
      BY <1>2, <3>1, <3>2, MoveRepair
  <2> QED
    BY <2>2, <2>3
<1>8. CASE ReceiveAssets(r)
  <2> DEFINE listed == reply[r].listed
             ids == [n \in {a.name : a \in listed} |-> (CHOOSE a \in listed : a.name = n).id]
             k == 1
  <2>1. /\ pc[r] = "list" /\ ReplaceFile(r, k, ids) /\ k \in Nat \ {0}
        /\ assetByName' = [assetByName EXCEPT ![r] = ids]
    BY <1>8 DEF ReceiveAssets, Receive
  <2>2. \A n \in DOMAIN ids : \E a \in listed : a.id = ids[n]
    OBVIOUS
  <2>3. \A n : n \notin DOMAIN ids => \A a \in listed : a.name # n
    OBVIOUS
  <2>4. r \notin disturbed => listed = assets
    BY <1>3, <2>1
  <2> HIDE DEF ids, listed, k
  <2> QED
    BY <1>1, <2>1, <2>2, <2>3, <2>4, ReplaceRepair
<1> QED
  BY <1>5, <1>6, <1>7, <1>8

\* A run that starts while a request is in flight is disturbed; so is one that is killed.
LEMMA StartRepair ==
    ASSUME Inv, RepairInv, NEW r \in Runs, Start(r) \/ TimeOut(r) \/ Cancel(r)
    PROVE  RepairInv'
<1>1. TypeInv /\ OrderInv /\ NetInv /\ Runs \subseteq Nat
  BY ReleaseAssumption DEF Inv, Runs
<1>2. \A s \in Runs : s # r => pc'[s] = pc[s]
  BY <1>1 DEF Start, Send, TimeOut, Cancel, TypeInv
<1>3. /\ disturbed \subseteq disturbed' /\ disturbed' \subseteq disturbed \cup {r}
      /\ pc'[r] # "idle"
  BY <1>1 DEF Start, Send, TimeOut, Cancel, TypeInv
<1>4. \A s \in Runs : s # r => ~Latest(s)'
  <2>1. CASE Start(r)
    <3>1. \A s \in Runs : s > r => pc[s] = "idle"
      BY <1>1, <2>1 DEF Start, OrderInv, Ended
    <3> QED
      BY <1>1, <1>2, <1>3, <3>1 DEF Latest
  <2>2. CASE TimeOut(r) \/ Cancel(r)
    <3>1. Latest(r)
      BY <1>1, <2>2, ActiveIsLatest DEF TimeOut, Cancel
    <3> QED
      BY <1>1, <1>2, <1>3, <3>1 DEF Latest
  <2> QED
    BY <2>1, <2>2
<1>5. ASSUME r \notin disturbed' PROVE pc'[r] # "failed" /\ RunsWell(r)'
  <2> DEFINE c == IF r \in Noted THEN "notes" ELSE "tag"
  <2>1. Start(r) /\ net = {}
    BY <1>5 DEF Start, TimeOut, Cancel
  <2>2. pc[r] = "idle" /\ pc' = [pc EXCEPT ![r] = c] /\ net' = {[run |-> r, call |-> c, arg |-> 0]} /\ reply' = reply
    BY <2>1 DEF Start, Send
  <2>3. c \in {"notes", "tag"}
    OBVIOUS
  <2> HIDE DEF c
  <2>4. pc'[r] = c /\ reply'[r] = NoReply
    BY <1>1, <2>2 DEF TypeInv, NetInv
  <2>5. Granted'
    BY <2>2, <2>3 DEF Granted
  <2> QED
    BY <2>3, <2>4, <2>5 DEF RunsWell, WellAnswered
<1>6. \A s \in Runs : s # r /\ s \notin disturbed' => pc'[s] # "failed"
  BY <1>2, <1>3 DEF RepairInv
<1> QED
  BY <1>4, <1>5, <1>6 DEF RepairInv

\* The only request in flight is that of the undisturbed run, which gets the answer
\* it hopes for; with several pages of assets, the list would not have them all.
LEMMA ServiceRepair ==
    ASSUME Inv, RepairInv, OnePage, NEW q \in net, ServiceStep(q)
    PROVE  RepairInv'
<1>1. TypeInv /\ UniqueInv /\ NetInv /\ DeleteInv
  BY DEF Inv
<1>2. UNCHANGED <<pc, file, assetByName, disturbed>>
  BY DEF ServiceStep, ServeNotes, ServeTag, ServeCreate, ServeUpdate, ServeList, ServeDelete, ServeUpload, Lose,
         Serve, client, history
<1> SUFFICES ASSUME NEW r \in Runs, Latest(r), r \notin disturbed PROVE RunsWell(r)'
  BY <1>2 DEF RepairInv, Latest
<1>3. q.run = r /\ q.call = pc[r] /\ net = {q} /\ RunsWell(r)
  BY Undisturbed
<1>4. ASSUME NEW call, NEW answer, Serve(q, call, answer)
      PROVE  pc[r] = call /\ q.call = call /\ reply'[r] = answer /\ net' = {}
  BY <1>1, <1>3, <1>4 DEF Serve, TypeInv
<1>5. \A status, listed : Answer(status, listed).status = status /\ Answer(status, listed).listed = listed
  BY DEF Answer
<1>6. ASSUME net' = {}, NEW status, NEW listed, reply'[r] = Answer(status, listed), Succeeds(pc[r], status),
             pc[r] = "tag" /\ status = 404 => release' = 0,
             pc[r] = "list" => listed = assets',
             pc[r] = "delete" => \A a \in assets' : a.name # Name(r),
             pc[r] \in {"delete", "upload"} =>
               \A k \in Nat : file[r] < k /\ k <= Len(Files[r]) => StillTrue(r, Files[r][k])'
      PROVE  RunsWell(r)'
  <2>1. Granted'
    BY <1>6 DEF Granted
  <2>2. WellAnswered(r)'
    BY <1>2, <1>5, <1>6 DEF WellAnswered, Name
  <2> QED
    BY <1>2, <1>6, <2>1, <2>2 DEF RunsWell
<1>7. CASE ServeNotes(q)
  <2>1. Serve(q, "notes", Answer(200, {}))
    BY <1>7 DEF ServeNotes
  <2> QED
    BY <1>4, <1>6, <2>1 DEF Succeeds
<1>8. CASE ServeTag(q)
  <2> DEFINE status == IF release = 0 THEN 404 ELSE 200
  <2>1. Serve(q, "tag", Answer(status, {})) /\ UNCHANGED release
    BY <1>8 DEF ServeTag, service
  <2>2. status = 404 => release = 0
    OBVIOUS
  <2> HIDE DEF status
  <2> QED
    BY <1>4, <1>6, <2>1, <2>2 DEF Succeeds
<1>9. CASE ServeCreate(q)
  <2>1. Serve(q, "create", Answer(IF release = 0 THEN 201 ELSE 422, {}))
    BY <1>9 DEF ServeCreate
  <2>2. release = 0
    BY <1>3, <1>4, <2>1 DEF RunsWell, Granted
  <2>3. Serve(q, "create", Answer(201, {}))
    BY <2>1, <2>2
  <2> QED
    BY <1>4, <1>6, <2>3 DEF Succeeds
<1>10. CASE ServeUpdate(q)
  <2>1. Serve(q, "update", Answer(200, {}))
    BY <1>10 DEF ServeUpdate
  <2> QED
    BY <1>4, <1>6, <2>1 DEF Succeeds
<1>11. CASE ServeList(q)
  <2>1. Serve(q, "list", Answer(200, FirstPage)) /\ assets' = assets
    BY <1>11 DEF ServeList, service
  <2>2. FirstPage = assets
    BY <1>1, FirstPageIsAll
  <2> QED
    BY <1>4, <1>6, <2>1, <2>2 DEF Succeeds
<1>12. ASSUME pc[r] \in {"delete", "upload"}
       PROVE  \A k \in Nat : file[r] < k /\ k <= Len(Files[r]) =>
                StillTrue(r, Files[r][k]) /\ Files[r][k] # Name(r)
  <2>1. \A k \in Nat : file[r] < k /\ k <= Len(Files[r]) => StillTrue(r, Files[r][k])
    BY <1>3, <1>12 DEF RunsWell
  <2>2. Files[r] \in Seq(STRING) /\ IsInjective(Files[r]) /\ file[r] \in Nat \ {0} /\ file[r] <= Len(Files[r])
    BY <1>12, ReleaseAssumption, ReaderFacts DEF Active, Calls
  <2>3. \A k \in Nat : file[r] < k /\ k <= Len(Files[r]) =>
          k \in DOMAIN Files[r] /\ file[r] \in DOMAIN Files[r] /\ k # file[r]
    BY <2>2
  <2> QED
    BY <2>1, <2>2, <2>3 DEF IsInjective, Name
<1>13. CASE ServeDelete(q)
  <2> DEFINE found == {a \in assets : a.id = q.arg}
  <2>1. Serve(q, "delete", Answer(IF found = {} THEN 404 ELSE 204, {})) /\ assets' = assets \ found
    BY <1>13 DEF ServeDelete
  <2>2. q.call = "delete" /\ pc[r] = "delete"
    BY <1>4, <2>1
  <2>3. found # {}
    BY <1>3, <2>2 DEF RunsWell, Granted
  <2>4. Serve(q, "delete", Answer(204, {}))
    BY <2>1, <2>3
  <2>5. \A a \in assets : a.id = q.arg => a.name = Name(r)
    BY <1>1, <1>3, <2>2 DEF DeleteInv
  <2>6. \A a \in assets' : a \in assets /\ a.name # Name(r)
    <3>1. PICK b \in assets : b.id = q.arg
      BY <2>3
    <3> QED
      BY <1>1, <2>1, <2>5, <3>1 DEF UniqueInv
  <2>7. ASSUME NEW k \in Nat, file[r] < k, k <= Len(Files[r]) PROVE StillTrue(r, Files[r][k])'
    <3> DEFINE n == Files[r][k]
    <3>1. StillTrue(r, n) /\ n # Name(r)
      BY <1>12, <2>2, <2>7
    <3> HIDE DEF n
    <3>2. CASE n \in DOMAIN assetByName[r]
      <4>1. PICK a \in assets : a.id = assetByName[r][n]
        BY <3>1, <3>2 DEF StillTrue
      <4>2. a.name = n
        BY <1>1, <3>2, <4>1 DEF DeleteInv
      <4>3. a \in assets'
        BY <2>1, <2>5, <3>1, <4>2
      <4>4. n \in DOMAIN assetByName'[r] /\ a.id = assetByName'[r][n]
        BY <1>2, <3>2, <4>1
      <4>5. IF n \in DOMAIN assetByName'[r] THEN \E x \in assets' : x.id = assetByName'[r][n]
            ELSE \A x \in assets' : x.name # n
        BY <4>3, <4>4
      <4> QED
        BY <4>5 DEF StillTrue, n
    <3>3. CASE n \notin DOMAIN assetByName[r]
      <4>1. IF n \in DOMAIN assetByName'[r] THEN \E x \in assets' : x.id = assetByName'[r][n]
            ELSE \A x \in assets' : x.name # n
        BY <1>2, <2>6, <3>1, <3>3 DEF StillTrue
      <4> QED
        BY <4>1 DEF StillTrue, n
    <3> QED
      BY <3>2, <3>3
  <2> HIDE DEF found
  <2> QED
    BY <1>4, <1>6, <2>2, <2>4, <2>6, <2>7 DEF Succeeds
<1>14. CASE ServeUpload(q)
  <2> DEFINE new == [id |-> nextId, name |-> q.arg, by |-> q.run]
  <2>1. q.call = "upload" /\ pc[r] = "upload"
    <3>1. PICK answer : Serve(q, "upload", answer)
      BY <1>14 DEF ServeUpload
    <3> QED
      BY <1>4, <3>1
  <2>2. ~(\E a \in assets : a.name = q.arg) /\ q.arg = Name(r)
    BY <1>1, <1>3, <2>1 DEF RunsWell, Granted, NetInv
  <2>3. Serve(q, "upload", Answer(201, {})) /\ assets' = assets \cup {new}
    BY <1>14, <2>2 DEF ServeUpload
  <2>4. new.name = Name(r)
    BY <2>2
  <2> HIDE DEF new
  <2>5. ASSUME NEW k \in Nat, file[r] < k, k <= Len(Files[r]) PROVE StillTrue(r, Files[r][k])'
    <3> DEFINE n == Files[r][k]
    <3>1. StillTrue(r, n) /\ n # Name(r)
      BY <1>12, <2>1, <2>5
    <3> HIDE DEF n
    <3>2. IF n \in DOMAIN assetByName'[r] THEN \E x \in assets' : x.id = assetByName'[r][n]
          ELSE \A x \in assets' : x.name # n
      BY <1>2, <2>3, <2>4, <3>1 DEF StillTrue
    <3> QED
      BY <3>2 DEF StillTrue, n
  <2> QED
    BY <1>4, <1>6, <2>1, <2>3, <2>5 DEF Succeeds
<1>15. CASE Lose(q)
  BY <1>3, <1>15 DEF Lose
<1> QED
  BY <1>7, <1>8, <1>9, <1>10, <1>11, <1>13, <1>14, <1>15 DEF ServiceStep

LEMMA RepairInvariance ==
    ASSUME OnePage
    PROVE  Spec => []RepairInv
<1>1. Init => RepairInv
  BY DEF Init, RepairInv, Latest
<1>2. Inv /\ RepairInv /\ [Next]_vars => RepairInv'
  <2> SUFFICES ASSUME Inv, RepairInv, [Next]_vars PROVE RepairInv'
    OBVIOUS
  <2>1. ASSUME NEW r \in Runs, Start(r) \/ ClientStep(r) \/ Cancel(r) PROVE RepairInv'
    BY <2>1, StartRepair, ReadersRepair DEF ClientStep
  <2>2. ASSUME NEW q \in net, ServiceStep(q) PROVE RepairInv'
    BY <2>2, ServiceRepair
  <2>3. CASE UNCHANGED vars
    BY <2>3 DEF vars, client, service, history, RepairInv, Latest, RunsWell, Granted, WellAnswered, StillTrue, Name
  <2> QED
    BY <2>1, <2>2, <2>3 DEF Next
<1> QED
  BY <1>1, <1>2, Invariance, PTL DEF Spec

\* While the assets of a release fit one page of the list call, a run that meets no
\* timeout, no cancellation and no request of an earlier run succeeds, whatever state
\* the failures of any number of earlier runs left the release in.
THEOREM RerunsRepair ==
    ASSUME OnePage
    PROVE  Spec => []RerunRepairs
<1>1. RepairInv => RerunRepairs
  BY DEF RepairInv, RerunRepairs
<1> QED
  BY <1>1, RepairInvariance, PTL
=============================================================================
