--------------------------- MODULE PortalInventory ---------------------------
(***************************************************************************)
(* The inventory of the portal's decisions that a backfill starts from:    *)
(* the years are discovered, each year is read page by page while the      *)
(* portal goes on publishing, and what was read is merged, certified and   *)
(* persisted as five objects under one prefix (backend/scripts/            *)
(* scj_decision_year_discovery, scj_year_inventory,                        *)
(* merge_scj_1994_inventory and persist_scj_certified_inventory.py, run by *)
(* scj-1994-full-storage-backfill.yml).                                    *)
(*                                                                         *)
(* A record is a decision of the portal, a locator the URL of its document. *)
(***************************************************************************)
EXTENDS Integers, Sequences, FiniteSets, SequencesExt


CONSTANTS Years,           \* the years of the selector, in order
          Published,       \* the records a year may hold
          Locator,         \* record to its locator
          NoLocator,
          PageSize,
          MinimumRecords,  \* certification asks for more records than this
          MaxDrift,        \* bound: changes of the portal
          MaxInventories   \* bound: dispatches

ASSUME PortalRecords == \A y \in Years : Published[y] \subseteq Nat
ASSUME PortalBounds == /\ Years \subseteq Nat /\ PageSize \in Nat \ {0}
                       /\ MinimumRecords \in Nat /\ MaxDrift \in Nat

VARIABLES listing,    \* the portal: the records of each year, in order
          drift,      \* its changes so far
          inventory,  \* the run: number, phase, years ahead and active, what was certified
          shards,     \* the job of each year
          snapshots   \* stored files: prefix and name to content

portalVars == <<listing, drift, inventory, shards, snapshots>>

(* summary.json first: it names the digests of the others.                   *)
Files == <<"summary", "source", "acquisition", "no-locator", "duplicates">>

Waiting == [phase |-> "waiting", total |-> 0, page |-> 0, rows |-> {},
            began |-> {}, grown |-> FALSE, shrunk |-> FALSE]
Uncertified == [years |-> {}, source |-> {}]

PortalInit ==
    /\ listing \in [Years -> {<<>>}] /\ drift = 0
    /\ inventory = [number |-> 0, phase |-> "idle", ahead |-> {}, active |-> {},
                    certified |-> Uncertified, file |-> 1]
    /\ shards = [y \in Years |-> Waiting]
    /\ snapshots = [k \in {} |-> {}]

-----------------------------------------------------------------------------
(* The portal: a record is published or withdrawn at any place of its year.  *)
Drifts(y, rows, grows) ==
    /\ drift < MaxDrift /\ drift' = drift + 1
    /\ listing' = [listing EXCEPT ![y] = rows]
    /\ shards' = [shards EXCEPT ![y].grown = shards[y].grown \/ grows,
                                ![y].shrunk = shards[y].shrunk \/ ~grows]
    /\ UNCHANGED <<inventory, snapshots>>

Publish(y, r, at) ==
    /\ at \in 1 .. Len(listing[y]) + 1 /\ r \in Published[y] \ ToSet(listing[y])
    /\ Drifts(y, InsertAt(listing[y], at, r), TRUE)
Withdraw(y, at) == /\ at \in DOMAIN listing[y]
                   /\ Drifts(y, RemoveAt(listing[y], at), FALSE)

-----------------------------------------------------------------------------
InPhase(p) == inventory.phase = p
Moves(p) == inventory' = [inventory EXCEPT !.phase = p]

(* A dispatch cancels the run before it.                                     *)
DispatchInventory ==
    /\ inventory.number < MaxInventories
    /\ inventory' = [number |-> inventory.number + 1, phase |-> "discover", ahead |-> Years,
                     active |-> {}, certified |-> Uncertified, file |-> 1]
    /\ shards' = [y \in Years |-> Waiting]
    /\ UNCHANGED <<listing, drift, snapshots>>

(* The portal, the runner or the store gives up: the run ends here.          *)
InventoryFails ==
    /\ inventory.phase \notin {"idle", "failed", "persisted"} /\ Moves("failed")
    /\ UNCHANGED <<listing, drift, shards, snapshots>>

(* scj_decision_year_discovery: the years with records, one after the other.  *)
DiscoverYear ==
    /\ InPhase("discover") /\ inventory.ahead # {}
    /\ LET y == CHOOSE y \in inventory.ahead : \A z \in inventory.ahead : y <= z IN
       inventory' = [inventory EXCEPT !.ahead = @ \ {y},
                        !.active = @ \cup IF listing[y] # <<>> THEN {y} ELSE {}]
    /\ UNCHANGED <<listing, drift, shards, snapshots>>

YearsDiscovered ==
    /\ InPhase("discover") /\ inventory.ahead = {}
    /\ Moves(IF inventory.active = {} THEN "failed" ELSE "read")
    /\ UNCHANGED <<listing, drift, shards, snapshots>>

-----------------------------------------------------------------------------
(* scj_year_inventory: the jobs of the active years, in any order.           *)
Shard(y, s) == /\ shards' = [shards EXCEPT ![y] = s]
               /\ UNCHANGED <<listing, drift, inventory, snapshots>>

(* A row is its line, the place it has in the listing, and its record.       *)
AllRows(y) == {<<n, listing[y][n]>> : n \in DOMAIN listing[y]}
Rows(y, page) == {r \in AllRows(y) : (r[1] - 1) \div PageSize = page}

BeginYear(y) ==
    /\ InPhase("read") /\ y \in inventory.active /\ shards[y].phase = "waiting"
    /\ Shard(y, [Waiting EXCEPT !.phase = IF listing[y] = <<>> THEN "read" ELSE "reading",
                                !.total = Len(listing[y]), !.began = AllRows(y)])

(* One key for each line, and as many lines as the total.                    *)
CoversTotal(rows, total) ==
    /\ Cardinality({r[1] : r \in rows}) = total
    /\ \A r, q \in rows : r[1] = q[1] => r = q

(* Mutant: the total of a page is not compared with the first.               *)
SameTotalUnchecked(y) == TRUE

SameTotal(y) == Len(listing[y]) = shards[y].total

FetchPage(y) ==
    /\ InPhase("read") /\ shards[y].phase = "reading"
    /\ LET s == shards[y]
           page == Rows(y, s.page)
           rows == s.rows \cup page
           good == SameTotal(y) /\ page # {}
           last == (s.page + 1) * PageSize >= s.total IN
       Shard(y, [s EXCEPT !.page = @ + 1, !.rows = rows,
                   !.phase = IF good /\ ~last THEN "reading"
                             ELSE IF good /\ CoversTotal(rows, s.total) THEN "read"
                             ELSE "failed"])

Captured(y) == shards[y].rows

-----------------------------------------------------------------------------
(* merge_scj_1994_inventory: the first row of each record, and of these the  *)
(* first record of each locator.  A row is written with its line.            *)
Merged(rows) == {r \in rows : \A q \in rows : q[2] = r[2] => r[1] <= q[1]}
Url(r) == Locator[r[2]]
WithLocator(source) == {r \in source : Url(r) # NoLocator}
Acquisition(source) ==
    {r \in WithLocator(source) : \A q \in source : Url(q) = Url(r) => r[2] <= q[2]}

(* What a file holds: the summary counts years and names the two digests.    *)
Content(c, name) ==
    CASE name = "summary" -> <<c.years, c.source, Acquisition(c.source)>>
      [] name = "source" -> c.source
      [] name = "acquisition" -> Acquisition(c.source)
      [] name = "no-locator" -> c.source \ WithLocator(c.source)
      [] name = "duplicates" -> WithLocator(c.source) \ Acquisition(c.source)

(* validate_scj_1994_certified_artifact refuses an empty inventory.          *)
Certify ==
    /\ InPhase("read") /\ \A y \in inventory.active : shards[y].phase = "read"
    /\ LET source == Merged(UNION {Captured(y) : y \in inventory.active}) IN
       IF Cardinality(source) > MinimumRecords /\ WithLocator(source) # {}
       THEN inventory' = [inventory EXCEPT !.phase = "certified",
               !.certified = [years |-> {<<y, shards[y].total>> : y \in inventory.active},
                              source |-> source]]
       ELSE Moves("failed")
    /\ UNCHANGED <<listing, drift, shards, snapshots>>

(* A year that failed fails the run.                                         *)
YearFailed ==
    /\ InPhase("read") /\ \E y \in inventory.active : shards[y].phase = "failed"
    /\ Moves("failed") /\ UNCHANGED <<listing, drift, shards, snapshots>>

-----------------------------------------------------------------------------
(* persist_scj_certified_inventory: the prefix is the digest of the          *)
(* acquisition inventory alone.                                              *)
Prefix(c) == Acquisition(c.source)
Stored(c, name) == <<Prefix(c), name>> \in DOMAIN snapshots
Holds(c, name) == /\ Stored(c, name)
                  /\ snapshots[<<Prefix(c), name>>] = Content(c, name)
Accepts(c, name) == Stored(c, name) => Holds(c, name)

Persisted(k, content) == [q \in DOMAIN snapshots \cup {k} |->
                            IF q = k THEN content ELSE snapshots[q]]

(* Head, then put what is absent; an answer may be lost after the put.  What *)
(* is there and is not the same ends the run.                                *)
PersistFile ==
    /\ InPhase("certified")
    /\ LET c == inventory.certified
           name == Files[inventory.file] IN
       \/ ~Accepts(c, name) /\ Moves("failed") /\ UNCHANGED snapshots
       \/ /\ Accepts(c, name)
          /\ snapshots' = IF Stored(c, name) THEN snapshots
                          ELSE Persisted(<<Prefix(c), name>>, Content(c, name))
          /\ \/ inventory' = [inventory EXCEPT !.file = @ + 1,
                    !.phase = IF inventory.file = Len(Files) THEN "persisted"
                              ELSE "certified"]
             \/ ~Stored(c, name) /\ Moves("failed")
    /\ UNCHANGED <<listing, drift, shards>>

PortalNext ==
    \/ DispatchInventory \/ InventoryFails
    \/ DiscoverYear \/ YearsDiscovered \/ Certify \/ YearFailed \/ PersistFile
    \/ \E y \in Years :
          \/ BeginYear(y) \/ FetchPage(y)
          \/ \E at \in 1 .. Cardinality(Published[y]) :
                Withdraw(y, at) \/ \E r \in Published[y] : Publish(y, r, at)

-----------------------------------------------------------------------------
PortalTypeOK ==
    /\ listing \in [Years -> Seq(UNION {Published[y] : y \in Years})]
    /\ drift \in 0 .. MaxDrift
    /\ inventory.phase \in {"idle", "discover", "read", "certified", "persisted", "failed"}
    /\ inventory.active \subseteq Years /\ inventory.file \in 1 .. Len(Files) + 1
    /\ \A y \in Years : shards[y].phase \in {"waiting", "reading", "read", "failed"}

(* The listing moves while it is read and runs die while they persist.  A     *)
(* year that was read holds what the portal listed when the reading began,   *)
(* unless the portal both published and withdrew meanwhile; a prefix with    *)
(* all five files holds those of one certification, and once a run has       *)
(* persisted its own, the backfill's list has each locator exactly once.     *)
SnapshotIsCertified ==
    /\ \A y \in Years :
          shards[y].phase = "read" /\ ~(shards[y].grown /\ shards[y].shrunk) =>
              Captured(y) = shards[y].began
    /\ \A p \in {k[1] : k \in DOMAIN snapshots} :
          (\A i \in DOMAIN Files : <<p, Files[i]>> \in DOMAIN snapshots) =>
              LET summary == snapshots[<<p, "summary">>]
                  c == [years |-> summary[1], source |-> summary[2]] IN
              \A i \in DOMAIN Files : snapshots[<<p, Files[i]>>] = Content(c, Files[i])
    /\ inventory.phase = "persisted" =>
          LET c == inventory.certified IN
          /\ \A i \in DOMAIN Files : Holds(c, Files[i])
          /\ \A l \in {Url(r) : r \in WithLocator(c.source)} :
                Cardinality({r \in snapshots[<<Prefix(c), "acquisition">>] : Url(r) = l}) = 1
=============================================================================
