---------------------------- MODULE VaultClients ----------------------------
(***************************************************************************)
(* Summary delivery and memory sync at work on one vault: their whole-tree  *)
(* commits and clean-tree checks meet there.                                *)
(***************************************************************************)
EXTENDS SummaryDelivery, MemorySync

CONSTANT MaxNews   \* bound: revisions archived and contents held, in all

\* The messages of deliveries ("munshi: ..."), passes ("munshi memory ...") and
\* the user are told apart, and the user edits a note of their own.
ASSUME VaultClientsAssumption ==
  /\ MaxNews \in Nat
  /\ Sessions \cap Directories = {}
  /\ UserPath \notin Sessions \cup Directories
  /\ UserPath \notin {NotePath(s) : s \in Sessions}
                     \cup {FilePath(d) : d \in Directories}
                     \cup {ManifestPath(d) : d \in Directories}

vars == <<vault, client, faults, overlaps, deliveryVars, memoryVars>>

Init == VaultInit /\ DeliveryInit /\ MemoryInit

\* The revisions archived and the contents held so far are within the bound.
NewsLeft ==
  MapThenSumSet(LAMBDA s : archived[s], Sessions)
    + MapThenSumSet(Now, Directories) < MaxNews

\* One step of a delivery, or of a sync pass, of client p.
DeliveryStep(p) ==
  /\ \/ NewsLeft /\ \E s \in Sessions : WorkerArchives(p, s)
     \/ TickBegins(p) \/ OperatorBegins(p) \/ Delivers(p)
  /\ UNCHANGED memoryVars
SyncStep(p) ==
  /\ \/ \E due, force \in BOOLEAN : SyncBegins(p, due, force)
     \/ Syncs(p)
  /\ UNCHANGED deliveryVars

Next ==
  \/ \E p \in Clients : DeliveryStep(p) \/ SyncStep(p)
  \/ \E p \in Clients : ClientDies(p) /\ UNCHANGED <<deliveryVars, memoryVars>>
  \/ VaultUser /\ UNCHANGED <<deliveryVars, memoryVars>>
  \/ /\ NewsLeft
     /\ \E d \in Directories : AgentRemembers(d) /\ UNCHANGED deliveryVars

Spec == Init /\ [][Next]_vars

-----------------------------------------------------------------------------
\* The type of every variable.
TypeOK ==
  /\ DOMAIN vault = {"git", "notes", "head", "log"}
  /\ \A p \in Clients : client[p].pc = "idle" => client[p] = Idle
  /\ archived \in [Sessions -> 0 .. MaxRevision]
  /\ \A s \in Sessions : delivery[s].state \in States /\ delivery[s].rev <= archived[s]
  /\ \A d \in Directories :
       Now(d) \in 1 .. MaxMemory /\ mirror[d].hash \in 0 .. Now(d)
=============================================================================
