----------------------------- MODULE BundleStore -----------------------------
(***************************************************************************)
(* ml/serving/bundlestore.py, and the start of the model server in         *)
(* runtime.py and server.py: one serving bundle on its way from a          *)
(* developer's directory through the object store into the volume of the   *)
(* deployed model server.  Publishing uploads file by file; fetching       *)
(* downloads file by file into a partial directory that every fetcher of   *)
(* the bundle shares, verifies it and renames it.  Any process may be      *)
(* killed between two calls.                                               *)
(*                                                                         *)
(* A bundle is the set of its files.  Verifying is finding them all: the   *)
(* bundle is named by their hashes, and a transfer is atomic for one file. *)
(***************************************************************************)
EXTENDS Integers, FiniteSets

CONSTANTS
  Names,       \* the files of the manifest
  Publishers,  \* processes of `bundlestore publish`
  Server,      \* the model server's container
  Operators,   \* other processes of `bundlestore fetch` on the volume
  MaxKills     \* bound on the processes killed

Fetchers == Operators \cup {Server}
Manifest == "manifest.json"

StoreAssumption ==
  /\ Manifest \notin Names /\ IsFiniteSet(Names) /\ Names # {}
  /\ Server \notin Operators /\ MaxKills \in Nat

All == Names \cup {Manifest}
Absent == {"no directory"}

VARIABLES
  objects,  \* the bundle's objects in the store
  partial,  \* dest/.<id>.partial: its files, or Absent
  target,   \* dest/<id>: its files, or Absent
  pub,      \* a publisher's phase and the files it has not uploaded yet
  fetch,    \* a fetcher's phase and the files it has not downloaded or opened yet
  kills

vars == <<objects, partial, target, pub, fetch, kills>>

\* verify(): the manifest can be read and every file hashes to its entry.
Verifies(directory) == directory = All

Init ==
  /\ objects = {} /\ partial = Absent /\ kills = 0
  \* The volume is new, or holds a directory something once damaged.
  /\ target \in {Absent} \cup {All \ {n} : n \in Names}
  /\ pub = [p \in Publishers |-> [phase |-> "new", left |-> {}]]
  /\ fetch = [f \in Fetchers |-> [phase |-> "new", left |-> {}]]

----------------------------------------------------------------------------
\* publish(): the head of the manifest decides whether anything is uploaded.
Head(p) ==
  /\ pub[p].phase = "new"
  /\ pub' = [pub EXCEPT ![p] = IF Manifest \in objects
                               THEN [phase |-> "done", left |-> {}]
                               ELSE [phase |-> "upload", left |-> Names]]
  /\ UNCHANGED <<objects, partial, target, fetch, kills>>

Uploads(n) == {n}

UploadFile(p) ==
  /\ pub[p].phase = "upload"
  /\ \E n \in pub[p].left :
       /\ objects' = objects \cup Uploads(n)
       /\ pub' = [pub EXCEPT ![p].left = @ \ {n}]
  /\ UNCHANGED <<partial, target, fetch, kills>>

\* The manifest goes last: its presence marks the bundle complete.
UploadManifest(p) ==
  /\ pub[p].phase = "upload" /\ pub[p].left = {}
  /\ objects' = objects \cup {Manifest}
  /\ pub' = [pub EXCEPT ![p].phase = "done"]
  /\ UNCHANGED <<partial, target, fetch, kills>>

Publish(p) == Head(p) \/ UploadFile(p) \/ UploadManifest(p)

----------------------------------------------------------------------------
Go(f, phase, left) == fetch' = [fetch EXCEPT ![f] = [phase |-> phase, left |-> left]]

\* An exception ends the process.
Fail(f) == Go(f, "dead", {}) /\ UNCHANGED <<objects, partial, target>>

\* Faulty variant: a manifest is enough.
IsThereByManifest(directory) == Manifest \in directory

\* fetch(): what is already there and verifies is used as it is.
IsThere(directory) == Manifest \in directory /\ Verifies(directory)

CheckTarget(f) ==
  /\ fetch[f].phase = "new"
  /\ IF IsThere(target) THEN Go(f, "fetched", {}) ELSE Go(f, "mkdir", {})
  /\ UNCHANGED <<objects, partial, target, pub, kills>>

\* mkdir(exist_ok) and the manifest, which a bundle not yet published lacks.
GetManifest(f) ==
  /\ fetch[f].phase = "mkdir"
  /\ partial' = IF partial = Absent THEN {} ELSE partial
  /\ IF Manifest \in objects THEN Go(f, "download", Names) ELSE Go(f, "dead", {})
  /\ UNCHANGED <<objects, target, pub, kills>>

\* Another fetcher may have renamed the directory meanwhile.
Download(f) ==
  /\ fetch[f].phase = "download" /\ fetch[f].left # {}
  /\ \E n \in fetch[f].left :
       IF partial = Absent \/ n \notin objects
       THEN Fail(f)
       ELSE /\ partial' = partial \cup {n}
            /\ Go(f, "download", fetch[f].left \ {n})
            /\ UNCHANGED <<objects, target>>
  /\ UNCHANGED <<pub, kills>>

WriteManifest(f) ==
  /\ fetch[f].phase = "download" /\ fetch[f].left = {}
  /\ IF partial = Absent
     THEN Fail(f)
     ELSE /\ partial' = partial \cup {Manifest}
          /\ Go(f, "verify", {})
          /\ UNCHANGED <<objects, target>>
  /\ UNCHANGED <<pub, kills>>

VerifyPartial(f) ==
  /\ fetch[f].phase = "verify"
  /\ IF Verifies(partial)
     THEN IF target = Absent THEN Go(f, "rename", {}) ELSE Go(f, "remove", target)
     ELSE Go(f, "dead", {})
  /\ UNCHANGED <<objects, partial, target, pub, kills>>

\* shutil.rmtree: the files it listed one by one, then the directory; it fails
\* on what another fetcher has removed or put in place meanwhile.
Remove(f) ==
  /\ fetch[f].phase = "remove"
  /\ IF fetch[f].left = {}
     THEN IF target = {}
          THEN target' = Absent /\ Go(f, "rename", {}) /\ UNCHANGED <<objects, partial>>
          ELSE Fail(f)
     ELSE \E n \in fetch[f].left :
            IF n \in target
            THEN /\ target' = target \ {n}
                 /\ Go(f, "remove", fetch[f].left \ {n})
                 /\ UNCHANGED <<objects, partial>>
            ELSE Fail(f)
  /\ UNCHANGED <<pub, kills>>

\* tmp.rename(target) fails without a source and on a directory with files.
Rename(f) ==
  /\ fetch[f].phase = "rename"
  /\ IF partial = Absent \/ target \notin {Absent, {}}
     THEN Fail(f)
     ELSE /\ target' = partial /\ partial' = Absent
          /\ Go(f, "fetched", {})
          /\ UNCHANGED objects
  /\ UNCHANGED <<pub, kills>>

\* ServingBundle.load: verify again, then open the files one by one.
Load(f) ==
  /\ f = Server /\ fetch[f].phase = "fetched"
  /\ IF Verifies(target) THEN Go(f, "open", Names) ELSE Go(f, "dead", {})
  /\ UNCHANGED <<objects, partial, target, pub, kills>>

Open(f) ==
  /\ fetch[f].phase = "open"
  /\ IF fetch[f].left = {}
     THEN Go(f, "serving", {})
     ELSE \E n \in fetch[f].left :
            IF n \in target THEN Go(f, "open", fetch[f].left \ {n}) ELSE Go(f, "dead", {})
  /\ UNCHANGED <<objects, partial, target, pub, kills>>

\* The platform starts the server again; the operator does not.
Restart ==
  /\ fetch[Server].phase = "dead"
  /\ Go(Server, "new", {})
  /\ UNCHANGED <<objects, partial, target, pub, kills>>

Fetch(f) ==
  \/ CheckTarget(f) \/ GetManifest(f) \/ Download(f) \/ WriteManifest(f)
  \/ VerifyPartial(f) \/ Remove(f) \/ Rename(f) \/ Load(f) \/ Open(f)

Kill ==
  /\ kills < MaxKills /\ kills' = kills + 1
  /\ \/ /\ \E p \in Publishers : pub' = [pub EXCEPT ![p] = [phase |-> "done", left |-> {}]]
        /\ UNCHANGED fetch
     \/ /\ \E f \in Fetchers : Go(f, "dead", {})
        /\ UNCHANGED pub
  /\ UNCHANGED <<objects, partial, target>>

\* A developer runs publish again when it ended before its time.
Republish(p) ==
  /\ pub[p].phase = "done" /\ Manifest \notin objects
  /\ pub' = [pub EXCEPT ![p].phase = "new"]
  /\ UNCHANGED <<objects, partial, target, fetch, kills>>

Next ==
  \/ \E p \in Publishers : Publish(p) \/ Republish(p)
  \/ \E f \in Fetchers : Fetch(f)
  \/ Restart \/ Kill

Spec == Init /\ [][Next]_vars

\* Processes run on and the platform restarts the server. Nobody must publish.
FairSpec == Spec /\ \A f \in Fetchers : WF_vars(Fetch(f)) /\ WF_vars(Restart)

----------------------------------------------------------------------------
TypeOK ==
  /\ objects \subseteq All
  /\ partial \in SUBSET All \cup {Absent} /\ target \in SUBSET All \cup {Absent}
  /\ \A p \in Publishers : pub[p].left \subseteq Names
  /\ \A f \in Fetchers : fetch[f].left \subseteq All

\* A published bundle is served in the end, whatever was killed: no half-done
\* upload is taken for a bundle, and no partial or half-removed directory keeps
\* a restarted server from fetching again.
PublishedIsServed == Manifest \in objects ~> fetch[Server].phase = "serving"
=============================================================================
