---------------------------- MODULE SessionStore ----------------------------
(***************************************************************************)
(* What the core keeps on disk for one account, as core/src/session.rs     *)
(* reads and writes it: the session file and the store directory.          *)
(*                                                                         *)
(* A session file names the device, the key it is encrypted under (NoKey   *)
(* for a plaintext file) and the generation of the tokens it carries.  The *)
(* store directory is the set of kinds of files in it: the ".encrypted"    *)
(* marker, the SQLite databases, and whatever else lies there (sync        *)
(* position, quarantine).  "key" is the cipher the databases were written  *)
(* under, NoKey for plaintext, and "dev" the device whose keys they hold.  *)
(***************************************************************************)
EXTENDS Naturals

CONSTANTS
    Keys,        \* store keys the secrets service may deliver
    NoKey,       \* no key available
    MaxLogins,   \* sign-in commands considered; the n-th one makes device n
    MaxTok       \* token refreshes considered for one device

ASSUME KeysAssumption == NoKey \notin Keys
ASSUME BoundsAssumption == MaxLogins \in Nat \ {0} /\ MaxTok \in Nat

NoDev == 0
Logins == 1..MaxLogins
Devices == 0..MaxLogins
Tokens == 0..MaxTok

FileKinds == {"marker", "db", "other"}

Files == [present : BOOLEAN, dev : Devices, key : Keys \cup {NoKey}, tok : Tokens]
Stores == [files : SUBSET FileKinds, key : Keys \cup {NoKey}, dev : Devices]

NoFile == [present |-> FALSE, dev |-> NoDev, key |-> NoKey, tok |-> 0]
EmptyStore == [files |-> {}, key |-> NoKey, dev |-> NoDev]

(***************************************************************************)
(* load: "none" only where there is no file.  A read error is "locked",    *)
(* and so is an envelope the key does not open; the outcome Newer (written *)
(* by a later version) is treated by every caller as Locked is and is the  *)
(* same outcome here.                                                      *)
(***************************************************************************)
LoadOutcomes(f, k) ==
    IF ~f.present THEN {"none"}
    ELSE IF f.key \in {NoKey, k} THEN {"session", "locked"}
    ELSE {"locked"}

(***************************************************************************)
(* store: encrypted under the key at hand; without one a plaintext file is *)
(* written, never over an encrypted one.  The write is a rename: it is all *)
(* there or not at all.                                                    *)
(***************************************************************************)
MayWrite(f, k) == k # NoKey \/ ~f.present \/ f.key = NoKey

WrittenFile(dev, k, tok) == [present |-> TRUE, dev |-> dev, key |-> k, tok |-> tok]

(***************************************************************************)
(* store_plan: under the key where the marker says so, an existing         *)
(* unmarked store as it is, a new one only with a key.                     *)
(***************************************************************************)
Fresh(s) == s.files = {}

PlanRefuses(s, k) == k = NoKey /\ ("marker" \in s.files \/ Fresh(s))

PlanKey(s, k) == IF "marker" \in s.files \/ Fresh(s) THEN k ELSE NoKey

\* The marker is on disk before the store it is about.
Planned(s, k) ==
    IF Fresh(s) /\ k # NoKey THEN [s EXCEPT !.files = {"marker"}] ELSE s

(***************************************************************************)
(* What the SDK does with the directory.  A key that is not the store's is *)
(* an error; no key at all is not: it opens without a cipher and writes    *)
(* plaintext beside what is there (session.rs, store_plan).                *)
(***************************************************************************)
Opens(s, k) == "db" \in s.files /\ PlanKey(s, k) # NoKey => s.key = PlanKey(s, k)

Opened(s, k) ==
    IF "db" \in s.files
    THEN s
    ELSE [files |-> Planned(s, k).files \cup {"db", "other"},
          key |-> PlanKey(s, k), dev |-> NoDev]

(***************************************************************************)
(* reset_store removes the directory file by file: cut off or failing      *)
(* half way it leaves any part of it.                                      *)
(***************************************************************************)
Remains(s) == {[s EXCEPT !.files = left] : left \in SUBSET s.files}

\* An encrypted database has its marker, and nothing lies about without a
\* database that says how to open the directory.
Sound(s) ==
    /\ "db" \in s.files /\ s.key # NoKey => "marker" \in s.files
    /\ "db" \in s.files /\ s.key = NoKey => "marker" \notin s.files
    /\ "other" \in s.files => s.files \cap {"db", "marker"} # {}
=============================================================================
