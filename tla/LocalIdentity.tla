---------------------------- MODULE LocalIdentity ----------------------------
(***************************************************************************)
(* The device identity on the client: two files, device.key and            *)
(* device.json, that `sk create` and `sk delete` write and remove one      *)
(* after the other, and the signing bridge of the agent, whose listeners   *)
(* each load them once.  Any file operation may fail, a command may be     *)
(* killed between two of them, and commands may overlap.                   *)
(*                                                                         *)
(* An identity stands for a device id and a key pair drawn together.  A    *)
(* file is its content (complete or not) and, because a writer keeps its   *)
(* descriptor when the name is removed, the inode it is: named after the   *)
(* identity whose Create made it.                                          *)
(***************************************************************************)
EXTENDS Naturals

CONSTANTS
    Cli,    \* `sk` commands that may run at the same time
    Ident,  \* identities Create may draw
    None    \* no identity

ASSUME IdentityAssumption == None \notin Ident

Listener == {"unix", "tcp"}

VARIABLES
    keyFile,   \* device.key
    metaFile,  \* device.json
    cli,       \* per command: where it is
    drawn,     \* identities drawn so far
    bridge,    \* per listener of the running agent: what it has loaded
    hist       \* history: interruptions (at most 2 counted), overlapping commands

vars == <<keyFile, metaFile, cli, drawn, bridge, hist>>
files == <<keyFile, metaFile>>

Absent == [ino |-> None, id |-> None, full |-> FALSE]
File == [ino : Ident, id : Ident, full : BOOLEAN] \cup {Absent}

CliRec == [pc : {"idle", "cKey", "cMeta", "cOpen", "cWrite", "cUndo", "cClose",
                 "cTruncate", "cFill", "dKey", "dMeta", "dRmKey", "dRmMeta"},
           id : Ident \cup {None},    \* the identity drawn
           ino : Ident \cup {None}]   \* device.json as it was opened

Idle == [pc |-> "idle", id |-> None, ino |-> None]
Off == [pc |-> "off", key |-> None, dev |-> None]

(* One type invariant.                                                     *)
TypeOK ==
    /\ keyFile \in File /\ metaFile \in File
    /\ cli \in [Cli -> CliRec]
    /\ drawn \subseteq Ident
    /\ bridge \in [Listener -> [pc : {"off", "key", "meta", "serving"},
                                key : Ident \cup {None}, dev : Ident \cup {None}]]
    /\ hist \in [hurt : 0..2, overlap : BOOLEAN]

Init ==
    /\ keyFile = Absent /\ metaFile = Absent
    /\ cli = [p \in Cli |-> Idle]
    /\ drawn = {}
    /\ bridge = [l \in Listener |-> Off]
    /\ hist = [hurt |-> 0, overlap |-> FALSE]

\* A step of a command that is at pc; where it goes next.
At(p, pc) == cli[p].pc = pc /\ UNCHANGED bridge
Goto(p, pc) == cli' = [cli EXCEPT ![p].pc = pc]
Return(p) == cli' = [cli EXCEPT ![p] = Idle]

\* The command ends, or an operation of it fails, half-way.
Interrupted == hist' = [hist EXCEPT !.hurt = IF @ < 2 THEN @ + 1 ELSE @]

------------------------------------------------------------------------------
(* runSK: a command begins.                                                *)

RunSK(p) ==
    /\ At(p, "idle")
    /\ Goto(p, "cKey") \/ Goto(p, "dKey")
    /\ hist' = [hist EXCEPT !.overlap = @ \/ \E q \in Cli : cli[q].pc # "idle"]
    /\ UNCHANGED <<files, drawn>>

------------------------------------------------------------------------------
(* identity.Load, first step of both: the key, then the metadata.          *)

\* Only a missing key is KindNotFound, with which Create goes on.
LoadKey(p) ==
    /\ \/ At(p, "cKey") /\ \/ keyFile = Absent /\ Goto(p, "cOpen")
                           \/ keyFile.full /\ Goto(p, "cMeta")
                           \/ keyFile # Absent /\ Return(p)
       \/ At(p, "dKey") /\ \/ keyFile.full /\ Goto(p, "dMeta")
                           \/ Return(p)
    /\ UNCHANGED <<files, drawn, hist>>

\* Without readable metadata, or with an identity already there, Create
\* refuses; Delete goes on with a complete identity only.
LoadMeta(p) ==
    /\ \/ At(p, "cMeta") /\ Return(p)
       \/ At(p, "dMeta") /\ \/ metaFile.full /\ Goto(p, "dRmKey")
                            \/ Return(p)
    /\ UNCHANGED <<files, drawn, hist>>

------------------------------------------------------------------------------
(* identity.Create.                                                        *)

CreateOpen_replaces(p) ==            \* mutant: O_TRUNC for O_EXCL
    /\ At(p, "cOpen")
    /\ \E n \in Ident \ drawn :
         /\ drawn' = drawn \cup {n}
         /\ keyFile' = [ino |-> n, id |-> n, full |-> FALSE]
         /\ cli' = [cli EXCEPT ![p] = [pc |-> "cWrite", id |-> n, ino |-> None]]
    /\ UNCHANGED <<metaFile, hist>>

\* O_CREATE|O_EXCL: of several Creates that found no key, one gets through.
CreateOpen(p) ==
    /\ At(p, "cOpen")
    /\ \E n \in Ident \ drawn :
         /\ drawn' = drawn \cup {n}
         /\ \/ /\ keyFile = Absent
               /\ keyFile' = [ino |-> n, id |-> n, full |-> FALSE]
               /\ cli' = [cli EXCEPT ![p] = [pc |-> "cWrite", id |-> n, ino |-> None]]
            \/ Return(p) /\ UNCHANGED keyFile
    /\ UNCHANGED <<metaFile, hist>>

\* f.Write(priv) goes to the file that was opened, wherever its name is now.
CreateWrite(p) ==
    /\ At(p, "cWrite")
    /\ \/ /\ keyFile' = IF keyFile.ino = cli[p].id THEN [keyFile EXCEPT !.full = TRUE]
                                                   ELSE keyFile
          /\ Goto(p, "cClose")
       \/ Goto(p, "cUndo") /\ UNCHANGED keyFile
    /\ UNCHANGED <<metaFile, drawn, hist>>

\* os.Remove(kp) after a failed write, its error dropped.
CreateUndo(p) ==
    /\ At(p, "cUndo")
    /\ Return(p)
    /\ \/ keyFile' = Absent /\ UNCHANGED hist
       \/ keyFile # Absent /\ Interrupted /\ UNCHANGED keyFile
    /\ UNCHANGED <<metaFile, drawn>>

\* A failed f.Close returns at once and leaves the key where it is.
CreateClose(p) ==
    /\ At(p, "cClose")
    /\ \/ Goto(p, "cTruncate") /\ UNCHANGED hist
       \/ Return(p) /\ Interrupted
    /\ UNCHANGED <<files, drawn>>

CreateTruncate_keepsKey(p) ==        \* mutant: the key of a failed Create stays
    /\ At(p, "cTruncate")
    /\ \/ LET i == IF metaFile = Absent THEN cli[p].id ELSE metaFile.ino IN
            /\ metaFile' = [ino |-> i, id |-> cli[p].id, full |-> FALSE]
            /\ cli' = [cli EXCEPT ![p].pc = "cFill", ![p].ino = i]
       \/ Return(p) /\ UNCHANGED metaFile
    /\ UNCHANGED <<keyFile, drawn, hist>>

\* os.WriteFile(mp) opens device.json with O_TRUNC ...
CreateTruncate(p) ==
    /\ At(p, "cTruncate")
    /\ \/ LET i == IF metaFile = Absent THEN cli[p].id ELSE metaFile.ino IN
            /\ metaFile' = [ino |-> i, id |-> cli[p].id, full |-> FALSE]
            /\ cli' = [cli EXCEPT ![p].pc = "cFill", ![p].ino = i]
       \/ Goto(p, "cUndo") /\ UNCHANGED metaFile
    /\ UNCHANGED <<keyFile, drawn, hist>>

CreateFill_noID(p) ==                \* mutant: device.json names no device
    /\ At(p, "cFill")
    /\ metaFile' = IF metaFile.ino = cli[p].ino
                     THEN [metaFile EXCEPT !.id = None, !.full = TRUE] ELSE metaFile
    /\ Return(p)
    /\ UNCHANGED <<keyFile, drawn, hist>>

\* ... and writes it; then Create has succeeded.
CreateFill(p) ==
    /\ At(p, "cFill")
    /\ \/ /\ metaFile' = IF metaFile.ino = cli[p].ino
                           THEN [metaFile EXCEPT !.id = cli[p].id, !.full = TRUE]
                           ELSE metaFile
          /\ Return(p)
       \/ Goto(p, "cUndo") /\ UNCHANGED metaFile
    /\ UNCHANGED <<keyFile, drawn, hist>>

------------------------------------------------------------------------------
(* identity.Delete, after Load: it removes the names, whatever they are.   *)

DeleteKey(p) ==
    /\ At(p, "dRmKey")
    /\ \/ keyFile # Absent /\ keyFile' = Absent /\ Goto(p, "dRmMeta")
       \/ Return(p) /\ UNCHANGED keyFile
    /\ UNCHANGED <<metaFile, drawn, hist>>

DeleteMeta_left(p) ==                \* mutant: only the private key is removed
    /\ At(p, "dRmMeta")
    /\ Return(p)
    /\ UNCHANGED <<files, drawn, hist>>

DeleteMeta(p) ==
    /\ At(p, "dRmMeta")
    /\ Return(p)
    /\ \/ metaFile' = Absent /\ UNCHANGED hist
       \/ metaFile # Absent /\ Interrupted /\ UNCHANGED metaFile
    /\ UNCHANGED <<keyFile, drawn>>

\* The command is killed.
CliCrash(p) ==
    /\ cli[p].pc # "idle"
    /\ Return(p)
    /\ Interrupted
    /\ UNCHANGED <<files, drawn, bridge>>

------------------------------------------------------------------------------
(* The bridge.  A listener that cannot be opened, or whose Load fails,     *)
(* stays closed for as long as the agent runs; the other one goes on.      *)

Serve ==
    /\ bridge = [l \in Listener |-> Off]
    /\ \E up \in SUBSET Listener :
         bridge' = [l \in Listener |-> IF l \in up THEN [Off EXCEPT !.pc = "key"] ELSE Off]
    /\ UNCHANGED <<files, cli, drawn, hist>>

ServeListenerKey(l) ==
    /\ bridge[l].pc = "key"
    /\ \/ keyFile.full /\ bridge' = [bridge EXCEPT ![l].pc = "meta", ![l].key = keyFile.id]
       \/ bridge' = [bridge EXCEPT ![l] = Off]
    /\ UNCHANGED <<files, cli, drawn, hist>>

ServeListenerMeta(l) ==
    /\ bridge[l].pc = "meta"
    /\ \/ metaFile.full /\ bridge' = [bridge EXCEPT ![l].pc = "serving", ![l].dev = metaFile.id]
       \/ bridge' = [bridge EXCEPT ![l] = Off]
    /\ UNCHANGED <<files, cli, drawn, hist>>

\* GET /identity and POST /sign answer from what the listener loaded.
Identity(l) == bridge[l].dev
Sign(l) == bridge[l].key

\* The agent ends, and its listeners with it.
AgentStop ==
    /\ bridge # [l \in Listener |-> Off]
    /\ bridge' = [l \in Listener |-> Off]
    /\ UNCHANGED <<files, cli, drawn, hist>>

------------------------------------------------------------------------------
Create(p) ==
    \/ CreateOpen(p) \/ CreateWrite(p) \/ CreateUndo(p) \/ CreateClose(p)
    \/ CreateTruncate(p) \/ CreateFill(p)

Delete(p) == DeleteKey(p) \/ DeleteMeta(p)

Next ==
    \/ \E p \in Cli : \/ RunSK(p) \/ LoadKey(p) \/ LoadMeta(p)
                      \/ Create(p) \/ Delete(p) \/ CliCrash(p)
    \/ Serve \/ AgentStop
    \/ \E l \in Listener : ServeListenerKey(l) \/ ServeListenerMeta(l)

Spec == Init /\ [][Next]_vars

------------------------------------------------------------------------------
(* Properties.                                                             *)

AllIdle == \A p \in Cli : cli[p].pc = "idle"
BothThere == keyFile.full /\ metaFile.full

(* A private key is never replaced: whatever commands overlap and wherever *)
(* they fail, device.key goes to another identity only after it was gone.  *)
KeyNotReplaced ==
    [][keyFile # Absent /\ keyFile' # Absent => keyFile'.id = keyFile.id]_vars

(* Commands that ran one after the other without interruption, successful  *)
(* or not, leave no identity, or one that Load accepts, so that Create or  *)
(* Delete can go on from there; and one interrupted command is not enough  *)
(* to pair the key of one identity with the device id of another (a Delete *)
(* that leaves device.json behind and a Create that gets no further than   *)
(* device.key are).                                                        *)
StoreUsable ==
    AllIdle /\ ~hist.overlap =>
      /\ hist.hurt = 0 => keyFile = Absent \/ BothThere
      /\ hist.hurt <= 1 /\ BothThere => keyFile.id = metaFile.id

(* The bridge reads the two files at two moments, and the commands may run *)
(* in between.  It never announces another device id for a key that is     *)
(* still the one on disk.                                                  *)
BridgeAgrees ==
    hist.hurt = 0 /\ ~hist.overlap =>
      \A l \in Listener : bridge[l].pc = "serving" /\ Sign(l) = keyFile.id =>
        Identity(l) = Sign(l)
==============================================================================
