------------------------ MODULE LocalIdentity_proofs -------------------------
(***************************************************************************)
(* Proofs about LocalIdentity, for any number of overlapping commands.     *)
(***************************************************************************)
EXTENDS LocalIdentity, TLAPS

(* A command past CreateOpen has drawn its identity; one that fills        *)
(* device.json has opened it; and an inode of device.key belongs to one    *)
(* identity, which never changes.                                          *)
DrawnOK ==
    /\ \A p \in Cli :
         cli[p].pc \in {"cWrite", "cClose", "cTruncate", "cFill"} => cli[p].id \in Ident
    /\ \A p \in Cli : cli[p].pc = "cFill" => cli[p].ino \in Ident
    /\ keyFile.ino = keyFile.id

StoreInv == TypeOK /\ DrawnOK

(* The pair of files when no command runs, after at most one interruption: *)
(* no key, one identity, or the remains of the interrupted command.        *)
Resting ==
    \/ keyFile = Absent /\ (hist.hurt = 0 => ~metaFile.full)
    \/ BothThere /\ keyFile.id = metaFile.id
    \/ hist.hurt = 1 /\ keyFile # Absent /\ ~metaFile.full

(* What a command that runs alone has found and done.                      *)
AloneOK(p) ==
    LET c == cli[p] IN
    /\ c.pc \in {"cKey", "cMeta", "cOpen", "dKey", "dMeta"} => Resting
    /\ c.pc \in {"cOpen", "dRmMeta"} => keyFile = Absent
    /\ c.pc \in {"cWrite", "cClose", "cTruncate", "cFill"} => keyFile.ino = c.id
    /\ c.pc \in {"cClose", "cTruncate", "cFill", "dMeta"} => keyFile.full
    /\ c.pc \in {"cWrite", "cUndo", "cClose", "cTruncate"} =>
         (hist.hurt = 0 => ~metaFile.full)
    /\ c.pc = "cFill" => ~metaFile.full /\ metaFile.ino = c.ino
    /\ c.pc = "dRmKey" => BothThere /\ keyFile.id = metaFile.id

SeqOK ==
    ~hist.overlap /\ hist.hurt <= 1 =>
      /\ \A p, q \in Cli : cli[p].pc = "idle" \/ cli[q].pc = "idle" \/ p = q
      /\ AllIdle => Resting
      /\ \A p \in Cli : cli[p].pc # "idle" => AloneOK(p)

(* No identity comes back: what is on disk, and what a listener holds, was *)
(* drawn before, and Create draws a new one.                               *)
LoadedOK ==
    /\ keyFile.id \in drawn \cup {None}
    /\ \A l \in Listener : bridge[l].pc \in {"meta", "serving"} => bridge[l].key \in drawn

UsableInv == StoreInv /\ SeqOK /\ LoadedOK /\ BridgeAgrees

------------------------------------------------------------------------------
(* The records of a command at rest and of a missing file.                 *)
LEMMA Constants ==
  /\ Absent \in File /\ Absent.ino = None /\ Absent.id = None /\ Absent.full = FALSE
  /\ Idle.pc = "idle" /\ Idle.id = None /\ Idle.ino = None
  BY DEF Absent, File, Idle

(* A file that is there is an inode with the content of an identity.       *)
LEMMA Present ==
  ASSUME NEW f \in File
  PROVE  /\ f # Absent => f \in [ino : Ident, id : Ident, full : BOOLEAN]
         /\ f.full => f \in [ino : Ident, id : Ident, full : BOOLEAN]
         /\ f.ino \in Ident => f \in [ino : Ident, id : Ident, full : BOOLEAN]
  BY IdentityAssumption DEF File, Absent

(* What a step of a command has to keep besides its own record.            *)
RestOK ==
    /\ keyFile' \in File /\ metaFile' \in File
    /\ keyFile'.ino = keyFile'.id
    /\ drawn' \subseteq Ident
    /\ bridge' = bridge
    /\ hist' \in [hurt : 0..2, overlap : BOOLEAN]

Stage == {"idle", "cKey", "cMeta", "cOpen", "cUndo", "dKey", "dMeta", "dRmKey", "dRmMeta"}

(* A step that gives one command a new record.                             *)
LEMMA SetRecord ==
  ASSUME StoreInv, RestOK, NEW p \in Cli, NEW c \in CliRec,
         cli' = [cli EXCEPT ![p] = c],
         c.pc \in {"cWrite", "cClose", "cTruncate", "cFill"} => c.id \in Ident,
         c.pc = "cFill" => c.ino \in Ident
  PROVE  StoreInv'
<1>1. TypeOK'
  BY DEF StoreInv, TypeOK, RestOK
<1>2. \A q \in Cli : cli'[q] = IF q = p THEN c ELSE cli[q]
  BY DEF StoreInv, TypeOK
<1>3. DrawnOK'
  BY <1>2 DEF StoreInv, DrawnOK, RestOK
<1> QED BY <1>1, <1>3 DEF StoreInv

(* A step after which the command is at a stage that needs no identity, or *)
(* has one.                                                                *)
LEMMA GotoOK ==
  ASSUME StoreInv, RestOK, NEW p \in Cli,
         NEW pc \in Stage \cup {"cClose", "cTruncate"}, Goto(p, pc),
         pc \in {"cClose", "cTruncate"} => cli[p].id \in Ident
  PROVE  StoreInv'
<1> DEFINE c == [cli[p] EXCEPT !.pc = pc]
<1>1. cli[p] \in CliRec /\ cli \in [Cli -> CliRec]
  BY DEF StoreInv, TypeOK
<1>2. c \in CliRec /\ c.pc = pc /\ c.id = cli[p].id
  BY <1>1 DEF CliRec, Stage
<1>3. cli' = [cli EXCEPT ![p] = c]
  BY <1>1 DEF Goto
<1>4. pc # "cFill" /\ pc # "cWrite"
  BY DEF Stage
<1>5. pc \in {"cWrite", "cClose", "cTruncate", "cFill"} => cli[p].id \in Ident
  BY DEF Stage
<1> HIDE DEF c
<1> QED BY <1>2, <1>3, <1>4, <1>5, SetRecord

(* The stages that need none.                                              *)
LEMMA GotoStage ==
  ASSUME StoreInv, RestOK, NEW p \in Cli, \E pc \in Stage : Goto(p, pc)
  PROVE  StoreInv'
<1>1. PICK pc \in Stage : Goto(p, pc)
  OBVIOUS
<1>2. pc \notin {"cClose", "cTruncate"}
  BY DEF Stage
<1> QED BY <1>1, <1>2, GotoOK

(* A step with which the command ends.                                     *)
LEMMA ReturnOK ==
  ASSUME StoreInv, RestOK, NEW p \in Cli, Return(p)
  PROVE  StoreInv'
<1>1. Idle \in CliRec /\ Idle.pc = "idle"
  BY DEF Idle, CliRec
<1>2. cli' = [cli EXCEPT ![p] = Idle]
  BY DEF Return
<1> QED BY <1>1, <1>2, SetRecord

(* The count of interruptions stays within its bound.                      *)
LEMMA InterruptedOK ==
  ASSUME StoreInv, Interrupted \/ UNCHANGED hist
  PROVE  hist' \in [hurt : 0..2, overlap : BOOLEAN]
  BY DEF StoreInv, TypeOK, Interrupted

(* Every step of a command keeps StoreInv.                                 *)
LEMMA CommandInv ==
  ASSUME StoreInv, NEW p \in Cli,
         \/ RunSK(p) \/ LoadKey(p) \/ LoadMeta(p)
         \/ Create(p) \/ Delete(p) \/ CliCrash(p)
  PROVE  StoreInv'
<1>0. /\ keyFile \in File /\ metaFile \in File /\ keyFile.ino = keyFile.id
      /\ drawn \subseteq Ident /\ hist \in [hurt : 0..2, overlap : BOOLEAN]
      /\ cli \in [Cli -> CliRec] /\ cli[p] \in CliRec
  BY DEF StoreInv, TypeOK, DrawnOK
<1>1. CASE RunSK(p)
  <2>1. ASSUME NEW b, b = (hist.overlap \/ \E q \in Cli : cli[q].pc # "idle")
        PROVE  b \in BOOLEAN
    BY <2>1, Zenon
  <2>2. hist' \in [hurt : 0..2, overlap : BOOLEAN]
    <3> DEFINE b == hist.overlap \/ \E q \in Cli : cli[q].pc # "idle"
    <3>1. b \in BOOLEAN
      BY <2>1
    <3>2. hist' = [hist EXCEPT !.overlap = b]
      BY <1>1 DEF RunSK
    <3> HIDE DEF b
    <3> QED BY <1>0, <3>1, <3>2
  <2>3. RestOK
    BY <1>0, <1>1, <2>2 DEF RunSK, At, files, RestOK
  <2>4. \E pc \in Stage : Goto(p, pc)
    BY <1>1 DEF RunSK, Stage
  <2> QED BY <2>3, <2>4, GotoStage
<1>2. CASE LoadKey(p)
  <2>1. RestOK
    BY <1>0, <1>2 DEF LoadKey, At, files, RestOK
  <2>2. (\E pc \in Stage : Goto(p, pc)) \/ Return(p)
    BY <1>2 DEF LoadKey, Stage
  <2> QED BY <2>1, <2>2, GotoStage, ReturnOK
<1>3. CASE LoadMeta(p)
  <2>1. RestOK
    BY <1>0, <1>3 DEF LoadMeta, At, files, RestOK
  <2>2. (\E pc \in Stage : Goto(p, pc)) \/ Return(p)
    BY <1>3 DEF LoadMeta, Stage
  <2> QED BY <2>1, <2>2, GotoStage, ReturnOK
<1>4. CASE CreateOpen(p)
  <2>1. PICK n \in Ident \ drawn :
          /\ drawn' = drawn \cup {n}
          /\ \/ /\ keyFile' = [ino |-> n, id |-> n, full |-> FALSE]
                /\ cli' = [cli EXCEPT ![p] = [pc |-> "cWrite", id |-> n, ino |-> None]]
             \/ Return(p) /\ UNCHANGED keyFile
    BY <1>4 DEF CreateOpen
  <2>2. UNCHANGED <<bridge, metaFile, hist>>
    BY <1>4 DEF CreateOpen, At
  <2> DEFINE f == [ino |-> n, id |-> n, full |-> FALSE]
  <2>f. f \in File /\ f.ino = f.id
    BY DEF File
  <2>k. keyFile' = f \/ keyFile' = keyFile
    BY <2>1
  <2> HIDE DEF f
  <2>3. keyFile' \in File /\ keyFile'.ino = keyFile'.id
    BY <1>0, <2>f, <2>k
  <2>4. RestOK
    BY <1>0, <2>1, <2>2, <2>3 DEF RestOK
  <2> DEFINE c == [pc |-> "cWrite", id |-> n, ino |-> None]
  <2>5. c \in CliRec /\ c.pc = "cWrite" /\ c.id \in Ident
    BY DEF CliRec
  <2>6. cli' = [cli EXCEPT ![p] = c] \/ Return(p)
    BY <2>1
  <2> HIDE DEF c
  <2> QED BY <2>4, <2>5, <2>6, SetRecord, ReturnOK
<1>5. CASE CreateWrite(p)
  <2>1. cli[p].id \in Ident /\ UNCHANGED <<bridge, metaFile, drawn, hist>>
    BY <1>5 DEF StoreInv, DrawnOK, CreateWrite, At
  <2>2. keyFile.ino = cli[p].id => keyFile \in [ino : Ident, id : Ident, full : BOOLEAN]
    BY <1>0, <2>1, Present
  <2>3. \/ keyFile' = keyFile
        \/ keyFile.ino = cli[p].id /\ keyFile' = [keyFile EXCEPT !.full = TRUE]
    BY <1>5 DEF CreateWrite
  <2>4. keyFile' \in File /\ keyFile'.ino = keyFile'.id
    BY <1>0, <2>2, <2>3 DEF File
  <2>5. RestOK
    BY <1>0, <2>1, <2>4 DEF RestOK
  <2>6. Goto(p, "cClose") \/ Goto(p, "cUndo")
    BY <1>5 DEF CreateWrite
  <2> QED BY <2>1, <2>5, <2>6, GotoOK DEF Stage
<1>6. CASE CreateUndo(p)
  <2>1. RestOK
    BY <1>0, <1>6, Constants, InterruptedOK DEF CreateUndo, At, RestOK
  <2> QED BY <1>6, <2>1, ReturnOK DEF CreateUndo
<1>7. CASE CreateClose(p)
  <2>1. cli[p].id \in Ident
    BY <1>7 DEF StoreInv, DrawnOK, CreateClose, At
  <2>2. RestOK
    BY <1>0, <1>7, InterruptedOK DEF CreateClose, At, files, RestOK
  <2>3. Goto(p, "cTruncate") \/ Return(p)
    BY <1>7 DEF CreateClose
  <2> QED BY <2>1, <2>2, <2>3, GotoOK, ReturnOK
<1>8. CASE CreateTruncate(p)
  <2> DEFINE i == IF metaFile = Absent THEN cli[p].id ELSE metaFile.ino
             c == [cli[p] EXCEPT !.pc = "cFill", !.ino = i]
  <2>1. cli[p].id \in Ident
    BY <1>8 DEF StoreInv, DrawnOK, CreateTruncate, At
  <2>2. i \in Ident
    BY <1>0, <2>1, Present
  <2>3. \/ /\ metaFile' = [ino |-> i, id |-> cli[p].id, full |-> FALSE]
           /\ cli' = [cli EXCEPT ![p].pc = "cFill", ![p].ino = i]
        \/ Goto(p, "cUndo") /\ UNCHANGED metaFile
    BY <1>8 DEF CreateTruncate
  <2>4. UNCHANGED <<bridge, keyFile, drawn, hist>>
    BY <1>8 DEF CreateTruncate, At
  <2> HIDE DEF i
  <2>f. [ino |-> i, id |-> cli[p].id, full |-> FALSE] \in File
    BY <2>1, <2>2 DEF File
  <2>5. metaFile' \in File
    <3>1. metaFile' = [ino |-> i, id |-> cli[p].id, full |-> FALSE] \/ metaFile' = metaFile
      BY <2>3
    <3> QED BY <1>0, <2>f, <3>1
  <2>6. RestOK
    BY <1>0, <2>4, <2>5 DEF RestOK
  <2>7. c \in CliRec /\ c.pc = "cFill" /\ c.id \in Ident /\ c.ino \in Ident
    BY <1>0, <2>1, <2>2 DEF CliRec
  <2>8. cli' = [cli EXCEPT ![p] = c] \/ \E pc \in Stage : Goto(p, pc)
    BY <1>0, <2>3 DEF Stage
  <2> HIDE DEF c
  <2> QED BY <2>6, <2>7, <2>8, SetRecord, GotoStage
<1>9. CASE CreateFill(p)
  <2>1. cli[p].id \in Ident /\ cli[p].ino \in Ident
    BY <1>9 DEF StoreInv, DrawnOK, CreateFill, At
  <2>2. metaFile.ino = cli[p].ino => metaFile \in [ino : Ident, id : Ident, full : BOOLEAN]
    BY <1>0, <2>1, Present
  <2>3. metaFile' \in File
    BY <1>0, <1>9, <2>1, <2>2 DEF CreateFill, File
  <2>4. RestOK
    BY <1>0, <1>9, <2>3 DEF CreateFill, At, RestOK
  <2>5. (\E pc \in Stage : Goto(p, pc)) \/ Return(p)
    BY <1>9 DEF CreateFill, Stage
  <2> QED BY <2>4, <2>5, GotoStage, ReturnOK
<1>10. CASE DeleteKey(p)
  <2>1. RestOK
    BY <1>0, <1>10, Constants DEF DeleteKey, At, RestOK
  <2>2. (\E pc \in Stage : Goto(p, pc)) \/ Return(p)
    BY <1>10 DEF DeleteKey, Stage
  <2> QED BY <2>1, <2>2, GotoStage, ReturnOK
<1>11. CASE DeleteMeta(p)
  <2>1. RestOK
    BY <1>0, <1>11, Constants, InterruptedOK DEF DeleteMeta, At, RestOK
  <2> QED BY <1>11, <2>1, ReturnOK DEF DeleteMeta
<1>12. CASE CliCrash(p)
  <2>1. RestOK
    BY <1>0, <1>12, InterruptedOK DEF CliCrash, files, RestOK
  <2> QED BY <1>12, <2>1, ReturnOK DEF CliCrash
<1> QED BY <1>1, <1>2, <1>3, <1>4, <1>5, <1>6, <1>7, <1>8, <1>9, <1>10, <1>11, <1>12
        DEF Create, Delete

(* The bridge only reads the files.                                        *)
LEMMA BridgeInv ==
  ASSUME StoreInv,
         Serve \/ AgentStop \/ \E l \in Listener : ServeListenerKey(l) \/ ServeListenerMeta(l)
  PROVE  StoreInv'
<1> USE DEF StoreInv
<1>1. CASE Serve
  BY <1>1 DEF Serve, Off, TypeOK, DrawnOK, files
<1>2. CASE AgentStop
  BY <1>2 DEF AgentStop, Off, TypeOK, DrawnOK, files
<1>3. ASSUME NEW l \in Listener, ServeListenerKey(l) PROVE StoreInv'
  <2>1. keyFile.full => keyFile.id \in Ident
    BY Present DEF TypeOK
  <2> QED BY <1>3, <2>1 DEF ServeListenerKey, Off, TypeOK, DrawnOK, files
<1>4. ASSUME NEW l \in Listener, ServeListenerMeta(l) PROVE StoreInv'
  <2>1. metaFile.full => metaFile.id \in Ident
    BY Present DEF TypeOK
  <2> QED BY <1>4, <2>1 DEF ServeListenerMeta, Off, TypeOK, DrawnOK, files
<1> QED BY <1>1, <1>2, <1>3, <1>4

------------------------------------------------------------------------------
(* Commands that do not overlap.                                           *)

(* A step of the only command that runs.                                   *)
LEMMA Turn ==
  ASSUME SeqOK, NEW p \in Cli, cli[p].pc # "idle",
         \A q \in Cli \ {p} : cli'[q] = cli[q],
         hist'.overlap = hist.overlap, hist'.hurt <= 1 => hist.hurt <= 1,
         ~hist.overlap /\ hist'.hurt <= 1 =>
           /\ cli'[p].pc = "idle" => Resting'
           /\ cli'[p].pc # "idle" => AloneOK(p)'
  PROVE  SeqOK'
<1> SUFFICES ASSUME ~hist.overlap, hist'.hurt <= 1
             PROVE  /\ \A r, q \in Cli : cli'[r].pc = "idle" \/ cli'[q].pc = "idle" \/ r = q
                    /\ AllIdle' => Resting'
                    /\ \A q \in Cli : cli'[q].pc # "idle" => AloneOK(q)'
  BY DEF SeqOK
<1>1. \A q \in Cli \ {p} : cli'[q].pc = "idle"
  BY DEF SeqOK
<1>2. cli'[p].pc = "idle" => Resting'
  OBVIOUS
<1>3. \A q \in Cli : cli'[q].pc # "idle" => AloneOK(q)'
  BY <1>1
<1> QED BY <1>1, <1>2, <1>3 DEF AllIdle

(* An interruption is counted.                                             *)
LEMMA Counted ==
  ASSUME StoreInv, Interrupted
  PROVE  hist'.overlap = hist.overlap /\ (hist'.hurt <= 1 => hist.hurt = 0 /\ hist'.hurt = 1)
  BY DEF StoreInv, TypeOK, Interrupted

(* The record of a command after a step of it.                             *)
LEMMA Moved ==
  ASSUME StoreInv, NEW p \in Cli
  PROVE  /\ Return(p) => cli'[p] = Idle /\ \A q \in Cli \ {p} : cli'[q] = cli[q]
         /\ \A pc : Goto(p, pc) => /\ cli'[p].pc = pc /\ cli'[p].id = cli[p].id
                                   /\ cli'[p].ino = cli[p].ino
                                   /\ \A q \in Cli \ {p} : cli'[q] = cli[q]
<1>1. cli \in [Cli -> CliRec]
  BY DEF StoreInv, TypeOK
<1> QED BY <1>1 DEF Return, Goto, CliRec

(* A command that begins when no other runs finds the files at rest.       *)
LEMMA RunSKSeq ==
  ASSUME StoreInv, SeqOK, NEW p \in Cli, RunSK(p)
  PROVE  SeqOK'
<1> DEFINE b == hist.overlap \/ \E q \in Cli : cli[q].pc # "idle"
<1>1. hist' = [hist EXCEPT !.overlap = b] /\ UNCHANGED <<keyFile, metaFile>>
  BY DEF RunSK, files
<1>2. hist'.hurt = hist.hurt /\ hist'.overlap = b
  <2> HIDE DEF b
  <2> QED BY <1>1 DEF StoreInv, TypeOK
<1> SUFFICES ASSUME ~hist'.overlap, hist'.hurt <= 1
             PROVE  /\ \A r, q \in Cli : cli'[r].pc = "idle" \/ cli'[q].pc = "idle" \/ r = q
                    /\ AllIdle' => Resting'
                    /\ \A q \in Cli : cli'[q].pc # "idle" => AloneOK(q)'
  BY DEF SeqOK
<1>3. ~hist.overlap /\ \A q \in Cli : cli[q].pc = "idle"
  BY <1>2, Zenon
<1>4. Resting
  BY <1>2, <1>3 DEF SeqOK, AllIdle
<1>5. Resting'
  BY <1>1, <1>2, <1>4 DEF Resting, BothThere
<1>6. /\ cli'[p].pc \in {"cKey", "dKey"}
      /\ \A q \in Cli \ {p} : cli'[q] = cli[q]
  BY Moved DEF RunSK
<1>7. AloneOK(p)'
  BY <1>5, <1>6 DEF AloneOK
<1> QED BY <1>3, <1>5, <1>6, <1>7

(* Every later step of a command that runs alone.                          *)
LEMMA CommandSeq ==
  ASSUME StoreInv, SeqOK, NEW p \in Cli,
         \/ LoadKey(p) \/ LoadMeta(p) \/ Create(p) \/ Delete(p) \/ CliCrash(p)
  PROVE  SeqOK'
<1>0. /\ keyFile \in File /\ metaFile \in File /\ keyFile.ino = keyFile.id
      /\ hist \in [hurt : 0..2, overlap : BOOLEAN] /\ cli \in [Cli -> CliRec]
      /\ cli[p].pc \in {"cWrite", "cClose", "cTruncate", "cFill"} => cli[p].id \in Ident
      /\ cli[p].pc = "cFill" => cli[p].ino \in Ident
  BY DEF StoreInv, TypeOK, DrawnOK
<1>a. Idle.pc = "idle" /\ ~Absent.full /\ Absent.ino = None /\ Absent.id = None
  BY Constants
<1>b. ~hist.overlap /\ hist.hurt <= 1 /\ cli[p].pc # "idle" => AloneOK(p)
  BY DEF SeqOK
<1>1. CASE LoadKey(p)
  <2>1. UNCHANGED <<keyFile, metaFile, hist>> /\ cli[p].pc \in {"cKey", "dKey"}
    BY <1>1 DEF LoadKey, At, files
  <2>2. /\ \A q \in Cli \ {p} : cli'[q] = cli[q]
        /\ \/ cli'[p].pc \in {"idle", "cMeta"}
           \/ cli'[p].pc = "dMeta" /\ keyFile.full
           \/ cli'[p].pc = "cOpen" /\ keyFile = Absent
    BY <1>1, <1>a, Moved DEF LoadKey
  <2>3. ASSUME ~hist.overlap, hist'.hurt <= 1
        PROVE  Resting'
    BY <1>b, <2>1, <2>3 DEF AloneOK, Resting, BothThere
  <2>4. ASSUME ~hist.overlap, hist'.hurt <= 1, cli'[p].pc # "idle"
        PROVE  AloneOK(p)'
    BY <2>1, <2>2, <2>3, <2>4 DEF AloneOK
  <2> QED BY <2>1, <2>2, <2>3, <2>4, Turn
<1>2. CASE LoadMeta(p)
  <2>1. UNCHANGED <<keyFile, metaFile, hist>> /\ cli[p].pc \in {"cMeta", "dMeta"}
    BY <1>2 DEF LoadMeta, At, files
  <2>2. /\ \A q \in Cli \ {p} : cli'[q] = cli[q]
        /\ \/ cli'[p].pc = "idle"
           \/ cli'[p].pc = "dRmKey" /\ metaFile.full /\ cli[p].pc = "dMeta"
    BY <1>2, <1>a, Moved DEF LoadMeta, At
  <2>3. ASSUME ~hist.overlap, hist'.hurt <= 1
        PROVE  Resting /\ Resting'
    BY <1>b, <2>1, <2>3 DEF AloneOK, Resting, BothThere
  <2>4. ASSUME ~hist.overlap, hist'.hurt <= 1, cli'[p].pc # "idle"
        PROVE  AloneOK(p)'
    BY <1>a, <1>b, <2>1, <2>2, <2>3, <2>4 DEF AloneOK, Resting, BothThere
  <2> QED BY <2>1, <2>2, <2>3, <2>4, Turn
<1>3. CASE CreateOpen(p)
  <2>1. PICK n \in Ident :
          \/ /\ keyFile = Absent
             /\ keyFile' = [ino |-> n, id |-> n, full |-> FALSE]
             /\ cli' = [cli EXCEPT ![p] = [pc |-> "cWrite", id |-> n, ino |-> None]]
          \/ Return(p) /\ UNCHANGED keyFile
    BY <1>3 DEF CreateOpen
  <2>2. UNCHANGED <<metaFile, hist>> /\ cli[p].pc = "cOpen"
    BY <1>3 DEF CreateOpen, At
  <2>3. CASE Return(p) /\ UNCHANGED keyFile
    <3>1. cli'[p].pc = "idle" /\ \A q \in Cli \ {p} : cli'[q] = cli[q]
      BY <1>a, <2>3, Moved
    <3>2. ASSUME ~hist.overlap, hist'.hurt <= 1
          PROVE  Resting'
      BY <1>b, <2>2, <2>3, <3>2 DEF AloneOK, Resting, BothThere
    <3> QED BY <2>2, <3>1, <3>2, Turn
  <2>4. CASE /\ keyFile = Absent
             /\ keyFile' = [ino |-> n, id |-> n, full |-> FALSE]
             /\ cli' = [cli EXCEPT ![p] = [pc |-> "cWrite", id |-> n, ino |-> None]]
    <3>1. cli'[p].pc = "cWrite" /\ cli'[p].id = n /\ \A q \in Cli \ {p} : cli'[q] = cli[q]
      BY <1>0, <2>4
    <3>2. ASSUME ~hist.overlap, hist'.hurt <= 1
          PROVE  AloneOK(p)'
      BY <1>a, <1>b, <2>2, <2>4, <3>1, <3>2 DEF AloneOK, Resting, BothThere
    <3> QED BY <2>2, <3>1, <3>2, Turn
  <2> QED BY <2>1, <2>3, <2>4
<1>4. CASE CreateWrite(p)
  <2>1. UNCHANGED <<metaFile, hist>> /\ cli[p].pc = "cWrite"
    BY <1>4 DEF CreateWrite, At
  <2>2. /\ \A q \in Cli \ {p} : cli'[q] = cli[q]
        /\ cli'[p].id = cli[p].id
        /\ \/ /\ cli'[p].pc = "cClose"
              /\ keyFile.ino = cli[p].id => keyFile' = [keyFile EXCEPT !.full = TRUE]
           \/ cli'[p].pc = "cUndo"
    BY <1>4, Moved DEF CreateWrite
  <2>3. ASSUME ~hist.overlap, hist'.hurt <= 1
        PROVE  AloneOK(p)'
    <3>1. keyFile.ino = cli[p].id /\ (hist.hurt = 0 => ~metaFile.full)
      BY <1>b, <2>1, <2>3 DEF AloneOK
    <3>2. keyFile \in [ino : Ident, id : Ident, full : BOOLEAN]
      BY <1>0, <2>1, <3>1, Present
    <3> QED BY <2>1, <2>2, <3>1, <3>2 DEF AloneOK
  <2> QED BY <2>1, <2>2, <2>3, Turn
<1>5. CASE CreateUndo(p)
  <2>1. UNCHANGED metaFile /\ cli[p].pc = "cUndo"
    BY <1>5 DEF CreateUndo, At
  <2>2. cli'[p].pc = "idle" /\ \A q \in Cli \ {p} : cli'[q] = cli[q]
    BY <1>5, <1>a, Moved DEF CreateUndo
  <2>3. CASE keyFile' = Absent /\ UNCHANGED hist
    <3>1. ASSUME ~hist.overlap, hist'.hurt <= 1
          PROVE  Resting'
      BY <1>b, <2>1, <2>3, <3>1 DEF AloneOK, Resting
    <3> QED BY <2>1, <2>2, <2>3, <3>1, Turn
  <2>4. CASE keyFile # Absent /\ Interrupted /\ UNCHANGED keyFile
    <3>1. ASSUME ~hist.overlap, hist'.hurt <= 1
          PROVE  Resting'
      BY <1>b, <2>1, <2>4, <3>1, Counted DEF AloneOK, Resting
    <3> QED BY <2>1, <2>2, <2>4, <3>1, Counted, Turn
  <2> QED BY <1>5, <2>3, <2>4 DEF CreateUndo
<1>6. CASE CreateClose(p)
  <2>1. UNCHANGED <<keyFile, metaFile>> /\ cli[p].pc = "cClose"
    BY <1>6 DEF CreateClose, At, files
  <2>2. CASE Goto(p, "cTruncate") /\ UNCHANGED hist
    <3>1. /\ cli'[p].pc = "cTruncate" /\ cli'[p].id = cli[p].id
          /\ \A q \in Cli \ {p} : cli'[q] = cli[q]
      BY <2>2, Moved
    <3>2. ASSUME ~hist.overlap, hist'.hurt <= 1
          PROVE  AloneOK(p)'
      BY <1>b, <2>1, <2>2, <3>1, <3>2 DEF AloneOK
    <3> QED BY <2>1, <2>2, <3>1, <3>2, Turn
  <2>3. CASE Return(p) /\ Interrupted
    <3>1. cli'[p].pc = "idle" /\ \A q \in Cli \ {p} : cli'[q] = cli[q]
      BY <1>a, <2>3, Moved
    <3>2. ASSUME ~hist.overlap, hist'.hurt <= 1
          PROVE  Resting'
      BY <1>a, <1>b, <2>1, <2>3, <3>2, Counted DEF AloneOK, Resting
    <3> QED BY <2>1, <2>3, <3>1, <3>2, Counted, Turn
  <2> QED BY <1>6, <2>2, <2>3 DEF CreateClose
<1>7. CASE CreateTruncate(p)
  <2>1. UNCHANGED <<keyFile, hist>> /\ cli[p].pc = "cTruncate"
    BY <1>7 DEF CreateTruncate, At
  <2> DEFINE i == IF metaFile = Absent THEN cli[p].id ELSE metaFile.ino
  <2>2. CASE /\ metaFile' = [ino |-> i, id |-> cli[p].id, full |-> FALSE]
             /\ cli' = [cli EXCEPT ![p].pc = "cFill", ![p].ino = i]
    <3> HIDE DEF i
    <3>1. /\ cli'[p].pc = "cFill" /\ cli'[p].id = cli[p].id /\ cli'[p].ino = i
          /\ \A q \in Cli \ {p} : cli'[q] = cli[q]
      BY <1>0, <2>2 DEF CliRec
    <3>2. ASSUME ~hist.overlap, hist'.hurt <= 1
          PROVE  AloneOK(p)'
      BY <1>b, <2>1, <2>2, <3>1, <3>2 DEF AloneOK
    <3> QED BY <2>1, <3>1, <3>2, Turn
  <2>3. CASE Goto(p, "cUndo") /\ UNCHANGED metaFile
    <3>1. cli'[p].pc = "cUndo" /\ \A q \in Cli \ {p} : cli'[q] = cli[q]
      BY <2>3, Moved
    <3>2. ASSUME ~hist.overlap, hist'.hurt <= 1
          PROVE  AloneOK(p)'
      BY <1>b, <2>1, <2>3, <3>1, <3>2 DEF AloneOK
    <3> QED BY <2>1, <3>1, <3>2, Turn
  <2> QED BY <1>7, <2>2, <2>3 DEF CreateTruncate
<1>8. CASE CreateFill(p)
  <2>1. UNCHANGED <<keyFile, hist>> /\ cli[p].pc = "cFill"
    BY <1>8 DEF CreateFill, At
  <2>2. CASE /\ metaFile' = IF metaFile.ino = cli[p].ino
                              THEN [metaFile EXCEPT !.id = cli[p].id, !.full = TRUE]
                              ELSE metaFile
             /\ Return(p)
    <3>1. cli'[p].pc = "idle" /\ \A q \in Cli \ {p} : cli'[q] = cli[q]
      BY <1>a, <2>2, Moved
    <3>2. ASSUME ~hist.overlap, hist'.hurt <= 1
          PROVE  Resting'
      <4>1. metaFile.ino = cli[p].ino /\ keyFile.ino = cli[p].id /\ keyFile.full
        BY <1>b, <2>1, <3>2 DEF AloneOK
      <4>2. metaFile \in [ino : Ident, id : Ident, full : BOOLEAN]
        BY <1>0, <2>1, <4>1, Present
      <4>3. metaFile'.full /\ metaFile'.id = cli[p].id
        BY <2>2, <4>1, <4>2
      <4> QED BY <1>0, <2>1, <4>1, <4>3 DEF Resting, BothThere
    <3> QED BY <2>1, <3>1, <3>2, Turn
  <2>3. CASE Goto(p, "cUndo") /\ UNCHANGED metaFile
    <3>1. cli'[p].pc = "cUndo" /\ \A q \in Cli \ {p} : cli'[q] = cli[q]
      BY <2>3, Moved
    <3>2. ASSUME ~hist.overlap, hist'.hurt <= 1
          PROVE  AloneOK(p)'
      BY <1>b, <2>1, <2>3, <3>1, <3>2 DEF AloneOK
    <3> QED BY <2>1, <3>1, <3>2, Turn
  <2> QED BY <1>8, <2>2, <2>3 DEF CreateFill
<1>9. CASE DeleteKey(p)
  <2>1. UNCHANGED <<metaFile, hist>> /\ cli[p].pc = "dRmKey"
    BY <1>9 DEF DeleteKey, At
  <2>2. /\ \A q \in Cli \ {p} : cli'[q] = cli[q]
        /\ \/ cli'[p].pc = "dRmMeta" /\ keyFile' = Absent
           \/ cli'[p].pc = "idle" /\ UNCHANGED keyFile
    BY <1>9, <1>a, Moved DEF DeleteKey
  <2>3. ASSUME ~hist.overlap, hist'.hurt <= 1
        PROVE  /\ cli'[p].pc = "idle" => Resting'
               /\ cli'[p].pc # "idle" => AloneOK(p)'
    BY <1>b, <2>1, <2>2, <2>3 DEF AloneOK, Resting, BothThere
  <2> QED BY <2>1, <2>2, <2>3, Turn
<1>10. CASE DeleteMeta(p)
  <2>1. UNCHANGED keyFile /\ cli[p].pc = "dRmMeta"
    BY <1>10 DEF DeleteMeta, At
  <2>2. cli'[p].pc = "idle" /\ \A q \in Cli \ {p} : cli'[q] = cli[q]
    BY <1>10, <1>a, Moved DEF DeleteMeta
  <2>3. CASE metaFile' = Absent /\ UNCHANGED hist
    <3>1. ASSUME ~hist.overlap, hist'.hurt <= 1
          PROVE  Resting'
      BY <1>a, <1>b, <2>1, <2>3, <3>1 DEF AloneOK, Resting
    <3> QED BY <2>1, <2>2, <2>3, <3>1, Turn
  <2>4. CASE Interrupted /\ UNCHANGED metaFile
    <3>1. ASSUME ~hist.overlap, hist'.hurt <= 1
          PROVE  Resting'
      BY <1>b, <2>1, <2>4, <3>1, Counted DEF AloneOK, Resting
    <3> QED BY <2>1, <2>2, <2>4, <3>1, Counted, Turn
  <2> QED BY <1>10, <2>3, <2>4 DEF DeleteMeta
<1>11. CASE CliCrash(p)
  <2>1. UNCHANGED <<keyFile, metaFile>> /\ cli[p].pc # "idle" /\ Interrupted
    BY <1>11 DEF CliCrash, files
  <2>2. cli'[p].pc = "idle" /\ \A q \in Cli \ {p} : cli'[q] = cli[q]
    BY <1>11, <1>a, Moved DEF CliCrash
  <2>3. ASSUME ~hist.overlap, hist'.hurt <= 1
        PROVE  Resting'
    <3>1. hist.hurt = 0 /\ hist'.hurt = 1 /\ AloneOK(p)
      BY <1>b, <2>1, <2>3, Counted
    <3>2. Resting \/ keyFile = Absent \/ ~metaFile.full \/ (BothThere /\ keyFile.id = metaFile.id)
      BY <1>0, <2>1, <3>1 DEF AloneOK, CliRec
    <3> QED BY <2>1, <3>1, <3>2 DEF Resting, BothThere
  <2> QED BY <2>1, <2>2, <2>3, Counted, Turn
<1> QED BY <1>1, <1>2, <1>3, <1>4, <1>5, <1>6, <1>7, <1>8, <1>9, <1>10, <1>11
        DEF Create, Delete

------------------------------------------------------------------------------
(* StoreInv is an inductive invariant of the specification.                *)
THEOREM StoreInvariant == Spec => []StoreInv
<1>1. Init => StoreInv
  <2> SUFFICES ASSUME Init PROVE StoreInv
    OBVIOUS
  <2>1. TypeOK
    BY Constants DEF Init, TypeOK, CliRec, Idle, Off
  <2>2. DrawnOK
    BY Constants DEF Init, DrawnOK, Idle
  <2> QED BY <2>1, <2>2 DEF StoreInv
<1>2. StoreInv /\ [Next]_vars => StoreInv'
  <2> SUFFICES ASSUME StoreInv, [Next]_vars PROVE StoreInv'
    OBVIOUS
  <2>1. CASE Next
    BY <2>1, CommandInv, BridgeInv DEF Next
  <2>2. CASE UNCHANGED vars
    BY <2>2 DEF StoreInv, TypeOK, DrawnOK, vars
  <2> QED BY <2>1, <2>2
<1> QED BY <1>1, <1>2, PTL DEF Spec

(* Every variable of the identity store keeps its type.                    *)
THEOREM TypeCorrect == Spec => []TypeOK
<1>1. StoreInv => TypeOK
  BY DEF StoreInv
<1> QED BY <1>1, StoreInvariant, PTL

(* No command replaces a private key, however many of them overlap.        *)
THEOREM KeysKept == Spec => KeyNotReplaced
<1> DEFINE A == keyFile # Absent /\ keyFile' # Absent => keyFile'.id = keyFile.id
<1>1. StoreInv /\ [Next]_vars => [A]_vars
  <2> SUFFICES ASSUME StoreInv, Next, keyFile # Absent, keyFile' # Absent
               PROVE  keyFile'.id = keyFile.id
    OBVIOUS
  <2>1. ASSUME NEW p \in Cli, CreateWrite(p) PROVE keyFile'.id = keyFile.id
    <3>1. keyFile \in [ino : Ident, id : Ident, full : BOOLEAN]
      BY Present DEF StoreInv, TypeOK
    <3> QED BY <2>1, <3>1 DEF CreateWrite
  <2>2. CASE keyFile' = keyFile
    BY <2>2
  <2>3. ASSUME NEW p \in Cli, CreateOpen(p) \/ CreateUndo(p) \/ DeleteKey(p)
        PROVE  keyFile' = keyFile
    BY <2>3 DEF CreateOpen, CreateUndo, DeleteKey
  <2> QED BY <2>1, <2>2, <2>3 DEF Next, Create, Delete, RunSK, LoadKey, LoadMeta,
             CreateClose, CreateTruncate, CreateFill, DeleteMeta, CliCrash, Serve,
             AgentStop, ServeListenerKey, ServeListenerMeta, files
<1> QED BY <1>1, StoreInvariant, PTL DEF Spec, KeyNotReplaced

------------------------------------------------------------------------------
(* The bridge and the commands.                                            *)

(* While nothing has been interrupted, a key and a complete device.json    *)
(* beside it are one identity, at every moment of a command.               *)
LEMMA Paired ==
  ASSUME StoreInv, SeqOK, hist.hurt = 0, ~hist.overlap, keyFile # Absent, metaFile.full
  PROVE  keyFile.id = metaFile.id
<1>1. CASE AllIdle
  BY <1>1 DEF SeqOK, Resting, BothThere
<1>2. ASSUME NEW p \in Cli, cli[p].pc # "idle"
      PROVE  keyFile.id = metaFile.id
  <2>1. AloneOK(p) /\ cli[p] \in CliRec
    BY <1>2 DEF SeqOK, StoreInv, TypeOK
  <2> QED BY <1>2, <2>1 DEF AloneOK, Resting, BothThere, CliRec
<1> QED BY <1>1, <1>2 DEF AllIdle

(* device.key keeps its identity, goes, or gets a new one.                 *)
LEMMA KeySteps ==
  ASSUME StoreInv, Next
  PROVE  \/ UNCHANGED drawn /\ keyFile'.id \in {keyFile.id, None}
         \/ \E n \in Ident \ drawn : drawn' = drawn \cup {n} /\ keyFile'.id \in {keyFile.id, n}
<1>1. ASSUME NEW p \in Cli, CreateOpen(p)
      PROVE  \E n \in Ident \ drawn : drawn' = drawn \cup {n} /\ keyFile'.id \in {keyFile.id, n}
  BY <1>1 DEF CreateOpen
<1>2. ASSUME NEW p \in Cli, CreateWrite(p)
      PROVE  UNCHANGED drawn /\ keyFile'.id = keyFile.id
  <2>1. cli[p].id \in Ident /\ keyFile \in File
    BY <1>2 DEF StoreInv, TypeOK, DrawnOK, CreateWrite, At
  <2>2. keyFile.ino = cli[p].id => keyFile \in [ino : Ident, id : Ident, full : BOOLEAN]
    BY <2>1, Present
  <2> QED BY <1>2, <2>2 DEF CreateWrite
<1>3. ASSUME NEW p \in Cli, CreateUndo(p) \/ DeleteKey(p)
      PROVE  UNCHANGED drawn /\ keyFile'.id \in {keyFile.id, None}
  BY <1>3, Constants DEF CreateUndo, DeleteKey
<1>4. \/ UNCHANGED <<drawn, keyFile>>
      \/ \E p \in Cli : CreateOpen(p) \/ CreateWrite(p) \/ CreateUndo(p) \/ DeleteKey(p)
  BY DEF Next, Create, Delete, RunSK, LoadKey, LoadMeta, CreateClose, CreateTruncate,
     CreateFill, DeleteMeta, CliCrash, Serve, AgentStop, ServeListenerKey,
     ServeListenerMeta, files
<1> QED BY <1>1, <1>2, <1>3, <1>4

(* Interruptions and overlaps are not forgotten.                           *)
LEMMA NotForgotten ==
  ASSUME StoreInv, Next, hist'.hurt = 0, ~hist'.overlap
  PROVE  hist.hurt = 0 /\ ~hist.overlap
<1>1. ASSUME NEW p \in Cli, RunSK(p)
      PROVE  hist.hurt = 0 /\ ~hist.overlap
  <2> DEFINE b == hist.overlap \/ \E q \in Cli : cli[q].pc # "idle"
  <2>1. hist' = [hist EXCEPT !.overlap = b]
    BY <1>1 DEF RunSK
  <2>2. hist.hurt = hist'.hurt /\ hist'.overlap = b
    <3> HIDE DEF b
    <3> QED BY <2>1 DEF StoreInv, TypeOK
  <2>3. ~hist.overlap
    BY <2>2, Zenon
  <2> QED BY <2>2, <2>3
<1>2. CASE Interrupted
  BY <1>2 DEF Interrupted, StoreInv, TypeOK
<1>3. UNCHANGED hist \/ Interrupted \/ \E p \in Cli : RunSK(p)
  BY DEF Next, Create, Delete, LoadKey, LoadMeta, CreateOpen, CreateWrite, CreateUndo,
     CreateClose, CreateTruncate, CreateFill, DeleteKey, DeleteMeta, CliCrash, Serve,
     AgentStop, ServeListenerKey, ServeListenerMeta
<1> QED BY <1>1, <1>2, <1>3

(* What a listener holds after a step.                                     *)
LEMMA BridgeSteps ==
  ASSUME StoreInv, Next, NEW l \in Listener
  PROVE  \/ bridge'[l] = bridge[l]
         \/ bridge'[l].pc \in {"off", "key"}
         \/ /\ bridge'[l].pc = "meta" /\ bridge'[l].key = keyFile.id /\ keyFile.full
            /\ UNCHANGED <<keyFile, drawn, hist>>
         \/ /\ bridge[l].pc = "meta" /\ bridge'[l].pc = "serving" /\ metaFile.full
            /\ bridge'[l].key = bridge[l].key /\ bridge'[l].dev = metaFile.id
            /\ UNCHANGED <<keyFile, drawn, hist>>
<1>0. bridge \in [Listener -> [pc : {"off", "key", "meta", "serving"},
                               key : Ident \cup {None}, dev : Ident \cup {None}]]
  BY DEF StoreInv, TypeOK
<1>1. CASE Serve \/ AgentStop
  <2>1. bridge'[l] \in {[Off EXCEPT !.pc = "key"], Off}
    BY <1>1 DEF Serve, AgentStop
  <2> QED BY <2>1 DEF Off
<1>2. ASSUME NEW k \in Listener, ServeListenerKey(k)
      PROVE  \/ bridge'[l] = bridge[l]
             \/ bridge'[l].pc \in {"off", "key"}
             \/ /\ bridge'[l].pc = "meta" /\ bridge'[l].key = keyFile.id /\ keyFile.full
                /\ UNCHANGED <<keyFile, drawn, hist>>
  BY <1>0, <1>2 DEF ServeListenerKey, Off, files
<1>3. ASSUME NEW k \in Listener, ServeListenerMeta(k)
      PROVE  \/ bridge'[l] = bridge[l]
             \/ bridge'[l].pc \in {"off", "key"}
             \/ /\ bridge[l].pc = "meta" /\ bridge'[l].pc = "serving" /\ metaFile.full
                /\ bridge'[l].key = bridge[l].key /\ bridge'[l].dev = metaFile.id
                /\ UNCHANGED <<keyFile, drawn, hist>>
  BY <1>0, <1>3 DEF ServeListenerMeta, Off, files
<1>4. \/ UNCHANGED bridge \/ Serve \/ AgentStop
      \/ \E k \in Listener : ServeListenerKey(k) \/ ServeListenerMeta(k)
  BY DEF Next, Create, Delete, RunSK, LoadKey, LoadMeta, CreateOpen, CreateWrite,
     CreateUndo, CreateClose, CreateTruncate, CreateFill, DeleteKey, DeleteMeta, CliCrash,
     At
<1> QED BY <1>1, <1>2, <1>3, <1>4

(* The commands that do not overlap, and the bridge beside them.           *)
THEOREM UsableInvariant == Spec => []UsableInv
<1>1. Init => SeqOK /\ LoadedOK /\ BridgeAgrees
  <2> SUFFICES ASSUME Init
               PROVE  SeqOK /\ LoadedOK /\ BridgeAgrees
    OBVIOUS
  <2>1. /\ keyFile = Absent /\ metaFile = Absent /\ \A p \in Cli : cli[p].pc = "idle"
        /\ \A l \in Listener : bridge[l].pc = "off"
        /\ ~Absent.full /\ Absent.id = None
    BY Constants DEF Init, Idle, Off
  <2> QED BY <2>1 DEF SeqOK, LoadedOK, BridgeAgrees, Resting
<1>2. UsableInv /\ StoreInv' /\ [Next]_vars => UsableInv'
  <2> SUFFICES ASSUME UsableInv, StoreInv', [Next]_vars
               PROVE  SeqOK' /\ LoadedOK' /\ BridgeAgrees'
    BY DEF UsableInv
  <2>0. StoreInv /\ SeqOK /\ LoadedOK /\ BridgeAgrees
    BY DEF UsableInv
  <2>1. CASE UNCHANGED vars
    BY <2>0, <2>1 DEF vars, SeqOK, AllIdle, AloneOK, Resting, BothThere, LoadedOK,
       BridgeAgrees, Sign, Identity
  <2>2. CASE Next
    <3>1. SeqOK'
      <4>1. CASE UNCHANGED <<keyFile, metaFile, cli, hist>>
        BY <2>0, <4>1 DEF SeqOK, AllIdle, AloneOK, Resting, BothThere
      <4>2. CASE Serve \/ AgentStop
                   \/ \E l \in Listener : ServeListenerKey(l) \/ ServeListenerMeta(l)
        BY <4>1, <4>2 DEF Serve, AgentStop, ServeListenerKey, ServeListenerMeta, files
      <4> QED BY <2>0, <2>2, <4>2, RunSKSeq, CommandSeq DEF Next
    <3>2. LoadedOK'
      <4>1. keyFile'.id \in drawn' \cup {None}
        BY <2>0, <2>2, KeySteps DEF LoadedOK
      <4>2. drawn \subseteq drawn'
        BY <2>0, <2>2, KeySteps
      <4>3. keyFile.full => keyFile.id \in Ident
        BY <2>0, Present DEF StoreInv, TypeOK
      <4>4. \A l \in Listener : bridge'[l].pc \in {"meta", "serving"} => bridge'[l].key \in drawn'
        BY <2>0, <2>2, <4>2, <4>3, BridgeSteps, IdentityAssumption DEF LoadedOK
      <4> QED BY <4>1, <4>4 DEF LoadedOK
    <3>3. BridgeAgrees'
      <4> SUFFICES ASSUME hist'.hurt = 0, ~hist'.overlap, NEW l \in Listener,
                          bridge'[l].pc = "serving", bridge'[l].key = keyFile'.id
                   PROVE  bridge'[l].dev = bridge'[l].key
        BY DEF BridgeAgrees, Sign, Identity
      <4>1. hist.hurt = 0 /\ ~hist.overlap
        BY <2>0, <2>2, NotForgotten
      <4>2. CASE bridge'[l] = bridge[l]
        <5>1. bridge[l].key \in drawn /\ None \notin drawn
          BY <2>0, <4>2, IdentityAssumption DEF LoadedOK, StoreInv, TypeOK
        <5>2. keyFile'.id = keyFile.id
          BY <2>0, <2>2, <4>2, <5>1, KeySteps
        <5> QED BY <2>0, <4>1, <4>2, <5>2 DEF BridgeAgrees, Sign, Identity
      <4>3. CASE /\ bridge[l].pc = "meta" /\ metaFile.full
                 /\ bridge'[l].key = bridge[l].key /\ bridge'[l].dev = metaFile.id
                 /\ UNCHANGED <<keyFile, drawn, hist>>
        <5>1. bridge[l].key \in drawn /\ None \notin drawn
          BY <2>0, <4>3, IdentityAssumption DEF LoadedOK, StoreInv, TypeOK
        <5>2. keyFile # Absent
          BY <4>3, <5>1, Constants
        <5> QED BY <2>0, <4>1, <4>3, <5>2, Paired
      <4> QED BY <2>0, <2>2, <4>2, <4>3, BridgeSteps
    <3> QED BY <3>1, <3>2, <3>3
  <2> QED BY <2>1, <2>2
<1>3. Init /\ StoreInv => UsableInv
  BY <1>1 DEF UsableInv
<1> QED BY <1>2, <1>3, StoreInvariant, PTL DEF Spec

(* Commands that ran one after the other leave a store that Create or      *)
(* Delete can go on from, and one interruption cannot mix two identities.  *)
THEOREM Usable == Spec => []StoreUsable
<1>1. UsableInv => StoreUsable
  BY Constants DEF UsableInv, SeqOK, Resting, BothThere, StoreUsable, StoreInv, TypeOK
<1> QED BY <1>1, UsableInvariant, PTL

(* The bridge, whose listeners read the two files at two moments beside a  *)
(* running command, announces no other device id for the key on disk.      *)
THEOREM BridgeHonest == Spec => []BridgeAgrees
<1>1. UsableInv => BridgeAgrees
  BY DEF UsableInv
<1> QED BY <1>1, UsableInvariant, PTL
==============================================================================
