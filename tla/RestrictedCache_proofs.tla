----------------------- MODULE RestrictedCache_proofs -----------------------
(***************************************************************************)
(* For every block tree, every set of commands on it and every history of  *)
(* connecting, undoing, dumping and cache traffic, what validation reads   *)
(* about a key is what the commands of the active chain add up to.         *)
(***************************************************************************)
EXTENDS RestrictedCache, TLAPS

\* Most steps are first-order and left to Zenon; those that need more name SMT.
USE Zenon

\* What the pending commands and the database make of a key.
On(k) == \/ toRemove[k] = "off"
         \/ toRemove[k] = "unset" /\ toAdd[k] = "on"
         \/ ~Pending(k) /\ k \in commandDB

Plain == Keys \ Roots

\* The block's commands on plain keys change their status.
Changes(b) == \A k \in Plain : /\ Commands[b][k] = "on" => k \notin Assigned[Parent[b]]
                               /\ Commands[b][k] = "off" => k \in Assigned[Parent[b]]

\* C holds, with each block, its ancestors, and all their commands change something.
Checked(C) == \A b \in C : b # Genesis => Parent[b] \in C /\ Changes(b)

\* That the reading is right after an undo rests on the check that every command
\* of the chain had an effect: a command without effect is not its own inverse.
CommandInv ==
    /\ tip \in Blocks
    /\ toAdd \in [Keys -> Flags] /\ toRemove \in [Keys -> Flags]
    /\ commandDB \subseteq Keys /\ rootsAdd \subseteq Keys
    /\ commandCache \subseteq commandDB
    /\ \E C \in SUBSET Blocks : tip \in C /\ Checked(C)
    /\ \A k \in Plain : On(k) <=> k \in Assigned[tip]

\* Validation reads a plain key as the pending commands and the database say.
LEMMA ReadingPlain ==
    ASSUME CommandInv, NEW k \in Plain
    PROVE  CheckFor(k) <=> On(k)
  <1>1. ~\E s \in rootsAdd \cup commandDB : IsSub(s) /\ Root[s] = k
    BY RestrictedAssumption, SMT DEF IsSub, Plain, CommandInv
  <1> QED  BY <1>1 DEF CheckFor, On, Stored, CommandInv

\* What a block's command does to the reference.
LEMMA AssignedStep ==
    ASSUME NEW b \in Blocks \ {Genesis}, NEW k \in Keys
    PROVE  /\ Commands[b][k] \in Flags
           /\ Commands[b][k] = "on" => k \in Assigned[b]
           /\ Commands[b][k] = "off" => k \notin Assigned[b]
           /\ Commands[b][k] = "unset" => (k \in Assigned[b] <=> k \in Assigned[Parent[b]])
  <1>1. Commands[b][k] \in Flags
    BY RestrictedAssumption, SMT
  <1>2. k \in Assigned[b] <=>
          (Commands[b][k] = "on" \/ (Commands[b][k] = "unset" /\ k \in Assigned[Parent[b]]))
    BY RestrictedAssumption
  <1> QED  BY <1>1, <1>2

\* A fresh node.
LEMMA FreshNode == RestrictedInit => CommandInv
  <1> SUFFICES ASSUME RestrictedInit PROVE CommandInv
    OBVIOUS
  <1>1. {Genesis} \in SUBSET Blocks /\ tip \in {Genesis} /\ Checked({Genesis})
    BY RestrictedAssumption DEF RestrictedInit, Checked
  <1>2. \A k \in Plain : ~On(k) /\ k \notin Assigned[tip]
    BY RestrictedAssumption DEF RestrictedInit, NoCommands, On, Plain, Pending
  <1> QED  BY <1>1, <1>2, RestrictedAssumption DEF RestrictedInit, NoCommands, CommandInv, Flags

\* Connecting a block.
LEMMA ConnectKeepsInv ==
    ASSUME CommandInv, NEW b \in Blocks, NEW asked \in SUBSET Keys, ConnectCommands(b, asked)
    PROVE  CommandInv'
  <1>1. /\ b # Genesis /\ tip = Parent[b] /\ tip' = b
        /\ commandDB' = commandDB
        /\ commandCache' = commandCache \cup {k \in asked : Remembered(k)}
    BY DEF ConnectCommands
  <1>2. /\ toAdd' \in [Keys -> Flags] /\ toRemove' \in [Keys -> Flags] /\ rootsAdd' \subseteq Keys
        /\ \A k \in Keys : /\ toAdd'[k] = IF Commands[b][k] # "unset" THEN Commands[b][k] ELSE toAdd[k]
                           /\ toRemove'[k] = IF Commands[b][k] # "unset" THEN "unset" ELSE toRemove[k]
    <2>1. \A k \in Keys : NoCommands[k] = "unset" /\ Commands[b][k] \in Flags
      BY <1>1, AssignedStep DEF NoCommands
    <2>2. Flush(Commands[b], NoCommands)
      BY DEF ConnectCommands
    <2> QED  BY <2>1, <2>2 DEF Flush, CommandInv, Flags
  <1>3. Changes(b)
    <2> SUFFICES ASSUME NEW k \in Plain
                 PROVE  /\ Commands[b][k] = "on" => k \notin Assigned[Parent[b]]
                        /\ Commands[b][k] = "off" => k \in Assigned[Parent[b]]
      BY DEF Changes
    <2>1. CheckFor(k) <=> k \in Assigned[Parent[b]]
      BY ReadingPlain, <1>1 DEF CommandInv
    <2>2. /\ Commands[b][k] = "on" => ~CheckFor(k)
          /\ Commands[b][k] = "off" => CheckFor(k)
      BY DEF ConnectCommands, VerifyChange, Plain
    <2> QED  BY <2>1, <2>2
  <1>4. \E C \in SUBSET Blocks : b \in C /\ Checked(C)
    <2>1. PICK C \in SUBSET Blocks : tip \in C /\ Checked(C)
      BY DEF CommandInv
    <2>2. Checked(C \cup {b})
      BY <1>1, <1>3, <2>1 DEF Checked
    <2> QED  BY <2>2
  <1>5. ASSUME NEW k \in Plain PROVE On(k)' <=> k \in Assigned[b]
    <2>1. /\ Commands[b][k] = "on" => k \in Assigned[b]
          /\ Commands[b][k] = "off" => k \notin Assigned[b]
          /\ Commands[b][k] = "unset" => (k \in Assigned[b] <=> k \in Assigned[tip])
      BY <1>1, AssignedStep DEF Plain
    <2>2. Commands[b][k] \in Flags /\ k \in Keys
      BY <1>1, AssignedStep DEF Plain
    <2>3. CASE Commands[b][k] = "unset"
      BY <1>1, <1>2, <2>1, <2>2, <2>3 DEF CommandInv, On, Pending
    <2>4. CASE Commands[b][k] # "unset"
      BY <1>2, <2>1, <2>2, <2>4 DEF On, Pending, Flags
    <2> QED  BY <2>3, <2>4
  <1>7. commandCache' \subseteq commandDB'
    BY <1>1 DEF CommandInv, Remembered
  <1> QED  BY <1>1, <1>2, <1>4, <1>5, <1>7, SMT DEF CommandInv, Checked, Changes, Plain

\* Undoing the tip: each command is taken back by its inverse.
LEMMA DisconnectKeepsInv ==
    ASSUME CommandInv, DisconnectCommands
    PROVE  CommandInv'
  <1>1. /\ tip \in Blocks /\ tip # Genesis /\ tip' = Parent[tip]
        /\ commandDB' = commandDB /\ commandCache' = commandCache
    BY DEF DisconnectCommands, CommandInv
  <1>2. /\ toAdd' \in [Keys -> Flags] /\ toRemove' \in [Keys -> Flags] /\ rootsAdd' \subseteq Keys
        /\ \A k \in Keys :
              /\ toAdd'[k] = IF Commands[tip][k] # "unset" THEN "unset" ELSE toAdd[k]
              /\ toRemove'[k] = IF Commands[tip][k] # "unset" THEN Commands[tip][k] ELSE toRemove[k]
    BY RestrictedAssumption, SMT DEF DisconnectCommands, Flush, NoCommands, CommandInv, Flags
  <1>3. PICK C \in SUBSET Blocks : tip \in C /\ Checked(C)
    BY DEF CommandInv
  <1>4. tip' \in C /\ Changes(tip)
    BY <1>1, <1>3 DEF Checked
  <1>5. ASSUME NEW k \in Plain PROVE On(k)' <=> k \in Assigned[tip']
    <2>1. Commands[tip][k] = "unset" => (k \in Assigned[tip] <=> k \in Assigned[tip'])
      BY <1>1, AssignedStep DEF Plain
    <2>2. Commands[tip][k] \in Flags /\ k \in Keys
      BY <1>1, AssignedStep DEF Plain
    <2>3. CASE Commands[tip][k] = "unset"
      BY <1>1, <1>2, <2>1, <2>2, <2>3 DEF CommandInv, On, Pending
    <2>4. CASE Commands[tip][k] # "unset"
      BY <1>1, <1>2, <1>4, <2>2, <2>4 DEF On, Pending, Flags, Changes
    <2> QED  BY <2>3, <2>4
  <1>6. commandCache' \subseteq commandDB' /\ commandDB' \subseteq Keys
    BY <1>1 DEF CommandInv
  <1> QED  BY <1>1, <1>2, <1>3, <1>4, <1>5, <1>6, SMT DEF CommandInv, Checked, Changes, Plain

\* Dumping: the database takes over what was pending, and the caches follow.
LEMMA DumpKeepsInv ==
    ASSUME CommandInv, DumpCommands
    PROVE  CommandInv'
  <1>1. /\ tip' = tip /\ commandDB' = Dumped(commandDB) /\ commandCache' = Dumped(commandCache)
        /\ toAdd' = NoCommands /\ toRemove' = NoCommands /\ rootsAdd' = {}
    BY DEF DumpCommands
  <1>2. commandCache' \subseteq commandDB' /\ commandDB' \subseteq Keys
    BY <1>1 DEF Dumped, CommandInv
  <1>3. ASSUME NEW k \in Plain PROVE On(k)' <=> k \in Assigned[tip]
    <2>1. On(k)' <=> k \in commandDB'
      BY <1>1 DEF On, Pending, NoCommands, Plain
    <2>2. k \in commandDB' <=> On(k)
      BY <1>1 DEF Dumped, On, Plain
    <2> QED  BY <2>1, <2>2 DEF CommandInv
  <1>4. toAdd' \in [Keys -> Flags] /\ toRemove' \in [Keys -> Flags]
    BY <1>1 DEF NoCommands, Flags
  <1> QED  BY <1>1, <1>2, <1>3, <1>4 DEF CommandInv, Checked, Changes, Plain

\* Any step.
LEMMA StepKeepsCommandInv ==
    ASSUME CommandInv, [RestrictedNext]_rvars
    PROVE  CommandInv'
  <1>1. ASSUME NEW k \in Keys, QueryCommand(k) \/ EvictCommand(k)
        PROVE  CommandInv'
    <2>1. /\ UNCHANGED <<tip, toAdd, toRemove, rootsAdd, commandDB>>
          /\ commandCache' \subseteq commandDB
      BY <1>1 DEF QueryCommand, EvictCommand, Remembered, CommandInv
    <2> QED  BY <2>1 DEF CommandInv, On, Pending, Checked, Changes, Plain
  <1>2. CASE UNCHANGED rvars
    BY <1>2 DEF rvars, CommandInv, On, Pending, Checked, Changes, Plain
  <1> QED
    BY <1>1, <1>2, ConnectKeepsInv, DisconnectKeepsInv, DumpKeepsInv DEF RestrictedNext

\* Validation sees a qualifier, a frozen address or a frozen asset exactly when the
\* commands of the active chain add up to it: for every tree, every placement of
\* the commands, and every order of connecting, undoing, dumping and caching.
THEOREM CommandsAlwaysFollowChain == RestrictedSpec => []CommandsFollowChain
  <1>1. RestrictedInit => CommandInv
    BY FreshNode
  <1>2. CommandInv /\ [RestrictedNext]_rvars => CommandInv'
    BY StepKeepsCommandInv
  <1>3. CommandInv => CommandsFollowChain
    BY ReadingPlain DEF CommandsFollowChain, CommandInv, Plain
  <1> QED  BY <1>1, <1>2, <1>3, PTL DEF RestrictedSpec
=============================================================================
