--------------------------- MODULE RestrictedCache ---------------------------
(***************************************************************************)
(* The commands of restricted assets: an address gets or loses a           *)
(* qualifier, is frozen or thawed for a restricted asset, or a restricted  *)
(* asset is frozen as a whole.  What the commands of the active chain      *)
(* amount to is spread over four places: the sets of commands added and    *)
(* undone since the last flush in the global cache passets, the            *)
(* least-recently-used caches of positive answers, and the database.       *)
(*                                                                         *)
(* The three kinds of command run the same code on three pairs of sets     *)
(* (assets/assets.cpp), so a key stands for a qualifier and an address, a  *)
(* restricted asset and an address, or a restricted asset alone.           *)
(***************************************************************************)
EXTENDS Integers, FiniteSets

CONSTANTS
    Blocks, Genesis, Parent,
    Keys,       \* what a command can switch on and off
    Roots,      \* the root qualifiers that have sub-qualifiers
    Root,       \* the key of the parent of a sub-qualifier; itself otherwise
    Commands,   \* the command of a block on a key: "on", "off" or "unset"
    Assigned    \* the keys that are on after a block: the reference

\* The flag of a command, QualifierType or RestrictedType; "unset": none.
Flags == {"unset", "on", "off"}

(***************************************************************************)
(* VerifyQualifierChange and its siblings look at the tip only, so all the *)
(* commands of a block on one key carry the same flag: a block has at most *)
(* one command on a key.                                                   *)
(***************************************************************************)
ASSUME RestrictedAssumption ==
    /\ Genesis \in Blocks
    /\ Parent \in [Blocks -> Blocks]
    /\ Roots \subseteq Keys
    /\ Root \in [Keys -> Keys]
    /\ \A k \in Keys : Root[k] # k => Root[k] \in Roots
    /\ Commands \in [Blocks -> [Keys -> Flags]]
    /\ Assigned \in [Blocks -> SUBSET Keys]
    /\ Assigned[Genesis] = {}
    /\ \A b \in Blocks \ {Genesis} : \A k \in Keys :
          k \in Assigned[b] <=> \/ Commands[b][k] = "on"
                                \/ Commands[b][k] = "unset" /\ k \in Assigned[Parent[b]]

VARIABLES
    tip,            \* the block passets stands for
    toAdd,          \* passets->setNew...ToAdd
    toRemove,       \* passets->setNew...ToRemove
    rootsAdd,       \* passets->mapRootQualifierAddressesAdd, its sub-qualifiers
    commandCache,   \* passetsQualifierCache, passetsRestrictionCache, ...
    commandDB       \* prestricteddb

rvars == <<tip, toAdd, toRemove, rootsAdd, commandCache, commandDB>>

NoCommands == [k \in Keys |-> "unset"]

RestrictedInit ==
    /\ tip = Genesis
    /\ toAdd = NoCommands
    /\ toRemove = NoCommands
    /\ rootsAdd = {}
    /\ commandCache = {}
    /\ commandDB = {}

IsSub(k) == Root[k] # k

-----------------------------------------------------------------------------
(***************************************************************************)
(* CheckForAddressQualifier, CheckForAddressRestriction and                *)
(* CheckForGlobalRestriction with fSkipTempCache, which is how validation  *)
(* calls them.                                                             *)
(***************************************************************************)
Pending(k) == toAdd[k] # "unset" \/ toRemove[k] # "unset"

Stored(k) == k \in commandCache \/ k \in commandDB

CheckFor(k) ==
    \/ toRemove[k] = "off"
    \/ toRemove[k] = "unset" /\ toAdd[k] = "on"
    \/ /\ ~Pending(k)
       /\ \/ Stored(k)
          \/ \E s \in rootsAdd \cup commandDB : IsSub(s) /\ Root[s] = k

\* An answer found in the database is remembered.
Remembered(k) == /\ ~Pending(k) /\ k \in commandDB
                 /\ \A s \in rootsAdd : IsSub(s) => Root[s] # k

\* VerifyQualifierChange, VerifyRestrictedAddressChange and
\* VerifyGlobalRestrictedChange: a command must change the status at the tip.
VerifyChange(b) ==
    \A k \in Keys : /\ Commands[b][k] = "on" => ~CheckFor(k)
                    /\ Commands[b][k] = "off" => CheckFor(k)

(***************************************************************************)
(* Flush of the cache of one block into passets.  AddQualifierAddress and  *)
(* RemoveQualifierAddress put the command of a sub-qualifier also in       *)
(* mapRootQualifierAddressesAdd or mapRootQualifierAddressesRemove; Flush  *)
(* inserts both into the map of additions of passets.                      *)
(***************************************************************************)
Flush(add, remove) ==
    /\ toAdd' = [k \in Keys |-> IF remove[k] # "unset" THEN "unset"
                                ELSE IF add[k] # "unset" THEN add[k] ELSE toAdd[k]]
    /\ toRemove' = [k \in Keys |-> IF remove[k] # "unset" THEN remove[k]
                                   ELSE IF add[k] # "unset" THEN "unset" ELSE toRemove[k]]
    /\ rootsAdd' = rootsAdd \cup {k \in Keys : IsSub(k) /\ (add[k] # "unset" \/ remove[k] # "unset")}

\* ConnectTip, its commands.  asked: the keys its validation looks up.
ConnectCommands(b, asked) ==
    /\ b # Genesis
    /\ tip = Parent[b]
    /\ VerifyChange(b)
    /\ Flush(Commands[b], NoCommands)
    /\ commandCache' = commandCache \cup {k \in asked : Remembered(k)}
    /\ tip' = b
    /\ UNCHANGED commandDB

\* DisconnectTip, its commands.
DisconnectCommands ==
    /\ tip # Genesis
    /\ Flush(NoCommands, Commands[tip])
    /\ tip' = Parent[tip]
    /\ UNCHANGED <<commandCache, commandDB>>

\* What the commands added, then the commands undone, leave of a stored set.
Dumped(stored) ==
    {k \in Keys : \/ toRemove[k] = "off"
                  \/ toRemove[k] = "unset" /\ toAdd[k] = "on"
                  \/ ~Pending(k) /\ k \in stored}

\* Mutant: the answers of the cache outlive the commands that end them.
DumpCommands_StaleCache ==
    /\ commandDB' = Dumped(commandDB)
    /\ toAdd' = NoCommands
    /\ toRemove' = NoCommands
    /\ rootsAdd' = {}
    /\ UNCHANGED <<tip, commandCache>>

\* DumpCacheToDatabase, its commands.
DumpCommands ==
    /\ commandDB' = Dumped(commandDB)
    /\ commandCache' = Dumped(commandCache)
    /\ toAdd' = NoCommands
    /\ toRemove' = NoCommands
    /\ rootsAdd' = {}
    /\ UNCHANGED tip

\* A query of an RPC command, which remembers its answer.
QueryCommand(k) ==
    /\ Remembered(k)
    /\ commandCache' = commandCache \cup {k}
    /\ UNCHANGED <<tip, toAdd, toRemove, rootsAdd, commandDB>>

\* The full cache drops the entry not used for longest.
EvictCommand(k) ==
    /\ commandCache' = commandCache \ {k}
    /\ UNCHANGED <<tip, toAdd, toRemove, rootsAdd, commandDB>>

RestrictedNext ==
    \/ \E b \in Blocks, asked \in SUBSET Keys : ConnectCommands(b, asked)
    \/ DisconnectCommands
    \/ DumpCommands
    \/ \E k \in Keys : QueryCommand(k) \/ EvictCommand(k)

RestrictedSpec == RestrictedInit /\ [][RestrictedNext]_rvars

-----------------------------------------------------------------------------
(***************************************************************************)
(* Whatever was connected, undone and flushed before, validation sees a    *)
(* qualifier, a frozen address or a frozen asset exactly when the commands *)
(* of the active chain add up to it.  The database alone, the pending      *)
(* commands alone, or the cache of answers may each say something else.    *)
(***************************************************************************)
CommandsFollowChain ==
    \A k \in Keys \ Roots : CheckFor(k) <=> k \in Assigned[tip]
=============================================================================
