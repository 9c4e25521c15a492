------------------------------- MODULE Storage -------------------------------
(***************************************************************************)
(* How a node's chain reaches its disk and comes back after a crash:       *)
(* BlockChain.AddBlock, GenerateBlock and NewBlockChain over the three     *)
(* buckets of storage.Storage and the trie database.  storage.AddBlock is  *)
(* three bolt transactions, and the process can end between any two of     *)
(* them.  A bolt transaction, and the commit of a trie, is atomic.         *)
(*                                                                         *)
(* Block is the set of all blocks the shard might ever build, with their   *)
(* parents and state roots.                                                *)
(***************************************************************************)
EXTENDS Naturals

CONSTANTS Block, Genesis, Parent, StateRoot, None

ASSUME TreeAssumption ==
  /\ Genesis \in Block /\ None \notin Block
  /\ Parent \in [Block -> Block] /\ Parent[Genesis] = Genesis
  /\ DOMAIN StateRoot = Block

VARIABLES
  blockBucket, blockHeaderBucket,  \* the hashes with a block, with a header
  newest,          \* OnlyNewestBlock, or None
  tries,           \* the state roots in the trie database
  CurrentBlock,    \* in memory
  adding,          \* the block in AddBlock, or None
  step,            \* the next transaction of AddBlock, or where the process is
  reported         \* <<b, w>>: b was relayed and reported, AddBlock having w it

disk == <<blockBucket, blockHeaderBucket, newest, tries>>
memory == <<CurrentBlock, adding, step>>
storageVars == <<disk, memory, reported>>

StorageInit ==
  /\ blockBucket = {} /\ blockHeaderBucket = {} /\ newest = None
  /\ tries = {StateRoot[Genesis]}     \* the empty trie is always there
  /\ CurrentBlock = None /\ adding = None /\ step = "down"
  /\ reported = {}

-----------------------------------------------------------------------------
\* GetBlock finds the newest block, and trie.New its state.
Loadable == newest \in blockBucket /\ StateRoot[newest] \in tries

\* NewBlockChain on an empty database: store the genesis block.
OpenEmpty ==
  /\ step = "down" /\ newest = None
  /\ adding' = Genesis /\ step' = "block"
  /\ UNCHANGED <<disk, CurrentBlock, reported>>

\* NewBlockChain on an existing one; log.Panic if it cannot be loaded.
OpenExisting ==
  /\ step = "down" /\ newest # None
  /\ IF Loadable THEN CurrentBlock' = newest /\ step' = "up"
                 ELSE CurrentBlock' = None /\ step' = "panic"
  /\ UNCHANGED <<disk, adding, reported>>

\* GenerateBlock at the leader commits the new state long before the block is
\* agreed on, if it ever is.
GenerateBlock(b) ==
  /\ step = "up" /\ b # Genesis /\ Parent[b] = CurrentBlock
  /\ tries' = tries \cup {StateRoot[b]}
  /\ UNCHANGED <<blockBucket, blockHeaderBucket, newest, memory, reported>>

\* AddBlock up to its first bolt transaction: it returns silently from a block
\* that does not follow, and executes one that does unless its state is there
\* already.
BeginAddBlock(b) ==
  /\ step = "up" /\ b # Genesis
  /\ adding' = b
  /\ IF Parent[b] = CurrentBlock
       THEN tries' = tries \cup {StateRoot[b]} /\ CurrentBlock' = b /\ step' = "block"
       ELSE UNCHANGED <<tries, CurrentBlock>> /\ step' = "refused"
  /\ UNCHANGED <<blockBucket, blockHeaderBucket, newest, reported>>

\* The three transactions of storage.AddBlock.
PutBlock ==
  /\ step = "block"
  /\ blockBucket' = blockBucket \cup {adding}
  /\ step' = "header"
  /\ UNCHANGED <<blockHeaderBucket, newest, tries, CurrentBlock, adding, reported>>

AddBlockHeader ==
  /\ step = "header"
  /\ blockHeaderBucket' = blockHeaderBucket \cup {adding}
  /\ step' = "newest"
  /\ UNCHANGED <<blockBucket, newest, tries, CurrentBlock, adding, reported>>

\* Wrong: before the block is stored.
UpdateNewestBlockEarly ==
  /\ step \in {"block", "newest"}
  /\ newest' = adding
  /\ step' = IF step = "block" THEN "block" ELSE "added"
  /\ UNCHANGED <<blockBucket, blockHeaderBucket, tries, CurrentBlock, adding, reported>>

\* Wrong: written only when there is no newest block yet.
UpdateNewestBlockOnce ==
  /\ step = "newest"
  /\ newest' = IF newest = None THEN adding ELSE newest
  /\ step' = "added"
  /\ UNCHANGED <<blockBucket, blockHeaderBucket, tries, CurrentBlock, adding, reported>>

UpdateNewestBlock ==
  /\ step = "newest"
  /\ newest' = adding
  /\ step' = "added"
  /\ UNCHANGED <<blockBucket, blockHeaderBucket, tries, CurrentBlock, adding, reported>>

\* AddBlock returned.  AddGenisisBlock reads the genesis block back; behind any
\* other block, added or refused, HandleinCommit at the leader relays its
\* transactions and reports it.
Added ==
  /\ step \in {"added", "refused"}
  /\ CurrentBlock' = IF adding = Genesis THEN newest ELSE CurrentBlock
  /\ reported' = IF adding = Genesis THEN reported ELSE reported \cup {<<adding, step>>}
  /\ adding' = None /\ step' = "up"
  /\ UNCHANGED disk

\* The process ends, wherever it is; its memory is gone.
Crash ==
  /\ step \notin {"down", "panic"}
  /\ CurrentBlock' = None /\ adding' = None /\ step' = "down"
  /\ UNCHANGED <<disk, reported>>

StorageNext ==
  \/ OpenEmpty \/ OpenExisting
  \/ \E b \in Block : GenerateBlock(b) \/ BeginAddBlock(b)
  \/ PutBlock \/ AddBlockHeader \/ UpdateNewestBlock \/ Added
  \/ Crash

StorageSpec == StorageInit /\ [][StorageNext]_storageVars

-----------------------------------------------------------------------------
(* Properties.                                                             *)

\* Every variable has its type.
StorageTypeOK ==
  /\ blockBucket \subseteq Block /\ blockHeaderBucket \subseteq Block
  /\ newest \in Block \cup {None}
  /\ StateRoot[Genesis] \in tries
  /\ CurrentBlock \in Block \cup {None} /\ adding \in Block \cup {None}
  /\ step \in {"down", "up", "block", "header", "newest", "added", "refused", "panic"}
  /\ reported \subseteq Block \X {"added", "refused"}

\* Whenever the process ends, NewBlockChain can load what it left on the disk:
\* the newest block is there with its header and its state, and below every
\* stored block the chain is complete.
Recoverable ==
  /\ step # "panic"
  /\ newest # None => Loadable /\ newest \in blockHeaderBucket
  /\ \A b \in blockBucket : Parent[b] \in blockBucket

\* Why: the block in AddBlock follows the newest one, and each transaction
\* finds what the ones before it wrote.
Orderly ==
  /\ newest = None => blockBucket \subseteq {Genesis}
  /\ step \in {"up", "refused"} => newest # None /\ CurrentBlock = newest
  /\ step = "refused" => adding \in Block /\ adding # Genesis
  /\ step \in {"block", "header", "newest", "added"} =>
       adding \in Block /\ StateRoot[adding] \in tries
  /\ step \in {"block", "header", "newest"} =>
       IF adding = Genesis THEN newest = None
       ELSE newest # None /\ Parent[adding] = newest /\ CurrentBlock = adding
  /\ step \in {"header", "newest", "added"} => adding \in blockBucket
  /\ step \in {"newest", "added"} => adding \in blockHeaderBucket
  /\ step = "added" => newest = adding /\ (adding # Genesis => CurrentBlock = adding)

StorageInv == StorageTypeOK /\ Recoverable /\ Orderly

\* The blocks below b, b included: what every set closed under Parent that
\* has b in it contains.
Ancestors(b) ==
  {x \in Block : \A S \in SUBSET Block :
                   b \in S /\ (\A y \in S : Parent[y] \in S) => x \in S}

\* A block that AddBlock added and the leader relayed and reported is never
\* forgotten: it stays in the chain a restart loads.  A block that AddBlock
\* refused is relayed and reported all the same and is in no chain; Pbft's
\* RelayedOnce shows that the first leader of a shard commits none.
ReportedKept ==
  \A b \in Block :
    <<b, "added">> \in reported => newest # None /\ b \in Ancestors(newest)

\* On the disk the chain only grows, one block at a time, crashes included.
GrowsByOne ==
  [][newest' # newest => \/ newest = None /\ newest' = Genesis
                         \/ newest # None /\ newest' # None
                            /\ Parent[newest'] = newest]_storageVars
=============================================================================
