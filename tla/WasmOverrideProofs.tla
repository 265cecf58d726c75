------------------------- MODULE WasmOverrideProofs -------------------------
(***************************************************************************)
(* The map of WasmOverride is exact, for every directory and every order   *)
(* of its entries.                                                         *)
(***************************************************************************)
EXTENDS WasmOverride, TLAPS

USE FilesAssumption

(* What has been read so far is in the map, and a blob that is not was       *)
(* overwritten by one that counts as a duplicate.                            *)
Read == Blobs \ todo
ScrapeInv ==
    /\ todo \subseteq dir
    /\ scan = "scrape" =>
          /\ isDir
          /\ Read \subseteq DOMAIN SpecOf
          /\ DOMAIN overrides = {SpecOf[f] : f \in Read}
          /\ duplicates = {} => \A f \in Read : overrides[SpecOf[f]] = f
          /\ duplicates # {} => \E f, g \in Read : f # g /\ SpecOf[f] = SpecOf[g]
    /\ scan = "new" => DOMAIN overrides = {} /\ duplicates = {} /\ todo = {}

(* The invariant and the two properties it is for. *)
IInv == ScrapeInv /\ OverridesExact /\ RefusedForCause

(* The map is empty before the directory is opened. *)
LEMMA InitScrape == ScrapeInit => IInv
  BY DEF ScrapeInit, IInv, ScrapeInv, OverridesExact, RefusedForCause

(* One entry of the directory keeps the map exact. *)
LEMMA EntryScrape ==
    ASSUME IInv, NEW file \in Files, ScrapeEntry(file)
    PROVE  IInv'
  <1> USE DEF IInv, ScrapeInv, ScrapeEntry, input
  <1>1. file \notin Read /\ todo' \subseteq dir' /\ scan' = "scrape"
    BY DEF Read, Blobs
  <1>2. CASE file \notin WasmFiles
    <2>1. Read' = Read
      BY <1>2 DEF Read, Blobs
    <2>2. UNCHANGED <<overrides, duplicates>>
      BY <1>2
    <2> QED
      BY <1>1, <2>1, <2>2 DEF OverridesExact, RefusedForCause
  <1>3. CASE file \in DOMAIN SpecOf
    <2>1. Read' = Read \cup {file}
      BY <1>3 DEF Read, Blobs
    <2>2. overrides' = Insert(overrides, SpecOf[file], file)
          /\ duplicates' = duplicates \cup Duplicate(file)
      BY <1>3
    <2>3. DOMAIN overrides' = {SpecOf[f] : f \in Read'}
      BY <2>1, <2>2 DEF Insert
    <2>4. ASSUME duplicates' = {} PROVE \A f \in Read' : overrides'[SpecOf[f]] = f
      <3>1. duplicates = {} /\ SpecOf[file] \notin DOMAIN overrides
        BY <2>2, <2>4 DEF Duplicate
      <3>2. \A f \in Read : SpecOf[f] \in DOMAIN overrides /\ SpecOf[f] # SpecOf[file]
        BY <3>1
      <3> QED
        BY <2>1, <2>2, <3>1, <3>2 DEF Insert
    <2>5. ASSUME duplicates' # {}
          PROVE  \E f, g \in Read' : f # g /\ SpecOf[f] = SpecOf[g]
      <3>1. CASE duplicates # {}
        BY <2>1, <3>1
      <3>2. CASE SpecOf[file] \in DOMAIN overrides
        <4>1. PICK f \in Read : SpecOf[f] = SpecOf[file]
          BY <3>2
        <4> QED
          BY <1>1, <2>1, <4>1
      <3> QED
        BY <2>2, <2>5, <3>1, <3>2 DEF Duplicate
    <2> QED
      BY <1>1, <1>3, <2>1, <2>3, <2>4, <2>5 DEF OverridesExact, RefusedForCause
  <1> QED
    BY <1>2, <1>3

(* Every step keeps the invariant. *)
LEMMA NextScrape == IInv /\ [Scrape]_scrapeVars => IInv'
  <1> SUFFICES ASSUME IInv, [Scrape]_scrapeVars PROVE IInv'
    OBVIOUS
  <1> USE DEF IInv, ScrapeInv, OverridesExact, RefusedForCause, Read, Blobs, input
  <1>1. CASE NotADirectory
    BY <1>1 DEF NotADirectory, Refuse
  <1>2. CASE Io
    BY <1>2 DEF Io, Refuse
  <1>3. CASE Open
    BY <1>3 DEF Open
  <1>4. CASE DuplicateRuntime
    BY <1>4 DEF DuplicateRuntime, Refuse
  <1>5. CASE Ready
    <2>1. Read = Blobs
      BY <1>5 DEF Ready
    <2> QED
      BY <1>5, <2>1 DEF Ready
  <1>6. CASE \E file \in Files : ScrapeEntry(file)
    BY <1>6, EntryScrape
  <1>7. CASE \E file \in Files : VersionInvalid(file)
    BY <1>7 DEF VersionInvalid, Refuse
  <1>8. CASE UNCHANGED scrapeVars
    BY <1>8 DEF scrapeVars
  <1> QED
    BY <1>1, <1>2, <1>3, <1>4, <1>5, <1>6, <1>7, <1>8 DEF Scrape

(* Whatever the directory holds and in whatever order it is read, a client   *)
(* that is built overrides each version with the one blob of that version    *)
(* (WasmOverride::scrape_overrides).                                         *)
THEOREM ScrapedExactly == ScrapeSpec => []OverridesExact
  BY InitScrape, NextScrape, PTL DEF ScrapeSpec, IInv

(* A directory that is refused holds the reason (scrape_overrides returns    *)
(* VersionInvalid, DuplicateRuntime or NotADirectory, or reading failed).    *)
THEOREM RefusedWithCause == ScrapeSpec => []RefusedForCause
  BY InitScrape, NextScrape, PTL DEF ScrapeSpec, IInv
=============================================================================
