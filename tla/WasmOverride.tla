---------------------------- MODULE WasmOverride ----------------------------
(***************************************************************************)
(* WasmOverride::new: the directory of local runtimes is read once, when   *)
(* the client is built, into a map from a spec_version to a WASM blob.     *)
(* read_dir yields the entries in no particular order, and inserting a     *)
(* second blob of one version overwrites the first.                        *)
(*                                                                         *)
(* Definitions D_x are variants of D with a mistake in them; nothing uses  *)
(* them but the mutation tests of the properties.                          *)
(***************************************************************************)
EXTENDS Naturals, FiniteSets

CONSTANTS
    Files,       \* names of directory entries
    WasmFiles,   \* the names that end in .wasm
    SpecOf       \* spec_version of a blob, for the blobs that state one

ASSUME FilesAssumption == WasmFiles \subseteq Files /\ DOMAIN SpecOf \subseteq WasmFiles

VARIABLES
    isDir,       \* is the path a directory?
    dir,         \* its entries
    scan,        \* "new", "scrape", then "ok" or "error"
    todo,        \* the entries read_dir has still to yield
    overrides,   \* the map under construction
    duplicates,  \* the entries whose version was in the map already
    ioError      \* has the file system refused a read?

input == <<isDir, dir>>
scrapeVars == <<input, scan, todo, overrides, duplicates, ioError>>

ScrapeInit ==
    /\ isDir \in BOOLEAN /\ dir \in SUBSET Files
    /\ scan = "new" /\ todo = {}
    /\ overrides = [v \in {} |-> v] /\ duplicates = {} /\ ioError = FALSE

(* The client is not built. *)
Refuse == scan' = "error" /\ UNCHANGED <<input, todo, overrides, duplicates>>

NotADirectory == scan = "new" /\ ~isDir /\ Refuse /\ UNCHANGED ioError

(* Opening the directory, stepping through it or reading a blob fails. *)
Io ==
    /\ (scan = "new" /\ isDir) \/ scan = "scrape"
    /\ ioError' = TRUE
    /\ Refuse

Open ==
    /\ scan = "new" /\ isDir
    /\ scan' = "scrape" /\ todo' = dir
    /\ UNCHANGED <<input, overrides, duplicates, ioError>>

(* HashMap::insert *)
Insert(map, v, file) ==
    [k \in DOMAIN map \cup {v} |-> IF k = v THEN file ELSE map[k]]

(* What HashMap::insert reports: an entry whose version was in the map. *)
Duplicate_never(file) == {}
Duplicate_any(file) == IF DOMAIN overrides # {} THEN {file} ELSE {}
Duplicate(file) == IF SpecOf[file] \in DOMAIN overrides THEN {file} ELSE {}

ScrapeEntry(file) ==
    /\ scan = "scrape" /\ file \in todo
    /\ todo' = todo \ {file}
    /\ \/ /\ file \in DOMAIN SpecOf
          /\ overrides' = Insert(overrides, SpecOf[file], file)
          /\ duplicates' = duplicates \cup Duplicate(file)
       \/ /\ file \notin WasmFiles
          /\ UNCHANGED <<overrides, duplicates>>
    /\ UNCHANGED <<input, scan, ioError>>

(* The blob does not state its version. *)
VersionInvalid(file) ==
    /\ scan = "scrape" /\ file \in todo
    /\ file \in WasmFiles /\ file \notin DOMAIN SpecOf
    /\ Refuse /\ UNCHANGED ioError

DuplicateRuntime ==
    /\ scan = "scrape" /\ todo = {} /\ duplicates # {}
    /\ Refuse /\ UNCHANGED ioError

Ready ==
    /\ scan = "scrape" /\ todo = {} /\ duplicates = {}
    /\ scan' = "ok"
    /\ UNCHANGED <<input, todo, overrides, duplicates, ioError>>

Scrape ==
    \/ NotADirectory \/ Io \/ Open \/ DuplicateRuntime \/ Ready
    \/ \E file \in Files : ScrapeEntry(file) \/ VersionInvalid(file)

ScrapeSpec == ScrapeInit /\ [][Scrape]_scrapeVars

-----------------------------------------------------------------------------
(* Properties. *)

Blobs == dir \cap WasmFiles

(* Whatever the order of the directory, the client that is built overrides   *)
(* each version of a blob in the directory with that very blob: no blob is   *)
(* lost to another of the same version, and nothing else is in the map.      *)
OverridesExact ==
    scan = "ok" =>
        /\ Blobs \subseteq DOMAIN SpecOf
        /\ DOMAIN overrides = {SpecOf[f] : f \in Blobs}
        /\ \A f \in Blobs : overrides[SpecOf[f]] = f

(* A directory is refused for a reason that can be found in it, not for the  *)
(* order it is read in: a blob without a version or two blobs of one version.*)
RefusedForCause ==
    scan = "error" =>
        \/ ~isDir \/ ioError
        \/ ~(Blobs \subseteq DOMAIN SpecOf)
        \/ \E f, g \in Blobs : f # g /\ SpecOf[f] = SpecOf[g]
=============================================================================
