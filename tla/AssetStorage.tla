---------------------------- MODULE AssetStorage ----------------------------
(***************************************************************************)
(* asset_storage.rs with asset_storage/file.rs, inmemory.rs and            *)
(* interface.rs: named storages of assets, in memory or in a directory.    *)
(* An asset is the pair of the name of its storage and its key there, the  *)
(* AssetSpec of the code; its contents are left out.  Keys are fresh uuids *)
(* and here name the task, the try and the side of the task they are for.  *)
(*                                                                         *)
(* A file is created before it is written, but nobody is told its key      *)
(* before save has returned, so that a save counts as one step.            *)
(***************************************************************************)
EXTENDS Naturals

CONSTANTS
  Registry   \* AssetStorageRegistry: the kind of each storage by its name

ASSUME StorageAssumption ==
  \A name \in DOMAIN Registry : Registry[name] \in {"memory", "file"}

VARIABLES
  assets,    \* the assets the storages hold
  storage    \* storage of the inputs, of the workers and of the outputs

AssetKey(k, d, side) == <<k, d, side>>
AssetSpec(name, key) == <<name, key>>
StorageOf(spec) == spec[1]

Known(name) == name \in DOMAIN Registry

(* AssetSpec::path: workers and jobs are handed paths.                     *)
path(spec) == Registry[StorageOf(spec)] = "file"

(* AssetStorage of either kind: load needs the key, reserve hands out one  *)
(* that is not in use and saves nothing.                                   *)
storage_load(spec) == spec \in assets
storage_save(specs) == assets \cup specs
storage_reserve(spec) == spec \notin assets

load_assets(specs) == \A spec \in specs : Known(StorageOf(spec)) /\ storage_load(spec)
save_assets(specs) == storage_save(specs)
reserve_asset_specs(specs) == \A spec \in specs : Known(StorageOf(spec)) /\ storage_reserve(spec)

(* transfer_assets: an asset that already is in the storage is handed back *)
(* as it is, whether it exists or not.                                     *)
transfer_assets(from, to, key) ==
  IF StorageOf(from) = to
  THEN [ok |-> Known(to), spec |-> from, assets |-> assets]
  ELSE LET copy == AssetSpec(to, key)
       IN [ok     |-> Known(to) /\ load_assets({from}),
           spec   |-> copy,
           assets |-> storage_save({copy})]

(* What is left when the process stops: "These Assets will be lost between *)
(* runs or if the Workflow server crashes" (interface.rs, Memory).         *)
AfterCrash == {spec \in assets : path(spec)}

-----------------------------------------------------------------------------
(* The assets of a task: its inputs, which exist when it is executed, and  *)
(* for try d the copies, the outputs in the storage of the workers and the *)
(* outputs in the storage of the run.                                      *)
Input(k) == AssetSpec(storage.input, AssetKey(k, 0, "in"))
WorkOutput(k, d) == AssetSpec(storage.work, AssetKey(k, d, "out"))
Output(k, d) == AssetSpec(storage.output, AssetKey(k, d, "out"))

TransferInput(k, d) == transfer_assets(Input(k), storage.work, AssetKey(k, d, "in"))
TransferOutput(k, d) == transfer_assets(WorkOutput(k, d), storage.output, AssetKey(k, d, "out"))
=============================================================================
