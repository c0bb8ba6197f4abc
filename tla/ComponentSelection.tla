-------------------------- MODULE ComponentSelection --------------------------
(***************************************************************************)
(* The selection of the components of a snapshot on the page of            *)
(* apps/reth-snapshots-viewer (src/index.ts): the visitor starts from a    *)
(* preset and adds or removes components, and the page shows the size of   *)
(* what is selected and the `reth download` command that fetches it.       *)
(*                                                                         *)
(* A snapshot holds its blocks in files of FileBlocks blocks; a size is    *)
(* counted in files.  A preset keeps of every component all blocks, none,  *)
(* or those of a distance to the block of the snapshot.  What the command  *)
(* fetches is that of the external program, as the page takes it: a preset *)
(* flag fetches the distances of the preset, a --with flag every block.    *)
(***************************************************************************)
EXTENDS Integers

CONSTANTS Blocks,       \* the blocks of the snapshots that may be the latest
          FileBlocks,   \* blocks_per_file of the manifests
          PARIS_BLOCK,  \* the first block whose transactions --full keeps
          Recent        \* the distance of the state history, in blocks

VARIABLES block,        \* the block of the snapshot
          activePreset, checkedComponents, presetBaseComponents

vars == <<block, activePreset, checkedComponents, presetBaseComponents>>

Required == {"state", "headers"}
Group == {"acc_cs", "sto_cs"}
Dated == {"txs", "receipts"} \union Group
Components == Required \union Dated \union {"tx_send", "indices"}

PRESETS == [minimal |-> Required,
            full    |-> Required \union Dated,
            archive |-> Components]

-----------------------------------------------------------------------------
(* Sizes *)

AllFiles == block \div FileBlocks + 1

\* sizeForDistance: the files that hold the last `distance` blocks, rounded up.
FilesFor(distance) ==
    LET needed == (distance + FileBlocks - 1) \div FileBlocks
    IN  IF needed >= AllFiles THEN AllFiles ELSE IF needed > 0 THEN needed ELSE 0

\* PRESET_SIZES
PresetSize(preset, c) ==
    CASE c \in Required \/ preset = "archive" -> AllFiles
      [] c \in {"tx_send", "indices"} /\ preset # "archive" -> 0
      [] c = "txs" /\ preset = "full" -> FilesFor(block - PARIS_BLOCK + 1)
      [] c = "receipts" /\ preset = "minimal" -> FilesFor(1)
      [] OTHER -> FilesFor(Recent)

\* getComponentSizeGB: a component added to a preset is added whole.
SizeIn(preset, base, checked, c) ==
    IF c \in checked \ base THEN PresetSize("archive", c) ELSE PresetSize(preset, c)

isSendersAvailable(preset, base, checked) ==
    "txs" \in checked /\ SizeIn(preset, base, checked, "txs") >= AllFiles

isIndicesAvailable(checked) == Components \ {"indices", "tx_send"} \subseteq checked

-----------------------------------------------------------------------------
(* The command: the blocks it fetches of every component *)

\* updateModularCmd
Fetches(c) ==
    CASE checkedComponents = PRESETS[activePreset] -> PresetSize(activePreset, c)
      [] activePreset = "archive" /\ checkedComponents = Components \ {"indices"} ->
            IF c = "indices" THEN 0 ELSE AllFiles       \* --without-rocksdb
      [] OTHER ->                                       \* one flag a component
            IF \/ c \in Required \union (checkedComponents \ {"indices"})
               \/ c \in Group /\ Group \intersect checkedComponents # {}
            THEN AllFiles ELSE 0

Shows(c) == SizeIn(activePreset, presetBaseComponents, checkedComponents, c)

-----------------------------------------------------------------------------
(* Clicks *)

Init ==
    /\ block \in Blocks
    /\ activePreset = "minimal"
    /\ checkedComponents = PRESETS.minimal
    /\ presetBaseComponents = PRESETS.minimal

selectPreset(name) ==
    /\ activePreset' = name
    /\ checkedComponents' = PRESETS[name] \union Required
    /\ presetBaseComponents' = PRESETS[name]
    /\ UNCHANGED block

\* The preset that is left after a component has been added or removed: what
\* remains of `full` is selected as a whole, on top of the smallest preset.
PresetAfter(adding) ==
    IF ~adding /\ activePreset = "full" THEN "minimal" ELSE activePreset
BaseAfter(adding) ==
    IF ~adding /\ activePreset = "full" THEN PRESETS.minimal ELSE presetBaseComponents

\* What is no longer available goes with the component it depends on.
Available(checked, preset, base) ==
    LET kept == IF isSendersAvailable(preset, base, checked)
                THEN checked ELSE checked \ {"tx_send"}
    IN  IF isIndicesAvailable(kept) THEN kept ELSE kept \ {"indices"}

\* renderChecklist: the rows that can be clicked; a group is a single row.
Enabled(c) ==
    /\ c \notin Required /\ c # "sto_cs"
    /\ c = "indices" => isIndicesAvailable(checkedComponents)
    /\ c = "tx_send" => isSendersAvailable(activePreset, presetBaseComponents,
                                           checkedComponents)

toggleComponent(c) ==
    LET ids == IF c \in Group THEN Group ELSE {c}
        adding == c \notin checkedComponents
        preset == PresetAfter(adding)
        base == BaseAfter(adding)
        checked == Available(IF adding THEN checkedComponents \union ids
                                       ELSE checkedComponents \ ids, preset, base)
    IN  /\ Enabled(c)
        /\ checkedComponents' = checked
        /\ activePreset' = IF checked = Components THEN "archive" ELSE preset
        /\ presetBaseComponents' = IF checked = Components THEN Components ELSE base
        /\ UNCHANGED block

Next ==
    \/ \E name \in DOMAIN PRESETS : selectPreset(name)
    \/ \E c \in Components : toggleComponent(c)

-----------------------------------------------------------------------------
(* Properties *)

TypeOK ==
    /\ block \in Blocks
    /\ activePreset \in DOMAIN PRESETS
    /\ Required \subseteq checkedComponents /\ checkedComponents \subseteq Components
    /\ presetBaseComponents \in {PRESETS[p] : p \in DOMAIN PRESETS}

\* However the visitor came to a selection, the command fetches the selected
\* components, as many blocks of each as the page has shown the size of, and
\* senders only together with all the transactions they belong to.  (Excepted
\* are the indices: no --with flag names them; and when they are added to the
\* full preset, the command that names the components fetches all their blocks.)
SelectionIsFetched ==
    \/ activePreset = "full" /\ "indices" \in checkedComponents
    \/ /\ \A c \in Components \ {"indices"} :
            IF c \in checkedComponents THEN Fetches(c) = Shows(c)
            ELSE activePreset # "minimal" => Fetches(c) = 0
       /\ "tx_send" \in checkedComponents => Fetches("txs") = AllFiles
=============================================================================
