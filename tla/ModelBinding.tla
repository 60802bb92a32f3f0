---------------------------- MODULE ModelBinding ----------------------------
(***************************************************************************)
(* Which models, which calibration and which gallery an edge client runs   *)
(* with: load_config and verify_model_files                                *)
(* (edge_app/app/application_config.cpp), the start of EdgeApplication     *)
(* (edge_app/app/edge_application.cpp) and the checks of the gallery's     *)
(* model in describe, refresh_gallery and parse_gallery.  A file is what   *)
(* it contains, and a digest is the content it belongs to.  Files may be   *)
(* exchanged at any time: what is hashed is read again when it is loaded.  *)
(***************************************************************************)
EXTENDS Naturals

CONSTANTS
    Models,      \* contents of the ArcFace model file
    Reports,     \* contents of the calibration report
    None,        \* no file, no gallery, no process
    MaxChanges   \* bound: files exchanged

BindingAssumption ==
    None \notin Models \union Reports /\ MaxChanges \in Nat

PadModels == {"selected", "other"}   \* "selected" has kModelSha256

\* The fields of the configuration that decide whether a process may run.
Configs ==
    [deployment : BOOLEAN, allow_uncalibrated_thresholds : BOOLEAN,
     allow_loopback_http : BOOLEAN,
     calibration_id : BOOLEAN,                       \* it is not empty
     recognition_threshold : {"valid", "out of range", "absent"},
     calibration_report : BOOLEAN,                   \* the evidence is named
     calibration_report_sha256 : Reports, calibration_model_sha256 : Models]

VARIABLES
    arcface, pad, report,   \* the files on disk
    gallery,    \* gallery_state: the model of the stored snapshot
    pc,         \* where the process is in its start
    command,    \* what main was asked for
    config,     \* the configuration it loaded
    hash,       \* model_hash
    loaded,     \* the ArcFace and the PAD model the runtime loaded
    installed,  \* the model of the gallery in the matcher
    stale,      \* history: a file was exchanged between its check and its use
    changes

files == <<arcface, pad, report>>
vars == <<files, gallery, pc, command, config, hash, loaded, installed, stale,
          changes>>

NothingLoaded == [arcface |-> None, pad |-> None]

Init ==
    /\ arcface \in Models /\ pad \in PadModels
    /\ report \in Reports \union {None}
    /\ gallery \in Models \union {None}
    /\ pc = "off" /\ command = None /\ config = None /\ hash = None
    /\ loaded = NothingLoaded /\ installed = None
    /\ stale = FALSE /\ changes = 0

\* The process ends: a command is done, a check throws, or it is killed.
Exits ==
    /\ pc' = "off" /\ command' = None /\ config' = None /\ hash' = None
    /\ loaded' = NothingLoaded /\ installed' = None /\ stale' = FALSE

To(next) ==
    /\ pc' = next /\ UNCHANGED <<command, config, hash, loaded, installed, stale>>

-----------------------------------------------------------------------------
validate_attendance_config(c) ==
    /\ c.recognition_threshold = "valid"
    /\ c.calibration_id \/ c.allow_uncalibrated_thresholds

load_config(c) ==
    /\ c.recognition_threshold # "absent"
    /\ c.deployment => /\ ~ c.allow_uncalibrated_thresholds
                       /\ ~ c.allow_loopback_http
                       /\ c.calibration_report
    /\ validate_attendance_config(c)

\* main: --require-deployment, then one of the three commands.
Start(c, what, require_deployment) ==
    /\ pc = "off" /\ load_config(c)
    /\ require_deployment => c.deployment
    /\ pc' = "config" /\ command' = what /\ config' = c
    /\ UNCHANGED <<files, gallery, hash, loaded, installed, stale, changes>>

\* verify_model_files hashes the ArcFace model and looks at the PAD model.
HashModels ==
    /\ pc = "config"
    /\ IF pad = "selected"
       THEN /\ hash' = arcface /\ pc' = "hashed"
            /\ UNCHANGED <<command, config, loaded, installed, stale>>
       ELSE Exits
    /\ UNCHANGED <<files, gallery, changes>>

\* Mutant: the calibrated model is not compared with the active one.
verify_deployment_evidence_AnyModel ==
    config.deployment =>
        /\ config.calibration_id /\ config.calibration_report_sha256 = report
verify_deployment_evidence ==
    config.deployment =>
        /\ ~ config.allow_uncalibrated_thresholds
        /\ ~ config.allow_loopback_http
        /\ config.calibration_id
        /\ config.calibration_model_sha256 = hash
        /\ config.calibration_report_sha256 = report

VerifyEvidence ==
    /\ pc = "hashed"
    /\ IF verify_deployment_evidence
       THEN To(IF command = "import" THEN "import" ELSE "describe")
       ELSE Exits
    /\ UNCHANGED <<files, gallery, changes>>

\* import_gallery: parse_gallery_file takes a snapshot of the active model.
ImportGallery(m) ==
    /\ pc = "import" /\ Exits
    /\ gallery' = IF m = hash THEN m ELSE gallery
    /\ UNCHANGED <<files, changes>>

\* Mutant: a stored gallery of another model is not refused.
compatible_Always == gallery = gallery
\* The stored gallery, if there is one, was made with the active model.
compatible == gallery \in {None, hash}

\* describe; --validate-only ends here.
Describe ==
    /\ pc = "describe"
    /\ IF compatible /\ command = "run" THEN To("construct") ELSE Exits
    /\ UNCHANGED <<files, gallery, changes>>

\* The constructors of the runtime load the model files.
LoadModels ==
    /\ pc = "construct" /\ pc' = "install"
    /\ loaded' = [arcface |-> arcface, pad |-> pad]
    /\ UNCHANGED <<files, gallery, command, config, hash, installed, stale,
                   changes>>

\* refresh_gallery, at the start and for as long as the loop wants a reload
\* (GallerySync has its conditions): before the camera starts a gallery of another model ends
\* the process; later it keeps the gallery that is installed.
RefreshGallery ==
    /\ pc \in {"install", "running"}
    /\ IF compatible
       THEN /\ installed' = gallery /\ pc' = "running"
            /\ UNCHANGED <<command, config, hash, loaded, stale>>
       ELSE IF pc = "install" THEN Exits ELSE To("running")
    /\ UNCHANGED <<files, gallery, changes>>

\* Mutant: the worker takes a snapshot of any model.
parse_gallery_AnyModel(m) == m # None
parse_gallery(m) == m = hash

\* The sync worker stores what the backend offers.
Sync(m) ==
    /\ pc = "running" /\ parse_gallery(m) /\ gallery' = m
    /\ UNCHANGED <<files, pc, command, config, hash, loaded, installed, stale,
                   changes>>

Ends == pc # "off" /\ Exits /\ UNCHANGED <<files, gallery, changes>>

Process ==
    \/ \E c \in Configs, what \in {"run", "import", "validate"},
          r \in BOOLEAN : Start(c, what, r)
    \/ HashModels \/ VerifyEvidence \/ Describe \/ LoadModels \/ RefreshGallery
    \/ \E m \in Models : ImportGallery(m) \/ Sync(m)
    \/ Ends

-----------------------------------------------------------------------------
\* The files that were looked at and are still to be loaded.
Unused == pc \in {"hashed", "import", "describe", "construct"}

Exchange ==
    /\ changes < MaxChanges /\ changes' = changes + 1
    /\ \/ /\ arcface' \in Models \ {arcface} /\ UNCHANGED <<pad, report>>
          /\ stale' = (stale \/ Unused)
       \/ /\ pad' \in PadModels \ {pad} /\ UNCHANGED <<arcface, report>>
          /\ stale' = (stale \/ Unused)
       \/ /\ report' \in (Reports \union {None}) \ {report}
          /\ UNCHANGED <<arcface, pad, stale>>
    /\ UNCHANGED <<gallery, pc, command, config, hash, loaded, installed>>

\* Another run of the client imports a snapshot for the model it found.
ImportElsewhere ==
    /\ gallery' = arcface
    /\ UNCHANGED <<files, pc, command, config, hash, loaded, installed, stale,
                   changes>>

Next == Process \/ Exchange \/ ImportElsewhere

Spec == Init /\ [][Next]_vars

-----------------------------------------------------------------------------
\* Faces are compared only with templates of the model that embeds them,
\* whichever process stored the gallery, unless the model file was exchanged
\* between its hash and its loading.
SameModel == installed # None /\ ~ stale => installed = loaded.arcface

\* A deployed process recognises with the model its calibration names and
\* with the PAD model of the contract, under thresholds in range, and without
\* the exemptions of development, with the same proviso.
EvidenceHolds ==
    pc = "running" /\ ~ stale =>
        /\ loaded.pad = "selected"
        /\ config.recognition_threshold = "valid"
        /\ config.calibration_id \/ config.allow_uncalibrated_thresholds
        /\ config.deployment =>
             /\ loaded.arcface = config.calibration_model_sha256
             /\ ~ config.allow_uncalibrated_thresholds
             /\ ~ config.allow_loopback_http

\* What makes these two inductive: the digest and the PAD model are those on
\* disk until they are loaded, and those loaded from then on, unless a file
\* was exchanged in between; a gallery is installed for the digest only.
BoundSoFar ==
    /\ pc # "off" => config \in Configs /\ load_config(config)
    /\ pc \in {"off", "config"} => installed = None /\ ~ stale
    /\ pc \in {"hashed", "import", "describe", "construct"} =>
         installed = None /\ (~ stale => hash = arcface /\ pad = "selected")
    /\ pc \in {"install", "running"} /\ ~ stale =>
         loaded = [arcface |-> hash, pad |-> "selected"]
    /\ pc \in {"import", "describe", "construct", "install", "running"}
         /\ config.deployment => config.calibration_model_sha256 = hash
    /\ installed \in {None, hash} /\ stale \in BOOLEAN
    /\ pc \in {"off", "config", "hashed", "import", "describe", "construct",
              "install", "running"}

\* Whatever the backend offers or an operator imports, the stored gallery is
\* only replaced by one for the model of a process that runs.
GalleryForModel == gallery' # gallery => gallery' \in {hash, arcface}
StoredForAnActiveModel == [][GalleryForModel]_vars
=============================================================================
