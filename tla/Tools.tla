-------------------------------- MODULE Tools --------------------------------
(***************************************************************************)
(* The programs beside SiglusExtract: the repacker of scripts, the         *)
(* configuration tool and the library in the game.  They are processes of  *)
(* their own and share nothing; a behaviour is one of them.                *)
(***************************************************************************)
EXTENDS TextRepack

CONSTANTS Programs,                          \* those a behaviour may be of
          Names, Fonts,                      \* of ConfigTool
          Configs, Asked, Targets, Small, FaceSize  \* of UniversalPatch

VARIABLES
  program,
  ini, files, setting, shown, fphase, asks, saving, result,
  json, cfg, disk, hook, asked, found, there, face

Config == INSTANCE ConfigTool
Patch == INSTANCE UniversalPatch WITH file <- json

ASSUME ToolAssumption == Patch!PatchAssumption /\ Config!ConfigAssumption

configvars == <<ini, files, setting, shown, fphase, asks, saving, result>>
patchvars  == <<json, cfg, disk, hook, asked, found, there, face>>
toolvars   == <<program, vars, configvars, patchvars>>

RepackRests ==
  /\ strings = <<>> /\ edited = <<>> /\ ended = FALSE /\ text = <<>> /\ memory = <<>>
  /\ phase = "" /\ pos = 0 /\ line = <<>> /\ lines = <<>> /\ new = <<>> /\ index = <<>> /\ data = <<>>
ConfigRests ==
  /\ ini = <<>> /\ files = {} /\ setting = <<>> /\ shown = <<>> /\ fphase = "" /\ asks = ""
  /\ saving = 0 /\ result = ""
PatchRests ==
  /\ json = <<>> /\ cfg = <<>> /\ disk = <<>> /\ hook = "" /\ asked = <<>> /\ found = <<>>
  /\ there = {} /\ face = <<>>

ToolInit ==
  /\ program \in Programs
  /\ IF program = "repack" THEN Init ELSE RepackRests
  /\ IF program = "config" THEN Config!Init ELSE ConfigRests
  /\ IF program = "patch" THEN Patch!Init ELSE PatchRests

ToolNext ==
  \/ program = "repack" /\ Next /\ UNCHANGED <<program, configvars, patchvars>>
  \/ program = "config" /\ Config!Next /\ UNCHANGED <<program, vars, patchvars>>
  \/ program = "patch" /\ Patch!Next /\ UNCHANGED <<program, vars, configvars>>

ToolSpec == ToolInit /\ [][ToolNext]_toolvars

-----------------------------------------------------------------------------
(* Properties; each is stated in its module. IndexMatchesData and LinesKept
   are those of TextRepack, whose phase is empty while another program runs. *)

(* After "Save ok" the file holds the names and the font of the form. *)
SavedIsShown == program = "config" => Config!SavedIsShown

(* After "Save ok" the file has for each check what its box says. *)
ChecksAreSaved == program = "config" => Config!ChecksAreSaved

(* Only names of the mapper are redirected, and as the tables say, without harm
   to the game, where these fit each other. *)
RedirectSafe == program = "patch" => Patch!RedirectSafe

(* The font of the configuration is in the face and nothing behind it. *)
FaceInBounds == program = "patch" => Patch!FaceInBounds

(* A name whose extension is replaced is opened as the tables say. *)
RedirectAsConfigured == program = "patch" => Patch!RedirectAsConfigured
=============================================================================
