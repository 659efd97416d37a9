------------------------------- MODULE ConfigTool -------------------------------
(***************************************************************************)
(* SiglusExtractCfg: a form for the settings in SiglusCfg.ini.             *)
(* SettingParser holds the settings, loads them when the form is made,     *)
(* writes them back at once and again at each press of Save, key by key.   *)
(* The handlers of the form also run while its constructor sets the        *)
(* boxes.  The program may end between any two writes.                     *)
(***************************************************************************)
EXTENDS Integers, Sequences

CONSTANTS Names,   \* what is typed for a file: <<name, padded>>
          Fonts    \* the installed fonts, in their order

Keys  == <<"Gameexe", "Scene", "BypassDVD", "BypassFont", "CustomFont">>
Key   == {Keys[k] : k \in DOMAIN Keys}
Value(v) == <<v, FALSE>>
Trim(text) == Value(text[1])
NoKey == Value("")

ConfigAssumption ==
  /\ DOMAIN Fonts = 1 .. Len(Fonts) /\ Len(Fonts) \in Nat \ {0}
  /\ \A k \in DOMAIN Fonts : Fonts[k] # ""

VARIABLES
  ini,      \* the file: a value for each key, NoKey without one
  files,    \* the game files there are
  setting,  \* the fields of SettingParser
  shown,    \* the boxes of the form, of the two flags "true" for Yes
  fphase,   \* "closed", "texts", "dvd", "font", "list" (of the constructor) or "open"
  asks,     \* the box whose warning is on the screen, or "none"
  saving,   \* 0 or the key that is written next
  result    \* of the last press of Save: "none", "refused", "failed" or "ok"

fvars == <<ini, files, setting, shown, fphase, asks, saving, result>>

Defaults == [key \in Key |-> Value(CASE key = "Gameexe" -> "Gameexe.dat"
                                     [] key = "Scene" -> "Scene.pck"
                                     [] key = "CustomFont" -> "SimHei"
                                     [] OTHER -> "true")]

Flag == {Value("true"), Value("false")}

(* The file as a user or an earlier run has left it; keys may be missing. *)
Init ==
  /\ ini \in [Key -> Flag \cup {Trim(t) : t \in Names} \cup {NoKey}]
  /\ \A key \in Key : ini[key] \in Flag <=> key \in {"BypassDVD", "BypassFont"}
  /\ files \in SUBSET ({Trim(t) : t \in Names} \ {NoKey})
  /\ setting = Defaults /\ shown = Defaults
  /\ fphase = "closed" /\ asks = "none" /\ saving = 0 /\ result = "none"

-----------------------------------------------------------------------------
(* SettingParser. *)

(* ReadIni: the default for a missing key; an empty value keeps the field. *)
LoadFromFile == [key \in Key |-> IF ini[key] = NoKey THEN Defaults[key] ELSE Trim(ini[key])]

(* The constructors of the parser and of the form, up to the write. *)
Start ==
  /\ fphase = "closed"
  /\ setting' = LoadFromFile
  /\ fphase' = "texts" /\ saving' = 1
  /\ UNCHANGED <<ini, files, shown, asks, result>>

(* The end of a save: the constructor does not look at it. *)
Report(r) == result' = IF fphase = "open" THEN r ELSE result

(* Mutant: a write that fails is passed over. *)
PassFailure ==
  /\ saving > 0
  /\ IF saving = Len(Keys) THEN saving' = 0 /\ Report("ok") ELSE saving' = saving + 1 /\ UNCHANGED result
  /\ UNCHANGED <<ini, files, setting, shown, fphase, asks>>

FailWrite ==
  /\ saving > 0
  /\ saving' = 0 /\ Report("failed")
  /\ UNCHANGED <<ini, files, setting, shown, fphase, asks>>

WriteKey ==
  /\ saving > 0
  /\ ini' = [ini EXCEPT ![Keys[saving]] = setting[Keys[saving]]]
  /\ IF saving = Len(Keys) THEN saving' = 0 /\ Report("ok") ELSE saving' = saving + 1 /\ UNCHANGED result
  /\ UNCHANGED <<files, setting, shown, fphase, asks>>

-----------------------------------------------------------------------------
(* The form.  Its handlers and its constructor run one at a time, a warning
   holds them up. *)
Free(phase) == fphase = phase /\ saving = 0 /\ asks = "none"

(* TextChanged. *)
SetName(key, text) ==
  /\ shown' = [shown EXCEPT ![key] = text]
  /\ setting' = [setting EXCEPT ![key] = Trim(text)]

ShowTexts ==
  /\ Free("texts")
  /\ shown' = [shown EXCEPT !["Gameexe"] = setting["Gameexe"], !["Scene"] = setting["Scene"]]
  /\ fphase' = "dvd"
  /\ UNCHANGED <<ini, files, setting, asks, saving, result>>

TypeName ==
  /\ Free("open")
  /\ \E key \in {"Gameexe", "Scene"}, text \in Names : SetName(key, text)
  /\ result' = "none"
  /\ UNCHANGED <<ini, files, fphase, asks, saving>>

(* SelectedIndexChanged of the boxes for both flags, when value is chosen: No
   raises a warning first.  Both handlers set the flag of the DVD check. *)
Choose(box, value) ==
  /\ shown' = [shown EXCEPT ![box] = value]
  /\ IF value = Value("true")
     THEN setting' = [setting EXCEPT !["BypassDVD"] = value] /\ UNCHANGED asks
     ELSE asks' = box /\ UNCHANGED setting

ShowFlag ==
  /\ \/ Free("dvd") /\ Choose("BypassDVD", setting["BypassDVD"]) /\ fphase' = "font"
     \/ Free("font") /\ Choose("BypassFont", setting["BypassFont"]) /\ fphase' = "list"
  /\ UNCHANGED <<ini, files, saving, result>>

ChooseFlag ==
  /\ Free("open")
  /\ \E box \in {"BypassDVD", "BypassFont"}, value \in Flag : Choose(box, value)
  /\ result' = "none"
  /\ UNCHANGED <<ini, files, fphase, saving>>

(* The warning is answered: No sets the box back, and the flag again. *)
Answer ==
  /\ asks # "none"
  /\ \E value \in Flag :
       /\ shown' = [shown EXCEPT ![asks] = value]
       /\ setting' = [setting EXCEPT !["BypassDVD"] = value]
  /\ asks' = "none"
  /\ UNCHANGED <<ini, files, fphase, saving, result>>

(* The box of fonts: the handler takes what is selected, and where the setting
   is not installed that is the first font. *)
SetFont(font) ==
  /\ shown' = [shown EXCEPT !["CustomFont"] = font]
  /\ setting' = [setting EXCEPT !["CustomFont"] = font]

Installed == {Value(Fonts[k]) : k \in DOMAIN Fonts}

ShowFonts ==
  /\ Free("list")
  /\ SetFont(IF setting["CustomFont"] \in Installed THEN setting["CustomFont"] ELSE Value(Fonts[1]))
  /\ fphase' = "open"
  /\ UNCHANGED <<ini, files, asks, saving, result>>

ChooseFont ==
  /\ Free("open")
  /\ \E font \in Installed : SetFont(font)
  /\ result' = "none"
  /\ UNCHANGED <<ini, files, fphase, asks, saving>>

(* SaveButton_Click. *)
Save ==
  /\ Free("open")
  /\ IF {setting["Gameexe"], setting["Scene"]} \subseteq files
     THEN saving' = 1 /\ result' = "none"
     ELSE result' = "refused" /\ UNCHANGED saving
  /\ UNCHANGED <<ini, files, setting, shown, fphase, asks>>

(* The form is closed, or the process ends. *)
Close ==
  /\ fphase # "closed"
  /\ fphase' = "closed" /\ asks' = "none" /\ saving' = 0 /\ result' = "none"
  /\ UNCHANGED <<ini, files, setting, shown>>

Next == \/ Start \/ WriteKey \/ FailWrite
        \/ ShowTexts \/ ShowFlag \/ ShowFonts
        \/ TypeName \/ ChooseFlag \/ Answer \/ ChooseFont \/ Save
        \/ Close

Spec == Init /\ [][Next]_fvars

-----------------------------------------------------------------------------
(* Properties. *)

(* After "Save ok" the file holds the names and the font of the form, all of
   one moment and of files that are there, and these are what the next start
   loads and shows; a save that failed anywhere is never reported so. *)
SavedIsShown ==
  result = "ok" =>
    /\ \A key \in {"Gameexe", "Scene", "CustomFont"} :
         ini[key] = Trim(shown[key]) /\ LoadFromFile[key] = ini[key]
    /\ {ini["Gameexe"], ini["Scene"]} \subseteq files

(* The help texts of the two boxes: "Yes : bypass DVD check", "Yes : bypass
   font limitation", "No: Do nothing for this check".  After "Save ok" the file
   has for each check what its box says. *)
ChecksAreSaved ==
  result = "ok" => \A key \in {"BypassDVD", "BypassFont"} : ini[key] = shown[key]
=============================================================================
