------------------------------- MODULE MCTools -------------------------------
(***************************************************************************)
(* Values for the constants of Tools.                                      *)
(***************************************************************************)
EXTENDS Tools, TLC

(* The names typed into the form and the installed fonts. *)
TypedNames == {<<"mod", TRUE>>, <<"", FALSE>>}
InstalledFonts == <<"a", "SimHei">>

(* The names, as Patch!Path makes them, the empty one and what is no string. *)
Name(dir, name) == [dir |-> dir, name |-> name]
Blank    == Name(<<>>, <<"">>)
NoString == Name(<<>>, <<>>)
NoFont   == <<"no string">>

(* What the game opens: a video, by a name in capitals too, a picture of a
   folder, and a device; and what may be there for them, in a folder below. *)
Omv(ext)     == Name(<<>>, <<"op", ext>>)
G00(dir, ext) == Name(<<<<"g00">>>> \o dir, <<"va", ext>>)
Mod          == <<<<"mod">>>>
AskedNames   == {Omv("omv"), Omv("OMV"), G00(<<>>, "g00"), Name(<<>>, <<"con">>)}
TargetNames  == {Omv("omv2"), G00(Mod, "g01")}
SmallLetters == "OMV" :> "omv"

(* Values with and without a point, a stem or a folder, empty ones and ones that
   are no strings.  Plain and Upper do not fit the names of Both. *)
Plain   == ("omv" :> Name(<<>>, <<"omv2">>)) @@ ("g00" :> NoString)
Upper   == ("OMV" :> Name(<<>>, <<"", "omv2">>)) @@ ("g00" :> Blank)
Point   == ("omv" :> Name(<<>>, <<"", "omv2">>)) @@ ("g00" :> Blank)
Folder  == ("omv" :> Name(<<>>, <<"op", "omv2">>)) @@ ("g00" :> Name(Mod, <<"va", "g01">>))
Both    == (<<"va", "g00">> :> Name(<<>>, <<"va", "g01">>)) @@ (<<"op", "OMV">> :> Name(<<>>, <<"op", "omv2">>))
Wrong   == <<"op", "omv">> :> NoString
Cfg(font, extensions, mapper) == [font |-> font, extensions |-> extensions, mapper |-> mapper]
Jsons == {Cfg(<<"a">>, Plain, Both), Cfg(<<"a", "b", "c">>, Upper, Both), Cfg(<<"a", "b">>, Folder, Both),
          Cfg(<<>>, Point, Wrong), Cfg(NoFont, <<>>, <<>>)}
=============================================================================
