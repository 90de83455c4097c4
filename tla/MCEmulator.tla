---------------------------- MODULE MCEmulator ----------------------------
(* A card with a folder of images that has a folder in it, and a stick. *)
EXTENDS Emulator, Sequences

MCDrives == <<"sd", "usb">>
MCUp == [n \in Folders \union Files |->
           CASE n = "images" -> "sd" [] n = "games" -> "images" [] n = "hd.games" -> "games"
             [] n \in {"hd.images", "hx.images"} -> "images"]
MCNameOf == [n \in Folders \union Files \union {"sd", "usb", ".."} |->
               CASE n = "images" -> <<"i">> [] n = "games" -> <<"g">>
                 [] n = "sd" -> <<"s", "d">> [] n = "usb" -> <<"u">>
                 [] n = "hx.images" -> <<"h", "x">> [] n = ".." -> <<".", ".">>
                 [] OTHER -> <<"h", "d">>]
MCRank == [n \in Folders \union Files |->
             CASE n = "hx.images" -> 2 [] OTHER -> 1]
MCImageFolder == [r \in {"sd", "usb"} |-> IF r = "sd" THEN "images" ELSE "none"]
MCAutoImage == <<"h", "x">>
MCRows == <<3, 2>>

============================================================================
