------------------------------ MODULE MCDesktop ------------------------------
(***************************************************************************)
(* A desktop of 6 by 6 pixels with a window that holds a button and a      *)
(* child window, and a terminal that overlaps it.                          *)
(***************************************************************************)
EXTENDS Desktop

CONSTANTS manager, window, child, button, terminal

MCWindows == {window, child, terminal}
MCParentOf == (window :> manager) @@ (terminal :> manager) @@ (child :> window) @@ (button :> window)
MCSizeOf == (manager :> <<6, 6>>) @@ (window :> <<5, 6>>) @@ (terminal :> <<3, 4>>)
            @@ (child :> <<3, 4>>) @@ (button :> <<1, 1>>)
MCInitKids == (manager :> <<window, terminal>>) @@ (window :> <<button, child>>)
              @@ (terminal :> <<>>) @@ (child :> <<>>) @@ (button :> <<>>)
MCInitPos == (manager :> <<0, 0>>) @@ (window :> <<0, 0>>) @@ (terminal :> <<3, 2>>)
             @@ (child :> <<0, 2>>) @@ (button :> <<1, 0>>)
MCCursorSize == <<2, 1>>
MCOffsets == {<<0, 0>>, <<2, 0>>, <<0, 2>>, <<-2, -2>>}
MCEarlyOffsets == {<<2, 0>>}
=============================================================================
