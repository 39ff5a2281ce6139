--------------------------- MODULE MCDesktopShell ---------------------------
(* Bounds for TLC.  The commands are all of the renderer's; what is slow,  *)
(* dies or grows is chosen in the configuration.                           *)
EXTENDS DesktopShell, TLC

\* The broker of main.rs, and one that lets every field through.
TwoBrokers == {{}, RendererFields}
SlowCommands == {"open", "status"}
=============================================================================
