-------------------------- MODULE MCCameraScanner --------------------------
(* Small instances of CameraScanner, whose constants need no definitions.  *)
EXTENDS CameraScanner
=============================================================================
