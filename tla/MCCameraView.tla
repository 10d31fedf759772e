----------------------------- MODULE MCCameraView -----------------------------
(* Matrices of two parts with two values.                                       *)
EXTENDS CameraView, TLC

MCValue == {0, 1}
MCDefault == <<0, 0>>
===============================================================================
