------------------------ MODULE MCAcquisitionLifecycle ------------------------
(***************************************************************************)
(* The settings of AcquisitionLifecycle that TLC tries.                    *)
(***************************************************************************)
EXTENDS AcquisitionLifecycle

Setting(mode, n) == [imageMode |-> mode, numImages |-> n]

MCSettings == {Setting("single", 1), Setting("multiple", 2)}
MCSettingOfOneImage == {Setting("multiple", 1)}
=============================================================================
