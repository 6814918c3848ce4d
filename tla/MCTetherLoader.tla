---------------------------- MODULE MCTetherLoader ----------------------------
(* Kernel versions an S+ device may run (4.9 and later, as the existence  *)
(* test asserts): each window boundary of the variant table (4.14, 5.4,    *)
(* 5.10) and a version strictly inside each window.                        *)
EXTENDS TetherLoader

MCKvers == {KVER(4, 9, 0), KVER(4, 14, 0), KVER(4, 19, 0), KVER(5, 4, 0),
            KVER(5, 8, 0), KVER(5, 10, 0), KVER(5, 15, 0)}

================================================================================
