--------------------------- MODULE MCMemorySafety ---------------------------
(* Every kind of profile, with a limit of zero to two blocks.              *)
EXTENDS MemorySafety

MCProfiles ==
    [require_miri : BOOLEAN, require_fuzzing : {FALSE}, unsafe_policy : UnsafeBlockPolicy,
     max_unsafe_blocks : 0 .. 2, require_ffi_layout_validation : BOOLEAN,
     require_ffi_lifetime_validation : BOOLEAN]
=============================================================================
