---------------------------- MODULE MCBlockCache ----------------------------
(***************************************************************************)
(* Small instances of BlockCache: the constants are in the configurations. *)
(* MCBlockCacheTime     two mount threads, one handle, a moving clock      *)
(* MCBlockCacheSteps    a mount thread, prefetching, a writer and a        *)
(*                      connection thread that delivers OP_INVALIDATE      *)
(* MCBlockCacheLive     a mount thread and two prefetching ones, fair      *)
(* MCBlockCacheReplace  two handles on a path that gets a new inode        *)
(***************************************************************************)
EXTENDS BlockCache, TLC

\* Mount threads differ in nothing but their name.
Symmetric == Permutations(Reader)
=============================================================================
