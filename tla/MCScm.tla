-------------------------------- MODULE MCScm --------------------------------
(* Small configurations of Scm for TLC *)
EXTENDS Scm, TLC

Arg(k, v) == [key |-> k, val |-> v]
KvStart(type, grain, seg, over, threads, force) ==
  << Arg("u", type), Arg("f", 1), Arg("grain", grain), Arg("seg", seg), Arg("o", over), Arg("t", threads),
     Arg("force", force) >>
Store(phys, starts) == [kv |-> TRUE, phys |-> phys, starts |-> starts]

Num(k, v) == [key |-> k, val |-> v, spec |-> << >>]
Ranges(d, spec) == [key |-> "scm_props_dev", val |-> d, spec |-> spec]
Rng(len, parts) == [len |-> len, parts |-> parts, attrs |-> << >>]
Ct(streams, rel, pset) == [streams |-> streams, rel |-> rel, pset |-> pset]
Manager(tokens, devs, ctlrs) == [kv |-> FALSE, tokens |-> tokens, devs |-> devs, ctlrs |-> ctlrs]

Dev(d) == Num("/dev/", d)
Pages == << Num("segment_size", 2) >>
Three == << Ct(2, 1, PropSetAll), Ct(2, 1, PropSetAll), Ct(1, 1, {NVRAM}) >>

MCConfs == {
  \* the device is no multiple of the segment; reopened as another type, then destroyed
  Store(142, << KvStart(2, 2, 8, 700, 3, 0), KvStart(5, 2, 6, 600, 9, 0),
                KvStart(2, 2, 4, 600, 3, 1) >>),
  \* grown by less than a grain: its metadata are found, and refused
  Store(142, << KvStart(2, 2, 8, 700, 1, 0), KvStart(2, 2, 8, 700, 1, 0) \o << Arg("s", 143) >> >>),
  \* an exact multiple: a smaller segment is searched for
  Store(128, << KvStart(4, 3, 8, 600, 4, 0), KvStart(4, 4, 16, 600, 4, 0) >>),
  Store(128, << KvStart(9, 1, 4, 600, 2, 0), KvStart(9, 2, 4, 600, 2, 0) >>),
  Store(60, << << Arg("u", 2), Arg("t", -1) >>, << Arg("u", 40), Arg("h", 1) >>, << Arg("u", 1), Arg("f", 1) >>, << Arg("u", 7), Arg("s", 150) >> >>),
  Store(24, << KvStart(2, 4, 16, 5, 1, 0) >>),
  \* one device; classes of storage with a queue each; a longer real length
  Manager(<< Dev(1) >> \o Pages, << 326 >>, Three),
  Manager(<< Dev(1) >> \o Pages, << 320 >>, [c \in Ctlrs |-> Ct(1, 0, PropSetAll)]),
  Manager(<< Num("seg_qs_conf", 1), Num("scm_dev", 1), Ranges(0, << Rng(80, << << ".", NVRAM >>, << "@", 2 >> >>),
             Rng(160, << << "@", 3 >> >>), Rng(80, << << ".", SMR_SEQ1 >>, << "@", 3 >> >>) >>) >> \o Pages,
          << 320 >>, << Ct(2, 1, PropSetAll), Ct(1, 1, {NVRAM, FLASH}), Ct(1, 1, {SMR_CONV}) >>),
  Manager(<< Num("scm_dev", 1), Ranges(0, << Rng(240, << >>), Rng(80, << << ".", SMR_CONV >>, << "/", 160 >> >>) >>) >> \o Pages,
          << 320 >>, << Ct(1, 1, PropSetAll) >>),
  \* a longer real length that is not the last
  Manager(<< Num("scm_dev", 1), Ranges(0, << Rng(80, << << ".", SMR_CONV >>, << "/", 160 >> >>), Rng(240, << >>) >>) >> \o Pages,
          << 320 >>, << >>),
  \* two devices in a row, arrays of two and three
  Manager(<< Dev(1), Dev(2), Num("raid", LINEAR), Ranges(0, << Rng(160, << << "@", 1 >> >>) >>),
             Ranges(1, << Rng(80, << << "@", 1 >> >>), Rng(80, << << "@", 2 >> >>) >>) >> \o Pages,
          << 160, 160 >>, << Ct(1, 1, PropSetAll) >>),
  Manager(<< Dev(1), Dev(2), Num("raid", RAID0) >> \o Pages, << 166, 168 >>, << Ct(0, 1, PropSetAll) >>),
  Manager(<< Dev(1), Dev(2), Dev(3), Num("raid", RAID5) >> \o Pages, << 160, 160, 160 >>, << Ct(1, 1, PropSetAll) >>),
  \* arguments that are refused
  Manager(<< >>, << >>, << >>), Manager(<< Num("dev_size", 8) >>, << >>, << >>),
  Manager(<< Dev(1), Num("bogus", 1) >>, << 320 >>, << >>), Manager(<< Dev(1), Dev(2) >> \o Pages, << 320, 0 >>, << >>),
  Manager(<< Dev(1), Dev(2), Num("segment_size", 3) >>, << 320, 320 >>, << >>),
  Manager(<< Dev(1), Num("segment_size", 0) >>, << 320 >>, << >>), Manager(<< Dev(1) >> \o Pages, << 0 >>, << >>),
  Manager(<< Dev(1), Num("seg_qs_conf", 2) >> \o Pages, << 326 >>, << >>) }
=============================================================================
