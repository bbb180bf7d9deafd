------------------------------- MODULE DevProps -------------------------------
(***************************************************************************)
(* The ranges of a storage device (scm-dev-properties.c, .h): a device is  *)
(* a sequence of ranges without holes, each with a length, a storage class,*)
(* the backing device, the zone length of sequential zones and the hack    *)
(* r_real_len_.  The bit masks of classes are sets here.                   *)
(***************************************************************************)
EXTENDS Naturals, Sequences, FiniteSets, FiniteSetsExt, SequencesExt

CONSTANT RANGES_MAX              \* SCM_DEV_RANGES_MAX

NVRAM == 0
FLASH == 1
SMR_CONV == 2
SMR_SEQ1 == 3
SMR_SEQ2 == 4
PROP_LAST == 5

\* Every storage class: SCM_PROP_SET_ALL.
PropSetAll == NVRAM .. PROP_LAST - 1

is_smr_seq(p) == p >= SMR_SEQ1 /\ p <= SMR_SEQ2

RPROP(l, p, r, d) == [len |-> l, prop |-> p, real |-> r, dev |-> d, zone |-> 0]

\* A device of one range of the default class, with no backing device.
set_default(bytes) == << RPROP(bytes, FLASH, 0, 0) >>

SumOver(S, f(_)) == MapThenSumSet(f, S)

\* Where range i begins.
Start(ps, i) == LET L(j) == ps[j].len IN SumOver(1 .. i - 1, L)

size_grain_set(ps, grain, set) ==
    LET G(i) == ps[i].len \div grain
    IN  SumOver({i \in DOMAIN ps : ps[i].prop \in set}, G)

size_grain(ps, grain) == size_grain_set(ps, grain, PropSetAll)
size(ps) == size_grain(ps, 1)

real_size_grain(ps, grain) ==
    LET G(i) == (IF ps[i].real # 0 THEN ps[i].real ELSE ps[i].len) \div grain
    IN  SumOver({i \in DOMAIN ps : ps[i].prop \in PropSetAll}, G)

\* At most max bytes of a device; ranges that begin behind them are dropped.
copy(src, max) ==
    LET keep == {i \in DOMAIN src : Start(src, i) < max}
        Left(i) == max - Start(src, i)
    IN  [i \in keep |-> [src[i] EXCEPT !.len = IF @ < Left(i) THEN @ ELSE Left(i)]]

copy_full(src) == copy(src, size(src))

\* Two neighbours may be merged.
compatible(p1, p2) ==
    /\ p1.prop = p2.prop /\ p1.dev = p2.dev
    /\ is_smr_seq(p1.prop) => p1.zone = p2.zone

\* The bound of the array is an assertion only.
add_range_prop(ps, new) ==
    IF ps # << >> /\ compatible(Last(ps), new)
    THEN [ps EXCEPT ![Len(ps)].len = @ + new.len]
    ELSE Append(ps, new)

append(p1, p2) == FoldLeft(add_range_prop, p1, p2)

\* The range an offset is in, 0 when it is beyond the device.
find(ps, off) ==
    LET in == {i \in DOMAIN ps : off < Start(ps, i) + ps[i].len}
    IN  IF in = {} THEN 0 ELSE Min(in)

\* vpba -> pba: the backing device and the offset in it.  The offset counts the
\* ranges just before that have the same device.
linear_map(ps, vpba) ==
    LET i == find(ps, vpba)
        first == CHOOSE k \in 1 .. i : /\ \A j \in k .. i : ps[j].dev = ps[i].dev
                                       /\ k = 1 \/ ps[k - 1].dev # ps[i].dev
    IN  IF i = 0 THEN [dev |-> 0, addr |-> 0]
        ELSE [dev |-> ps[i].dev, addr |-> vpba - Start(ps, first)]

(***************************************************************************)
(* The description of a device as an argument, len[.prop][@dev][/real]     *)
(* [{attributes}]:...; a specifier is <<kind, value>>.                     *)
(***************************************************************************)
\* An attribute sets the zone length only when nothing follows its "=".
parse_attribute(rp, a) ==
    IF a = << "zone_len=" >> /\ is_smr_seq(rp.prop) THEN [rp EXCEPT !.zone = 0] ELSE rp

parse_attrs(rp, attrs) == FoldLeft(parse_attribute, rp, attrs)

Specified(rp, s) ==
    CASE s[1] = "." -> IF s[2] \in PropSetAll THEN [rp EXCEPT !.prop = s[2]] ELSE rp
      [] s[1] = "@" -> [rp EXCEPT !.dev = s[2]]
      [] s[1] = "/" -> [rp EXCEPT !.real = s[2]]
      [] OTHER -> rp

\* The attributes of a range stay in force for the ranges behind it.
parse(spec) ==
    LET n == IF Len(spec) < RANGES_MAX THEN Len(spec) ELSE RANGES_MAX
        Attrs(i) == LET with == {k \in 1 .. i : spec[k].attrs # << >>}
                    IN  IF with = {} THEN << >> ELSE spec[Max(with)].attrs
    IN  [i \in 1 .. n |-> parse_attrs(FoldLeft(Specified, RPROP(spec[i].len, FLASH, 0, 0), spec[i].parts),
                                      Attrs(i))]
=============================================================================
