\* Two threads share two dictionaries of one language; the dictionary cache may be reset.
CONSTANTS
  t1 = t1
  t2 = t2
  d1 = d1
  d2 = d2
  en = en
  dictCache = dictCache
  langCache = langCache
  o1 = o1
  o2 = o2
  o3 = o3
  o4 = o4
  s1 = s1
  s2 = s2
  s3 = s3
  Thread = {t1, t2}
  Cache = {dictCache, langCache}
  Key = {d1, d2, en}
  CacheOf <- DictCacheOf
  Part <- LangOfDict
  Obj = {o1, o2, o3, o4}
  Slot = {s1, s2, s3}
  OwnerOf <- SlotOwner
  Resettable = {dictCache}
  Global = Global
  None = None
SPECIFICATION FairSpec
INVARIANTS RefCountExact NothingDanglesOrLeaks OneObjectPerKey
PROPERTY CallsReturn
