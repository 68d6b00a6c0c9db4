CONSTANTS
    p1 = p1
    p2 = p2
    k0 = k0
    k1 = k1
    k2 = k2
    a = a
    b = b
    m1 = m1
    m2 = m2
    m3 = m3
    c1 = c1
    c2 = c2
    None = None
    Procs = {p1, p2}
    Clients = {a, b, c}
    Identities = {"member", "guest"}
    Codes = {k0, k1, k2}
    CodeOwner <- Owners
    SessionTtl = 2
    InitialCustomers <- Populations
    InitialSessions <- Opened
    InitialLimits <- Tables
    Limit = 2
    Window = 4
    MaxKeys = 2
    PerSecond = 2
    MaxTime = 2
    MaxCalls = 3
    Catalogue <- Products
    MaxAmount = 8
    Coupons = {c1, c2}
    Definitions <- NewCoupons
    Edits <- CouponEdits
    Payloads <- Reports
    Tolerance = 1
    Carts <- QuotedCarts
    InitialCoupons <- OneCoupon
    MediaIds = {m1, m2, m3}
    ShopCategories = {"drinks"}
    Media <- SavedMedia
    CarouselLimit = 1
    InitialMedia <- Pages
SPECIFICATION Spec
SYMMETRY Symmetry
INVARIANTS
    TypeOK
    LoginIsExclusive
    LimitHonest
    OrderRecordedOnce
    QuoteCoherent
PROPERTIES
    FirstRevocationStands
    ClaimedWhileValid
    ShopPageContract
